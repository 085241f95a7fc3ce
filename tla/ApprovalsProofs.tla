--------------------------- MODULE ApprovalsProofs ---------------------------
(***************************************************************************)
(* Theorems about the approvals windows, for every number of windows.      *)
(***************************************************************************)
EXTENDS Approvals, DecisionProofs

\* A step of a window is a step of one of the installer's clients, or leaves
\* the services alone.
LEMMA WindowIsClient ==
  ASSUME WindowTypeOK, [ApprovalsNext]_approvalsVars PROVE [Next]_vars
<1>1. CASE ServiceNext
  BY <1>1 DEF Next
<1>2. CASE \E w \in Clients : WindowStep(w)
  BY <1>2 DEF WindowStep, Returns, RefreshPending, RefreshTrusted
<1>3. CASE \E w \in Clients : Click(w)
  <2>1. PICK w \in Clients : Click(w)
    BY <1>3
  <2>2. \E op \in {"approve", "deny", "revoke"}, i \in Ids : PlaceCall(w, op, i)
    <3>1. CASE \E i \in Ids, op \in {"approve", "deny"} : PlaceCall(w, op, i)
      BY <3>1
    <3>2. CASE \E i \in Ids : PlaceCall(w, "revoke", i)
      BY <3>2
    <3>3. win[w].pending \subseteq Ids /\ win[w].trusted \subseteq Ids
      BY DEF WindowTypeOK, Window
    <3>4. QED
      BY <2>1, <3>1, <3>2, <3>3 DEF Click
  <2>3. ClientCalls(w)
    BY <2>1, <2>2 DEF Click, ClientCalls
  <2>4. QED
    BY <2>3 DEF Next
<1>4. CASE \E w \in Clients : TimesOut(w) \/ ListTimesOut(w)
  BY <1>4 DEF TimesOut, ListTimesOut, ClientGivesUp, Next
<1>5. QED
  BY <1>1, <1>2, <1>3, <1>4 DEF ApprovalsNext, approvalsVars

\* The lists are lists of ids, and the windows keep their shape.
LEMMA WindowTypeStep ==
  ASSUME TypeOK, WindowTypeOK, [ApprovalsNext]_approvalsVars
  PROVE  WindowTypeOK'
<1> USE DEF WindowTypeOK
<1>1. ListPending \subseteq Ids /\ ListTrusted \subseteq Ids
  BY DEF ListPending, ListTrusted, TypeOK, TrustedApp
<1>2. \A w \in Clients : win[w] \in Window
  OBVIOUS
<1>3. CASE UNCHANGED win
  BY <1>3
<1>4. ASSUME NEW w \in Clients, NEW v \in Window, win' = [win EXCEPT ![w] = v]
      PROVE  WindowTypeOK'
  BY <1>4
<1>5. ASSUME NEW w \in Clients, Click(w) \/ TimesOut(w) \/ Returns(w)
      PROVE  WindowTypeOK'
  <2>1. \E pc \in {"waiting", "pending"} : win' = [win EXCEPT ![w].pc = pc]
    BY <1>5 DEF Click, TimesOut, Returns
  <2>2. QED
    BY <1>2, <2>1 DEF Window
<1>6. ASSUME NEW w \in Clients, RefreshPending(w) PROVE WindowTypeOK'
  BY <1>1, <1>2, <1>6 DEF RefreshPending, Window
<1>7. ASSUME NEW w \in Clients, RefreshTrusted(w) PROVE WindowTypeOK'
  BY <1>1, <1>2, <1>7 DEF RefreshTrusted, Window
<1>8. ASSUME NEW w \in Clients, ListTimesOut(w) PROVE WindowTypeOK'
  <2>1. {} \in SUBSET Ids
    OBVIOUS
  <2>2. CASE win[w].pc = "pending"
    <3>1. win' = [win EXCEPT ![w] = [win[w] EXCEPT !.pending = {}, !.pc = "trusted"]]
      BY <1>8, <2>2 DEF ListTimesOut
    <3>2. [win[w] EXCEPT !.pending = {}, !.pc = "trusted"] \in Window
      BY <1>2, <2>1 DEF Window
    <3>3. QED
      BY <1>4, <3>1, <3>2
  <2>3. CASE win[w].pc # "pending"
    <3>1. win' = [win EXCEPT ![w] = [win[w] EXCEPT !.trusted = {}, !.pc = "idle"]]
      BY <1>8, <2>3 DEF ListTimesOut
    <3>2. [win[w] EXCEPT !.trusted = {}, !.pc = "idle"] \in Window
      BY <1>2, <2>1 DEF Window
    <3>3. QED
      BY <1>4, <3>1, <3>2
  <2>4. QED
    BY <2>2, <2>3
<1>9. QED
  BY <1>3, <1>5, <1>6, <1>7, <1>8
  DEF ApprovalsNext, WindowStep, approvalsVars

\* The windows and what they list are well formed in every reachable state.
LEMMA WindowsTyped == ApprovalsSpec => [](TypeOK /\ WindowTypeOK)
<1>1. ApprovalsInit => TypeOK /\ WindowTypeOK
  <2>1. ApprovalsInit => TypeOK
    BY InitTypeOK DEF ApprovalsInit
  <2>2. ApprovalsInit => WindowTypeOK
    BY DEF ApprovalsInit, WindowTypeOK, Window
  <2>3. QED
    BY <2>1, <2>2
<1>2. TypeOK /\ WindowTypeOK /\ [ApprovalsNext]_approvalsVars =>
        (TypeOK /\ WindowTypeOK)'
  BY WindowIsClient, WindowTypeStep, TypeStep
<1>3. QED
  BY <1>1, <1>2, PTL DEF ApprovalsSpec

\* However its calls and lists end, a window lists nothing but requests.
THEOREM WindowsWellFormed == ApprovalsSpec => []WindowTypeOK
BY WindowsTyped, PTL

\* However many windows are open, what their lists, clicks and timeouts make
\* of the services is a behaviour of module Installer: a window only ever
\* names requests the store once listed to it.
THEOREM WindowsAreClients == ApprovalsSpec => Spec
<1>1. ApprovalsInit => Init
  BY DEF ApprovalsInit
<1>2. TypeOK /\ WindowTypeOK /\ [ApprovalsNext]_approvalsVars => [Next]_vars
  BY WindowIsClient
<1>3. QED
  BY <1>1, <1>2, WindowsTyped, PTL DEF ApprovalsSpec, Spec

\* So nothing is trusted through the windows that no parent authorised, but what
\* the text of a requested path spells.
THEOREM WindowsTrustGranted == ApprovalsSpec => []OnlyGrantedTrusted
BY WindowsAreClients, GrantedOnly, PTL

\* And what parents decide in several windows at a time is decided once and stays
\* within the trust model, which covers the lines written for a call.
THEOREM WindowsDecide == ApprovalsSpec => DecisionsStand /\ TrustSpec
BY WindowsAreClients, Decisions, RefinesTrustModel, PTL

----------------------------------------------------------------------------
(* What windows show, and what one window decides.                         *)

\* What becomes of the handler in one step.
LEMMA InstStep ==
  ASSUME TypeOK, [Next]_vars
  PROVE  \/ UNCHANGED inst
         \/ inst' = Resting
         \/ SubmitClassify
         \/ \E c \in Clients : TakeCall(c)
         \/ /\ inst.pc \in {"polkit", "trust", "guard", "record"}
            /\ inst'.pc \in {"trust", "guard", "record", "status"}
            /\ inst'.op = inst.op /\ inst'.id = inst.id /\ inst'.client = inst.client
            /\ UNCHANGED <<requests, calls>>
<1> USE DEF storeVars
<1>0. inst \in Handler
  BY DEF TypeOK
<1>1. CASE Approve
  BY <1>0, <1>1 DEF Approve, Handler
<1>2. CASE CallTrust
  BY <1>0, <1>2 DEF CallTrust, Handler
<1>3. CASE Revoke
  BY <1>0, <1>3 DEF Revoke, Handler
<1>4. CASE GuardAccepts
  BY <1>0, <1>4 DEF GuardAccepts, Handler
<1>5. CASE Record
  BY <1>0, <1>5 DEF Record, Handler
<1>6. CASE ~(Approve \/ CallTrust \/ Revoke \/ GuardAccepts \/ Record)
  BY <1>6
  DEF Next, ServiceNext, HandlerStep, vars, SubmitStore, SubmitHash,
      PolkitRefuses, GuardAbsent, Deny, GuardRefuses, GuardTimeout, GiveUp,
      Finish, InstallerCrash, ClientCalls, ClientGivesUp
<1>7. QED
  BY <1>1, <1>2, <1>3, <1>4, <1>5, <1>6

\* How a handler begins and ends.
LEMMA TakenCall ==
  /\ inst' = Resting => inst'.pc = "idle" /\ inst'.op = "none"
  /\ SubmitClassify => inst'.pc = "hash" /\ inst'.op = "submit"
  /\ \A c \in Clients : TakeCall(c) => inst'.pc = "polkit" /\ inst'.op = calls[c].op
<1>1. ASSUME SubmitClassify PROVE inst'.pc = "hash" /\ inst'.op = "submit"
  <2>1. PICK p \in Paths :
          inst' = [Resting EXCEPT !.pc = "hash", !.op = "submit", !.path = p]
    BY <1>1 DEF SubmitClassify
  <2>2. QED
    BY <2>1 DEF Resting
<1>2. ASSUME NEW c \in Clients, TakeCall(c)
      PROVE  inst'.pc = "polkit" /\ inst'.op = calls[c].op
  BY <1>2 DEF TakeCall, Resting
<1>3. QED
  BY <1>1, <1>2 DEF Resting

\* Calls come from clients, and end with a crash or with a handler that takes
\* them.
LEMMA CallsStep ==
  ASSUME TypeOK, [Next]_vars
  PROVE  \/ UNCHANGED calls
         \/ calls' = [c \in Clients |-> NoCall] /\ inst' = Resting
         \/ \E c \in Clients : TakeCall(c)
         \/ \E c \in Clients : ClientCalls(c)
BY DEF Next, ServiceNext, HandlerStep, vars, SubmitStore, SubmitClassify, SubmitHash,
       PolkitRefuses, Approve, CallTrust, GuardAbsent, Deny, Revoke, GuardAccepts,
       GuardRefuses, GuardTimeout, GiveUp, Record, Finish, InstallerCrash, ClientGivesUp

\* The handler that decides serves a client, which has no other call.
LEMMA HandlerServesStep ==
  ASSUME TypeOK, HandlerServes, [Next]_vars
  PROVE  HandlerServes'
<1> USE DEF HandlerServes
<1>1. \A w \in Clients : w # NoClient
  BY ClientAssumption DEF ClientAssumption
<1>2. CASE \E c \in Clients : TakeCall(c)
  <2>1. PICK c \in Clients : TakeCall(c)
    BY <1>2
  <2>2. inst'.client = c /\ calls'[c] = NoCall
    BY <2>1 DEF TakeCall, Resting, TypeOK
  <2>3. QED
    BY <2>2
<1>3. CASE \E c \in Clients : ClientCalls(c)
  BY <1>3 DEF ClientCalls, PlaceCall, TypeOK
<1>4. CASE SubmitClassify
  BY <1>1, <1>4 DEF SubmitClassify, Resting
<1>5. CASE inst' = Resting
  BY <1>1, <1>5 DEF Resting
<1>6. CASE UNCHANGED inst /\ UNCHANGED calls
  BY <1>6
<1>7. CASE /\ inst.pc \in {"polkit", "trust", "guard", "record"}
           /\ inst'.pc \in {"trust", "guard", "record", "status"}
           /\ inst'.client = inst.client
           /\ UNCHANGED calls
  BY <1>7
<1>8. QED
  BY <1>2, <1>3, <1>4, <1>5, <1>6, <1>7, InstStep, CallsStep

\* The services never make a call of a window's.
LEMMA StaysServed ==
  ASSUME TypeOK, ServiceNext, NEW w \in Clients, Served(w)
  PROVE  Served(w)'
<1>1. w # NoClient
  BY ClientAssumption DEF ClientAssumption
<1>2. [Next]_vars
  BY DEF Next
<1>3. CASE \E c \in Clients : TakeCall(c)
  BY <1>3 DEF TakeCall, Resting, Served, TypeOK
<1>4. CASE ~\E c \in Clients : TakeCall(c)
  <2>1. UNCHANGED calls \/ calls' = [c \in Clients |-> NoCall]
    BY <1>4
    DEF ServiceNext, HandlerStep, SubmitStore, SubmitClassify, SubmitHash,
        PolkitRefuses, Approve, CallTrust, GuardAbsent, Deny, Revoke, GuardAccepts,
        GuardRefuses, GuardTimeout, GiveUp, Record, Finish, InstallerCrash
  <2>2. inst'.client # w
    <3>1. CASE SubmitClassify
      BY <1>1, <3>1 DEF SubmitClassify, Resting
    <3>2. CASE inst' = Resting
      BY <1>1, <3>2 DEF Resting
    <3>3. QED
      BY <1>2, <1>4, <3>1, <3>2, InstStep DEF Served
  <2>3. QED
    BY <2>1, <2>2 DEF Served
<1>5. QED
  BY <1>3, <1>4

\* What a window's own step makes of it.
LEMMA WindowStepOnly ==
  ASSUME WindowTypeOK, NEW v \in Clients,
         WindowStep(v) \/ Click(v) \/ TimesOut(v) \/ ListTimesOut(v)
  PROVE  /\ \A w \in Clients \ {v} : win'[w] = win[w]
         /\ \/ Click(v) /\ win'[v].pc = "waiting"
            \/ win'[v].pc = "pending" /\ UNCHANGED <<inst, calls>>
            \/ /\ win'[v].pc = "trusted" /\ UNCHANGED <<inst, calls, requests>>
               /\ win'[v].pending \in {{}, ListPending}
               /\ Served(v) \/ win'[v].pending = {}
            \/ /\ win[v].pc = "trusted" /\ UNCHANGED <<inst, calls, requests>>
               /\ win'[v].pc = "idle" /\ win'[v].pending = win[v].pending
               /\ Served(v) \/ win'[v].trusted = {}
<1> USE DEF WindowTypeOK, Window, vars, storeVars
<1>1. CASE Click(v)
  BY <1>1 DEF Click
<1>2. CASE Returns(v) \/ TimesOut(v)
  BY <1>2 DEF Returns, TimesOut
<1>3. CASE RefreshPending(v)
  BY <1>3 DEF RefreshPending
<1>4. CASE RefreshTrusted(v)
  BY <1>4 DEF RefreshTrusted
<1>5. CASE ListTimesOut(v)
  <2>1. win[v] \in Window
    OBVIOUS
  <2>2. CASE win[v].pc = "pending"
    <3>1. win' = [win EXCEPT ![v] = [win[v] EXCEPT !.pending = {}, !.pc = "trusted"]]
      BY <1>5, <2>2 DEF ListTimesOut
    <3>2. QED
      BY <1>5, <2>1, <3>1 DEF ListTimesOut
  <2>3. CASE win[v].pc = "trusted"
    <3>1. win' = [win EXCEPT ![v] = [win[v] EXCEPT !.trusted = {}, !.pc = "idle"]]
      BY <1>5, <2>3 DEF ListTimesOut
    <3>2. QED
      BY <1>5, <2>1, <2>3, <3>1 DEF ListTimesOut
  <2>4. QED
    BY <1>5, <2>2, <2>3 DEF ListTimesOut
<1>6. QED
  BY <1>1, <1>2, <1>3, <1>4, <1>5 DEF WindowStep

\* A window whose call is still with the installer lists nothing it could click.
LEMMA OffersNothingStep ==
  ASSUME TypeOK, WindowTypeOK, [ApprovalsNext]_approvalsVars,
         NEW w \in Clients, OffersNothing(w)
  PROVE  OffersNothing(w)'
<1>1. CASE ServiceNext /\ UNCHANGED win
  BY <1>1, StaysServed DEF OffersNothing, Unread
<1>2. CASE UNCHANGED approvalsVars
  BY <1>2 DEF approvalsVars, vars, OffersNothing, Unread, Served
<1>3. ASSUME NEW v \in Clients,
             WindowStep(v) \/ Click(v) \/ TimesOut(v) \/ ListTimesOut(v)
      PROVE  OffersNothing(w)'
  <2>1. CASE v # w
    <3>1. win'[w] = win[w]
      BY <1>3, <2>1, WindowStepOnly
    <3>2. Served(w) => Served(w)'
      <4>1. CASE Click(v)
        BY <2>1, <4>1 DEF Click, PlaceCall, Served, TypeOK
      <4>2. CASE UNCHANGED <<inst, calls>>
        BY <4>2 DEF Served
      <4>3. QED
        BY <1>3, <4>1, <4>2, WindowStepOnly
    <3>3. QED
      BY <3>1, <3>2 DEF OffersNothing, Unread
  <2>2. CASE v = w
    <3>1. UNCHANGED <<inst, calls>> => Served(w)' = Served(w)
      BY DEF Served
    <3>2. QED
      BY <1>3, <2>2, <3>1, WindowStepOnly DEF OffersNothing, Unread
  <2>3. QED
    BY <2>1, <2>2
<1>4. QED
  BY <1>1, <1>2, <1>3 DEF ApprovalsNext

\* A request leaves the pending ones only for the handler of a client's call.
LEMMA ListPendingStep ==
  ASSUME IInv, DecisionOpen, HandlerServes, [Next]_vars
  PROVE  \/ ListPending \subseteq ListPending'
         \/ inst.client \in Clients /\ ~Served(inst.client) /\ inst' = Resting
<1>t. requests \in [Ids -> Request]
  BY DEF IInv, TypeOK
<1>1. CASE UNCHANGED requests
  BY <1>1 DEF ListPending, Pending
<1>2. CASE \E row : row.status = "pending" /\ Insert(row)
  BY <1>t, <1>2 DEF Insert, Exists, ListPending, Pending
<1>3. CASE inst.pc \notin {"idle", "hash"} /\ inst' = Resting
  BY <1>3 DEF HandlerServes, Served
<1>4. QED
  BY <1>1, <1>2, <1>3, TableStep

\* The window that decided last is fresh, or about to list.
LEMMA SomeFreshStep ==
  ASSUME IInv, DecisionOpen, WindowTypeOK, WindowInv,
         [ApprovalsNext]_approvalsVars
  PROVE  SomeFresh'
<1>t. TypeOK /\ [Next]_vars
  BY WindowIsClient DEF IInv
<1>1. CASE UNCHANGED win
  <2>1. CASE ListPending \subseteq ListPending'
    BY <1>1, <2>1 DEF WindowInv, SomeFresh, Unread
  <2>2. CASE inst.client \in Clients /\ ~Served(inst.client)
    BY <1>1, <2>2 DEF WindowInv, OffersNothing, SomeFresh, Unread
  <2>3. QED
    BY <1>t, <2>1, <2>2, ListPendingStep DEF WindowInv
<1>2. ASSUME NEW v \in Clients,
             WindowStep(v) \/ Click(v) \/ TimesOut(v) \/ ListTimesOut(v)
      PROVE  SomeFresh'
  <2>0. UNCHANGED requests
    BY <1>2 DEF WindowStep, Returns, RefreshPending, RefreshTrusted, Click,
                TimesOut, ListTimesOut, vars, storeVars
  <2>1. ListPending' = ListPending
    BY <2>0 DEF ListPending, Pending
  <2>2. PICK w \in Clients : Unread(w) \/ win[w].pending \subseteq ListPending
    BY DEF WindowInv, SomeFresh
  <2>3. CASE w # v
    BY <1>2, <2>1, <2>2, <2>3, WindowStepOnly DEF SomeFresh, Unread
  <2>4. CASE w = v
    BY <1>2, <2>1, <2>2, <2>4, WindowStepOnly DEF SomeFresh, Unread
  <2>5. QED
    BY <2>3, <2>4
<1>3. QED
  BY <1>1, <1>2 DEF ApprovalsNext, approvalsVars

\* What the services' theorems say holds of them with windows, too.
LEMMA WindowsInvariance ==
  ApprovalsSpec => [](IInv /\ DecisionOpen /\ WindowTypeOK)
BY WindowsAreClients, WindowsTyped, Invariance, DecisionsOpen, PTL

\* The invariant of the windows.
LEMMA WindowsInv ==
  ASSUME Clients # {}
  PROVE  ApprovalsSpec => []WindowInv
<1>1. ApprovalsInit => WindowInv
  BY DEF ApprovalsInit, Init, Resting, WindowInv, HandlerServes, OffersNothing,
         SomeFresh, Unread
<1>2. IInv /\ DecisionOpen /\ WindowTypeOK /\ WindowInv
        /\ [ApprovalsNext]_approvalsVars => WindowInv'
  <2> SUFFICES ASSUME IInv, DecisionOpen, WindowTypeOK, WindowInv,
                      [ApprovalsNext]_approvalsVars
               PROVE  WindowInv'
    OBVIOUS
  <2>1. TypeOK /\ [Next]_vars
    BY WindowIsClient DEF IInv
  <2>2. HandlerServes'
    BY <2>1, HandlerServesStep DEF WindowInv
  <2>3. \A w \in Clients : OffersNothing(w)'
    BY <2>1, OffersNothingStep DEF WindowInv
  <2>4. QED
    BY <2>2, <2>3, SomeFreshStep DEF WindowInv
<1>3. QED
  BY <1>1, <1>2, WindowsInvariance, PTL DEF ApprovalsSpec

\* Whatever a parent clicks in however many windows, and whichever calls and
\* lists are given up: once all windows are idle, one of them offers to approve or
\* deny only what is still pending.
THEOREM OneIsFresh ==
  ASSUME Clients # {}
  PROVE  ApprovalsSpec => []FreshList
<1>1. WindowInv => FreshList
  BY DEF WindowInv, SomeFresh, Unread, FreshList
<1>2. QED
  BY <1>1, WindowsInv, PTL

----------------------------------------------------------------------------
(* One window.                                                             *)

\* The only window offers what is pending, and denies nothing else.
LEMMA OneWindowStep ==
  ASSUME NEW w, Clients = {w},
         IInv, DecisionOpen, WindowTypeOK, WindowInv, OneWindowInv,
         [ApprovalsNext]_approvalsVars
  PROVE  OneWindowInv'
<1>t. TypeOK /\ [Next]_vars
  BY WindowIsClient DEF IInv
<1>1. ASSUME ~Unread(w)' PROVE win'[w].pending \subseteq ListPending'
  <2>1. CASE UNCHANGED win
    <3>1. CASE ListPending \subseteq ListPending'
      BY <1>1, <2>1, <3>1 DEF OneWindowInv, Unread
    <3>2. CASE inst.client = w /\ ~Served(inst.client)
      BY <1>1, <2>1, <3>2 DEF WindowInv, OffersNothing, Unread
    <3>3. QED
      BY <1>t, <3>1, <3>2, ListPendingStep DEF WindowInv
  <2>2. CASE WindowStep(w) \/ Click(w) \/ TimesOut(w) \/ ListTimesOut(w)
    <3>1. UNCHANGED requests
      BY <2>2 DEF WindowStep, Returns, RefreshPending, RefreshTrusted, Click,
                  TimesOut, ListTimesOut, vars, storeVars
    <3>2. ListPending' = ListPending
      BY <3>1 DEF ListPending, Pending
    <3>3. QED
      BY <1>1, <2>2, <3>2, WindowStepOnly DEF OneWindowInv, Unread
  <2>3. QED
    BY <2>1, <2>2 DEF ApprovalsNext, approvalsVars
<1>2. ASSUME calls'[w] # NoCall, calls'[w].op = "deny"
      PROVE  calls'[w].id \in ListPending'
  <2>1. CASE Click(w)
    <3>1. UNCHANGED requests
      BY <2>1 DEF Click, storeVars
    <3>2. PICK i \in win[w].pending : PlaceCall(w, "deny", i)
      BY <1>2, <2>1, <1>t DEF Click, PlaceCall, TypeOK
    <3>3. win[w].pending \subseteq ListPending /\ calls'[w].id = i
      BY <2>1, <3>2, <1>t DEF Click, PlaceCall, TypeOK, OneWindowInv, Unread
    <3>4. QED
      BY <3>1, <3>2, <3>3 DEF ListPending, Pending
  <2>2. CASE ~Click(w)
    <3>1. calls'[w] = calls[w]
      <4>1. CASE UNCHANGED calls
        BY <4>1
      <4>2. CASE \E c \in Clients : TakeCall(c)
        BY <1>2, <1>t, <4>2 DEF TakeCall, TypeOK
      <4>3. CASE ServiceNext
        BY <1>2, <4>1, <4>2, <4>3
        DEF ServiceNext, HandlerStep, SubmitStore, SubmitClassify, SubmitHash,
            PolkitRefuses, Approve, CallTrust, GuardAbsent, Deny, Revoke,
            GuardAccepts, GuardRefuses, GuardTimeout, GiveUp, Record, Finish,
            InstallerCrash
      <4>4. QED
        BY <2>2, <4>1, <4>3
        DEF ApprovalsNext, approvalsVars, vars, WindowStep, Returns,
            RefreshPending, RefreshTrusted, TimesOut, ListTimesOut
    <3>2. ListPending \subseteq ListPending'
      BY <1>t, <1>2, <3>1, ListPendingStep DEF WindowInv, HandlerServes
    <3>3. QED
      BY <1>2, <3>1, <3>2 DEF OneWindowInv
  <2>3. QED
    BY <2>1, <2>2
<1>3. ASSUME inst'.op = "deny" PROVE inst'.id \in ListPending'
  <2>1. CASE UNCHANGED inst
    <3>1. inst' # Resting
      BY <1>3 DEF Resting
    <3>2. QED
      BY <1>t, <1>3, <2>1, <3>1, ListPendingStep DEF WindowInv, OneWindowInv
  <2>2. CASE \E c \in Clients : TakeCall(c)
    <3>1. TakeCall(w)
      BY <2>2
    <3>2. inst'.op = calls[w].op /\ inst'.id = calls[w].id /\ UNCHANGED requests
      BY <3>1 DEF TakeCall, Resting, storeVars
    <3>3. calls[w].id \in ListPending
      BY <1>3, <3>1, <3>2 DEF OneWindowInv, TakeCall
    <3>4. ListPending' = ListPending
      BY <3>2 DEF ListPending, Pending
    <3>5. QED
      BY <3>2, <3>3, <3>4
  <2>3. CASE inst'.op = inst.op /\ inst'.id = inst.id /\ UNCHANGED requests
    BY <1>3, <2>3 DEF OneWindowInv, ListPending, Pending
  <2>4. CASE inst' = Resting \/ SubmitClassify
    BY <1>3, <2>4, TakenCall
  <2>5. QED
    BY <1>t, <2>1, <2>2, <2>3, <2>4, InstStep
<1>4. QED
  BY <1>1, <1>2, <1>3 DEF OneWindowInv

\* A request that is granted stays under approval until it is decided, and is
\* not denied before its grant is withdrawn, unless a crash or a write that fails
\* leaves it open.
LEMMA GrantsDecidedStep ==
  ASSUME IInv, DecisionOpen, OneWindowInv, GrantsDecided, [Next]_vars,
         "installerCrash" \notin Faults, "dbFail" \notin Faults
  PROVE  GrantsDecided'
<1> DEFINE Has(i, h) == /\ External(i) /\ requests[i].hash = h
                        /\ requests[i].status \in {"pending", "approved", "failed"}
                        /\ Pending(i) => Deciding(i)
           Withdrawn == inst.op = "revoke" /\ inst.pc \in {"record", "status"} =>
                          requests[inst.id].hash \notin grants
<1> USE DEF storeVars
<1>t. TypeOK /\ inst \in Handler /\ requests \in [Ids -> Request]
  BY DEF IInv, TypeOK
<1>g. Withdrawn /\ \A h \in grants : \E i \in Ids : Has(i, h)
  BY DEF GrantsDecided
<1>q. Withdrawn' /\ (\A h \in grants' : \E i \in Ids : Has(i, h)') => GrantsDecided'
  BY DEF GrantsDecided
<1> HIDE DEF Has
<1>1. CASE Approve /\ inst'.pc = "trust"
  <2>1. /\ Pending(inst.id) /\ External(inst.id) /\ inst.id \in Ids
        /\ inst' = [inst EXCEPT !.pc = "trust"] /\ inst.op = "approve"
        /\ grants' = grants \union {requests[inst.id].hash}
        /\ UNCHANGED requests
    BY <1>1, <1>t DEF Approve, Resting, TypeOK
  <2>2. Has(inst.id, requests[inst.id].hash)'
    BY <1>t, <2>1 DEF Has, External, Pending, Deciding, Handler
  <2>3. \A i \in Ids, h \in grants : Has(i, h) => Has(i, h)'
    BY <1>1, <2>1 DEF Approve, Has, External, Pending, Deciding
  <2>4. Withdrawn'
    BY <1>t, <2>1 DEF Handler
  <2>5. QED
    BY <1>g, <1>q, <2>1, <2>2, <2>3, <2>4
<1>2. CASE GuardAccepts
  <2>1. /\ inst'.pc = "record" /\ inst'.op = inst.op /\ inst'.id = inst.id
        /\ inst.pc = "guard" /\ UNCHANGED requests
        /\ grants' = IF inst.op = "revoke" THEN grants \ {requests[inst.id].hash}
                                           ELSE grants
    BY <1>2, <1>t DEF GuardAccepts, Handler
  <2>2. \A i \in Ids, h \in grants : Has(i, h) => Has(i, h)'
    BY <2>1 DEF Has, External, Pending, Deciding
  <2>3. Withdrawn'
    BY <2>1
  <2>4. QED
    BY <1>g, <1>q, <2>1, <2>2, <2>3
<1>3. CASE CallTrust \/ Record
  <2>1. /\ inst'.pc \in {"guard", "status"} /\ inst'.op = inst.op
        /\ inst'.id = inst.id /\ UNCHANGED <<requests, grants>>
        /\ inst.pc \in {"trust", "record"}
        /\ inst'.pc = "status" => inst.pc = "record"
    BY <1>3, <1>t DEF CallTrust, Record, Handler
  <2>2. \A i \in Ids, h \in grants : Has(i, h) => Has(i, h)'
    BY <2>1 DEF Has, External, Pending, Deciding
  <2>3. Withdrawn'
    BY <1>g, <2>1
  <2>4. QED
    BY <1>g, <1>q, <2>1, <2>2, <2>3
<1>4. CASE /\ \E row : row.status = "pending" /\ Insert(row)
           /\ inst.pc \in {"idle", "hash"} /\ inst'.pc = "idle"
           /\ UNCHANGED grants
  <2>1. \A i \in Ids, h \in grants : Has(i, h) => Has(i, h)'
    BY <1>4, <1>t DEF Insert, Exists, Has, External, Pending, Deciding
  <2>2. QED
    BY <1>g, <1>q, <1>4, <2>1
<1>5. CASE /\ inst' = Resting /\ UNCHANGED grants /\ inst.id \in Ids
           /\ \E s \in {"approved", "failed"} : UpdateStatus(inst.id, s)
  <2>1. PICK s \in {"approved", "failed"} : UpdateStatus(inst.id, s)
    BY <1>5
  <2>2. /\ \A j \in Ids : /\ requests'[j].kind = requests[j].kind
                          /\ requests'[j].hash = requests[j].hash
                          /\ j # inst.id => requests'[j] = requests[j]
        /\ requests'[inst.id].status = s
    BY <1>5, <1>t, <2>1, UpdateStatusType DEF Status
  <2>3. \A i \in Ids, h \in grants : Has(i, h) => Has(i, h)'
    BY <2>2 DEF Has, External, Pending, Deciding
  <2>4. QED
    BY <1>g, <1>q, <1>5, <2>3 DEF Resting
<1>6. CASE /\ inst' = Resting /\ UNCHANGED grants /\ inst.id \in Ids
           /\ UpdateStatus(inst.id, "denied")
           /\ \/ inst.op = "deny"
              \/ inst.op = "revoke" /\ inst.pc = "status"
  <2>1. \A j \in Ids : /\ requests'[j].kind = requests[j].kind
                       /\ requests'[j].hash = requests[j].hash
                       /\ j # inst.id => requests'[j] = requests[j]
    BY <1>6, <1>t, UpdateStatusType DEF Status
  <2>2. \A h \in grants : ~Has(inst.id, h)
    <3>1. CASE inst.op = "deny"
      BY <3>1 DEF OneWindowInv, ListPending, Has, Deciding
    <3>2. CASE inst.op = "revoke" /\ inst.pc = "status"
      BY <1>g, <3>2 DEF Has
    <3>3. QED
      BY <1>6, <3>1, <3>2
  <2>3. \A i \in Ids, h \in grants : Has(i, h) => Has(i, h)'
    BY <1>6, <2>1, <2>2 DEF Has, External, Pending, Deciding
  <2>4. QED
    BY <1>g, <1>q, <1>6, <2>3 DEF Resting
<1>7. CASE /\ UNCHANGED <<requests, grants>>
           /\ inst.op = "approve" => inst.pc \notin {"trust", "guard", "record", "status"}
           /\ inst' = Resting \/ SubmitClassify \/ \E c \in Clients : TakeCall(c)
  <2>1. inst'.pc \in {"idle", "hash", "polkit"}
    BY <1>7, TakenCall
  <2>2. \A i \in Ids, h \in grants : Has(i, h) => Has(i, h)'
    BY <1>7 DEF Has, External, Pending, Deciding
  <2>3. QED
    BY <1>g, <1>q, <1>7, <2>1, <2>2
<1>8. CASE UNCHANGED <<requests, grants, inst>>
  BY <1>8 DEF GrantsDecided, External, Pending, Deciding
<1>9. CASE Finish
  <2>1. /\ inst' = Resting /\ UNCHANGED grants /\ inst.id \in Ids
        /\ inst.pc = "status" /\ inst.op \in {"approve", "revoke"}
        /\ UpdateStatus(inst.id, IF inst.op = "approve" THEN "approved"
                                                        ELSE "denied")
    BY <1>9, <1>t DEF Finish, Spend, IInv, HandlerMatches, TypeOK
  <2>2. QED
    BY <1>5, <1>6, <2>1
<1>10. CASE GuardRefuses \/ GuardTimeout
  <2>1. /\ inst' = Resting /\ UNCHANGED grants /\ inst.id \in Ids
        /\ IF inst.op = "approve" THEN UpdateStatus(inst.id, "failed")
                                  ELSE UNCHANGED requests
    BY <1>10, <1>t DEF GuardRefuses, GuardTimeout, GiveUp, TypeOK
  <2>2. QED
    BY <1>5, <1>7, <2>1
<1>11. CASE GuardAbsent
  BY <1>5, <1>11, <1>t DEF GuardAbsent, TypeOK
<1>12. CASE Deny
  <2>1. inst.id \in Ids /\ UpdateStatus(inst.id, "denied")
    BY <1>12 DEF Deny, OneWindowInv, ListPending, Pending, Exists
  <2>2. QED
    BY <1>6, <1>12, <2>1 DEF Deny
<1>13. CASE Approve /\ inst'.pc # "trust"
  <2>1. /\ inst' = Resting /\ UNCHANGED grants /\ inst.id \in Ids
        /\ \/ UNCHANGED requests
           \/ \E s \in {"approved", "failed"} : UpdateStatus(inst.id, s)
    BY <1>13, <1>t DEF Approve, Handler, TypeOK
  <2>2. inst.pc = "polkit"
    BY <1>13 DEF Approve
  <2>3. QED
    BY <1>5, <1>7, <2>1, <2>2
<1>14. CASE Revoke
  <2>1. inst.pc = "polkit" /\ inst.op = "revoke" /\ UNCHANGED <<requests, grants>>
    BY <1>14 DEF Revoke
  <2>2. CASE inst' = Resting
    BY <1>7, <2>1, <2>2
  <2>3. CASE inst' = [inst EXCEPT !.pc = "guard"]
    <3>1. inst'.op = "revoke" /\ inst'.pc = "guard" /\ inst'.id = inst.id
      BY <1>t, <2>1, <2>3 DEF Handler
    <3>2. \A i \in Ids, h \in grants : Has(i, h) => Has(i, h)'
      BY <2>1 DEF Has, External, Pending, Deciding
    <3>3. QED
      BY <1>g, <1>q, <2>1, <3>1, <3>2
  <2>4. QED
    BY <1>14, <2>2, <2>3 DEF Revoke
<1>15. CASE \/ SubmitHash \/ PolkitRefuses \/ SubmitClassify
            \/ \E c \in Clients : TakeCall(c)
  <2>1. inst.pc \in {"idle", "hash", "polkit"} /\ UNCHANGED grants
    BY <1>15 DEF SubmitHash, PolkitRefuses, SubmitClassify, TakeCall
  <2>2. CASE UNCHANGED requests
    BY <1>7, <1>15, <2>1, <2>2 DEF SubmitHash, PolkitRefuses
  <2>3. CASE ~UNCHANGED requests
    <3>1. SubmitHash
      BY <1>15, <2>3 DEF PolkitRefuses, SubmitClassify, TakeCall
    <3>2. \E row : row.status = "pending" /\ Insert(row)
      BY <2>3, <3>1 DEF SubmitHash
    <3>3. QED
      BY <1>4, <2>1, <3>1, <3>2 DEF SubmitHash, Resting
  <2>4. QED
    BY <2>2, <2>3
<1>16. CASE SubmitStore
  <2>1. [NoRequest EXCEPT !.status = "pending"].status = "pending"
    BY DEF NoRequest
  <2>2. QED
    BY <1>4, <1>16, <2>1 DEF SubmitStore
<1>17. CASE \/ (GuardNext \/ EditFile) /\ UNCHANGED <<storeVars, inst, calls, grants>>
            \/ ClientGivesUp
            \/ \E c \in Clients : ClientCalls(c)
            \/ UNCHANGED vars
  BY <1>8, <1>17 DEF ClientGivesUp, ClientCalls, vars
<1>18. QED
  BY <1>1, <1>2, <1>3, <1>9, <1>10, <1>11, <1>12, <1>13, <1>14, <1>15, <1>16,
     <1>17 DEF Next, ServiceNext, HandlerStep, InstallerCrash, Spend

\* The manual checklist (tests/checklist_manual_qa.md:205) has the child's attempt
\* to run a denied file fail, and so it does where one parent decides in one
\* window, whatever the child edits, whichever calls are given up, and however
\* file-guard and fapolicyd fail.  The hypotheses are needed: a second window
\* breaks it, and so does a crash of the installer, or an ignored failed write of
\* the status, between the grant and the decision.
THEOREM OneWindowDenies ==
  ASSUME NEW w, Clients = {w},
         "installerCrash" \notin Faults, "dbFail" \notin Faults
  PROVE  ApprovalsSpec => []DeniedIsBlocked
<1> DEFINE Inv == IInv /\ DecisionOpen /\ WindowTypeOK /\ WindowInv
<1>1. ApprovalsInit => OneWindowInv /\ GrantsDecided
  BY DEF ApprovalsInit, Init, Resting, OneWindowInv, GrantsDecided, Unread
<1>2. Inv /\ OneWindowInv /\ [ApprovalsNext]_approvalsVars => OneWindowInv'
  BY OneWindowStep
<1>3. Inv /\ OneWindowInv /\ GrantsDecided /\ [ApprovalsNext]_approvalsVars
        => GrantsDecided'
  <2> SUFFICES ASSUME Inv, OneWindowInv, GrantsDecided,
                      [ApprovalsNext]_approvalsVars
               PROVE  GrantsDecided'
    OBVIOUS
  <2>1. TypeOK /\ [Next]_vars
    BY WindowIsClient DEF IInv
  <2>2. IInv /\ DecisionOpen
    OBVIOUS
  <2>3. QED
    BY <2>1, <2>2, GrantsDecidedStep
<1>4. IInv /\ GrantsDecided => DeniedIsBlocked
  <2> SUFFICES ASSUME IInv, GrantsDecided, NEW i \in Ids,
                      External(i), requests[i].status = "denied",
                      \A j \in Ids \ {i} : requests[j].hash # requests[i].hash,
                      requests[i].hash \in HashesOf(loaded \ BroughtLines)
               PROVE  FALSE
    BY DEF DeniedIsBlocked
  <2>1. requests[i].hash \in grants
    BY DEF IInv, OnlyGrantedTrusted, HashesOf
  <2>2. PICK j \in Ids : /\ requests[j].hash = requests[i].hash
                         /\ requests[j].status \in {"pending", "approved", "failed"}
    BY <2>1 DEF GrantsDecided
  <2>3. QED
    BY <2>2
<1>5. ApprovalsSpec => []Inv
  <2>1. Clients # {}
    OBVIOUS
  <2>2. ApprovalsSpec => []WindowInv
    BY <2>1, WindowsInv
  <2>3. QED
    BY <2>2, WindowsInvariance, PTL
<1>6. QED
  BY <1>1, <1>2, <1>3, <1>4, <1>5, PTL DEF ApprovalsSpec

=============================================================================
