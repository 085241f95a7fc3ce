----------------------------- MODULE Approvals -----------------------------
(***************************************************************************)
(* The parent's approvals windows over kidsos-installer and                *)
(* kidsos-file-guard.  A window lists the pending requests and the trusted *)
(* apps when it opens and after each of its own calls, and at no other     *)
(* time: what it offers to approve, deny or revoke may have been decided   *)
(* meanwhile through another window.  Its calls block it, for 25 seconds   *)
(* at most; the result of a call is not looked at.                         *)
(*                                                                         *)
(* The bus keeps the calls of one window in order, so a list it asks for   *)
(* is answered after its last call was.                                    *)
(***************************************************************************)
EXTENDS Installer

VARIABLE win  \* each window: where it stands and the two lists it shows

Window == [pc : {"idle", "waiting", "pending", "trusted"},
           pending : SUBSET Ids, trusted : SUBSET Ids]

approvalsVars == <<vars, win>>

\* Type correctness of the windows.
WindowTypeOK == win \in [Clients -> Window]

\* The bindings of the two list properties load them when a window opens.
ApprovalsInit ==
  /\ Init
  /\ win = [w \in Clients |->
              [pc |-> "pending", pending |-> {}, trusted |-> {}]]

\* The window's last call is neither queued nor in progress.
Served(w) == calls[w] = NoCall /\ inst.client # w

\* The parent clicks Approve or Deny on a row of the pending tab, or Revoke
\* on a row of the trusted one.
Click(w) ==
  /\ win[w].pc = "idle"
  /\ \/ \E i \in win[w].pending, op \in {"approve", "deny"} : PlaceCall(w, op, i)
     \/ \E i \in win[w].trusted : PlaceCall(w, "revoke", i)
  /\ win' = [win EXCEPT ![w].pc = "waiting"]
  /\ UNCHANGED <<disk, guardVars, budget, storeVars, inst, grants>>

\* Mutant of Returns: the window does not refresh after a call.
ReturnsOnly(w) ==
  /\ win[w].pc = "waiting"
  /\ Served(w)
  /\ win' = [win EXCEPT ![w].pc = "idle"]
  /\ UNCHANGED vars

\* The call returns, with any result, and the window refreshes.
Returns(w) ==
  /\ win[w].pc = "waiting"
  /\ Served(w)
  /\ win' = [win EXCEPT ![w].pc = "pending"]
  /\ UNCHANGED vars

\* The call times out in the window; the installer still has it.
TimesOut(w) ==
  /\ win[w].pc = "waiting"
  /\ ~Served(w)
  /\ Spend("timeout")
  /\ win' = [win EXCEPT ![w].pc = "pending"]
  /\ UNCHANGED <<disk, guardVars, storeVars, inst, calls, grants>>

\* pendingRequests(): the installer lists between two handlers.
RefreshPending(w) ==
  /\ win[w].pc = "pending"
  /\ Served(w) /\ inst.pc = "idle"
  /\ win' = [win EXCEPT ![w].pending = ListPending, ![w].pc = "trusted"]
  /\ UNCHANGED vars

\* Mutant of RefreshTrusted: the new list makes the bindings load both again.
RefreshAgain(w) ==
  /\ win[w].pc = "trusted"
  /\ Served(w) /\ inst.pc = "idle"
  /\ win' = [win EXCEPT ![w].trusted = ListTrusted, ![w].pc = "pending"]
  /\ UNCHANGED vars

\* trustedApps().
RefreshTrusted(w) ==
  /\ win[w].pc = "trusted"
  /\ Served(w) /\ inst.pc = "idle"
  /\ win' = [win EXCEPT ![w].trusted = ListTrusted, ![w].pc = "idle"]
  /\ UNCHANGED vars

\* A list that does not arrive in time is shown as an empty one.
ListTimesOut(w) ==
  /\ win[w].pc \in {"pending", "trusted"}
  /\ Spend("timeout")
  /\ win' = [win EXCEPT ![w] =
               IF @.pc = "pending" THEN [@ EXCEPT !.pending = {}, !.pc = "trusted"]
                                   ELSE [@ EXCEPT !.trusted = {}, !.pc = "idle"]]
  /\ UNCHANGED <<disk, guardVars, storeVars, inst, calls, grants>>

WindowStep(w) == Returns(w) \/ RefreshPending(w) \/ RefreshTrusted(w)

ApprovalsNext ==
  \/ ServiceNext /\ UNCHANGED win
  \/ \E w \in Clients :
       WindowStep(w) \/ Click(w) \/ TimesOut(w) \/ ListTimesOut(w)

ApprovalsSpec == ApprovalsInit /\ [][ApprovalsNext]_approvalsVars

\* polkit answers, if only because the call to it times out; the services
\* run; the bus delivers calls in the order they were sent, so no window
\* and no list waits behind others for ever.
Fairness ==
  /\ WF_approvalsVars((HandlerStep \/ PolkitRefuses) /\ UNCHANGED win)
  /\ WF_approvalsVars(GuardStep /\ UNCHANGED <<storeVars, inst, calls, grants, win>>)
  /\ \A w \in Clients : /\ SF_approvalsVars(TakeCall(w) /\ UNCHANGED win)
                        /\ SF_approvalsVars(WindowStep(w))

FairApprovalsSpec == ApprovalsSpec /\ Fairness

----------------------------------------------------------------------------
(* Properties.                                                             *)

\* A window that made a call gets back to its lists: a click never freezes
\* it, whatever polkit, file-guard or a crash of either service does.
ClicksReturn == \A w \in Clients : (win[w].pc = "waiting") ~> (win[w].pc = "idle")

\* An approval that got past polkit and the re-hash ends in a decision, and
\* the installer goes on to other calls: waiting for file-guard never wedges
\* it.
HandlersEnd == (inst.pc # "idle") ~> (inst.pc = "idle")

\* A window's lists are stale only through other windows: when all are idle,
\* one of them (the only one, if there is one) offers no decided request, not
\* even after a call that was given up and served later.
FreshList ==
  (\A w \in Clients : win[w].pc = "idle") =>
    \E w \in Clients : win[w].pending \subseteq ListPending

----------------------------------------------------------------------------
(* The inductive invariants.                                               *)

Unread(w) == win[w].pc \in {"waiting", "pending"}

\* A window whose call has not been served is yet to list again, or gave up on
\* lists too and offers nothing.
OffersNothing(w) ==
  ~Served(w) => \/ Unread(w)
                \/ win[w].pending = {} /\ (win[w].pc = "idle" => win[w].trusted = {})

\* Only a client's handler decides, and it has taken the client's call.
HandlerServes ==
  /\ inst.pc \notin {"idle", "hash"} => inst.client \in Clients
  /\ \A w \in Clients : calls[w] # NoCall => inst.client # w

\* With FreshList for a window that is about to list: the window for which the
\* last decision was made is one.
SomeFresh == \E w \in Clients : Unread(w) \/ win[w].pending \subseteq ListPending

WindowInv ==
  /\ HandlerServes
  /\ \A w \in Clients : OffersNothing(w)
  /\ SomeFresh

\* With one window nobody else decides: what it offers is pending, and so is
\* what it denies.
OneWindowInv ==
  /\ \A w \in Clients :
       /\ ~Unread(w) => win[w].pending \subseteq ListPending
       /\ calls[w] # NoCall /\ calls[w].op = "deny" => calls[w].id \in ListPending
  /\ inst.op = "deny" => inst.id \in ListPending

\* The handler in progress is between its grant and its decision.
Deciding(i) ==
  inst.id = i /\ inst.op = "approve" /\ inst.pc \in {"trust", "guard", "record", "status"}

\* Every granted content has a request that is not denied, nor open to be.
GrantsDecided ==
  /\ \A h \in grants : \E i \in Ids :
       /\ External(i) /\ requests[i].hash = h
       /\ requests[i].status \in {"pending", "approved", "failed"}
       /\ Pending(i) => Deciding(i)
  /\ inst.op = "revoke" /\ inst.pc \in {"record", "status"} =>
       requests[inst.id].hash \notin grants
============================================================================
