----------------------------- MODULE StoreDialog -----------------------------
(***************************************************************************)
(* The launcher's store dialog: it shows the child's request for the one   *)
(* app on offer, or a button to make it.  A store is the set of the rows   *)
(* of one child, requested_at in seconds; a dialog is a store and what is  *)
(* shown of it.  A call comes to "done", to "lost" when the service is not *)
(* there or its database refuses, or to "late" when it is answered after   *)
(* the launcher gave it up.                                                *)
(***************************************************************************)
EXTENDS Naturals, Sequences, FiniteSets

NoRow == [none |-> TRUE]
Outcomes == {"done", "lost", "late"}

\* Newest first, rows of one second in any order.
listRequests(rows) ==
  {list \in [1..Cardinality(rows) -> rows] :
     \A i, j \in DOMAIN list :
       i < j => list[i] # list[j] /\ list[i].requested_at >= list[j].requested_at}

\* An answer that does not come is an empty list.
myInstallRequests(rows, outcome) ==
  IF outcome = "done" THEN listRequests(rows) ELSE {<<>>}

\* The loop keeps the last row of the app.
refreshRequest(list, app) ==
  LET found == {i \in DOMAIN list : list[i].app_id = app}
  IN IF found = {} THEN NoRow
     ELSE list[CHOOSE i \in found : \A j \in found : j <= i]

submitInstallRequest(rows, app, now, outcome) ==
  IF outcome = "lost" THEN rows
  ELSE rows \union {[id |-> Cardinality(rows) + 1, app_id |-> app, requested_at |-> now]}

\* open and request, as the sets of dialogs they may leave; the button is there
\* only while no request is shown.
Refreshed(rows, app, outcome) ==
  {[rows |-> rows, myRequest |-> refreshRequest(list, app)] :
     list \in myInstallRequests(rows, outcome)}

open(dialog, app, listed) == Refreshed(dialog.rows, app, listed)

request(dialog, app, now, submitted, listed) ==
  IF dialog.myRequest # NoRow THEN {dialog}
  ELSE Refreshed(submitInstallRequest(dialog.rows, app, now, submitted), app, listed)

=============================================================================
