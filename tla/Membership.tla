----------------------------- MODULE Membership -----------------------------
(***************************************************************************)
(* Who is a parent and who is a child: membership of wheel and of          *)
(* kidsos-children, as three programs look it up.  A user is a record      *)
(* [name, gid] or NoUser; groups is a function from the names of the       *)
(* groups that exist to records [gid, members].                            *)
(***************************************************************************)

NoUser == [unknown |-> TRUE]

\* By primary group, or by name among the members.
uidIsInGroup(user, groups, g) ==
  /\ user # NoUser
  /\ g \in DOMAIN groups
  /\ user.gid = groups[g].gid \/ user.name \in groups[g].members

\* The agent's main leaves the session of anybody else alone.
currentUserIsChild(user, groups) == uidIsInGroup(user, groups, "kidsos-children")

\* The settings app's copy of the lookup.
currentUserInGroup(user, groups, g) == uidIsInGroup(user, groups, g)

=============================================================================
