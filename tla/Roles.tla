------------------------------- MODULE Roles -------------------------------
(***************************************************************************)
(* Roles, their assignment, bans and first-run setup (routers/roles.py,    *)
(* routers/users.py, utils/user_import.py, auth/containment.py,            *)
(* auth/setup.py).  A request checks its authority and its guards against  *)
(* the committed rows and writes later: `rreq` holds what it decided.      *)
(* Administrator is the system role that holds the whole catalog.          *)
(***************************************************************************)
EXTENDS Naturals, FiniteSets

CONSTANTS Staff, Administrator, Customs, Catalog, RoleRequests, NoRole, Nobody,
          Owner, Deputy, Delegate,  \* who is there at the start
          ManageRoles, ManageUsers, \* the two permissions that delegate
          MaxGrants,                \* bound: assignments at a time
          MaxDecisions              \* bound: requests in a behaviour

ASSUME RoleAssumption ==
  /\ {Owner, Deputy, Delegate} \subseteq Staff /\ Cardinality({Owner, Deputy, Delegate}) = 3
  /\ {ManageRoles, ManageUsers} \subseteq Catalog /\ Administrator \notin Customs
  /\ MaxGrants \in Nat /\ MaxDecisions \in Nat /\ Nobody \notin Staff /\ NoRole \notin Customs \cup {Administrator}

RoleIds == Customs \cup {Administrator}

VARIABLES role,      \* roles: permissions and scope of those that exist
          grant,     \* role_assignments; `copy` tells duplicate rows apart
          status,    \* of the accounts
          setup,     \* setup_completed_at is set
          rreq,      \* requests in flight
          decided,   \* how many were started
          given,     \* history: what an administrator ever put within reach
          owners,    \* history: owners the wizard provisioned
          crossed    \* history: two removals of administrators overlapped
roleVars == <<role, grant, status, setup, rreq, decided, given, owners, crossed>>

RoleRow == [exists: BOOLEAN, perms: SUBSET Catalog, scope: {"global", "competition"}]
Grant == [user: Staff, role: RoleIds, copy: {1, 2}]
RoleRequest == [op: {"none", "create", "update", "delete", "assign", "unassign", "ban", "remove", "setup"},
                admin: BOOLEAN,      \* the actor was an administrator when it decided
                subject: Staff \cup {Nobody}, role: RoleIds \cup {NoRole},
                copy: {1, 2}, perms: SUBSET Catalog, scope: {"global", "competition"}]
Absent == [op |-> "none", admin |-> FALSE, subject |-> Nobody, role |-> NoRole,
           copy |-> 1, perms |-> {}, scope |-> "global"]

RoleTypeOK ==
  /\ role \in [RoleIds -> RoleRow] /\ grant \subseteq Grant
  /\ status \in [Staff -> {"active", "banned", "deleted"}] /\ setup \in BOOLEAN
  /\ rreq \in [RoleRequests -> RoleRequest] /\ decided \in 0..MaxDecisions
  /\ given \subseteq Catalog /\ owners \subseteq Staff /\ crossed \in BOOLEAN

(* A fresh install, or one with two administrators and a delegate.         *)
RoleInit ==
  /\ \E c \in Customs, fresh \in BOOLEAN :
       /\ role = [r \in RoleIds |->
                    IF r = Administrator THEN [exists |-> TRUE, perms |-> Catalog, scope |-> "global"]
                    ELSE [exists |-> r = c /\ ~fresh, scope |-> "global",
                          perms |-> IF r = c /\ ~fresh THEN {ManageRoles, ManageUsers} ELSE {}]]
       /\ grant = IF fresh THEN {} ELSE
                    {[user |-> u, role |-> Administrator, copy |-> 1] : u \in {Owner, Deputy}}
                    \cup {[user |-> Delegate, role |-> c, copy |-> 1]}
       /\ setup = ~fresh
  /\ status = [u \in Staff |-> "active"] /\ rreq = [r \in RoleRequests |-> Absent] /\ decided = 0
  /\ given = {ManageRoles, ManageUsers} /\ owners = {} /\ crossed = FALSE

(* effective_permissions: a global role counts everywhere, a competition   *)
(* role only in its competition.                                           *)
Held(u, scope) == UNION {role[g.role].perms : g \in {x \in grant : x.user = u /\ role[x.role].scope = scope}}
Global(u) == Held(u, "global")
Privileged(u) == Global(u) \cup Held(u, "competition")
May(u, key) == status[u] = "active" /\ key \in Global(u)
AdminOf(u) == \E g \in grant : g.user = u /\ g.role = Administrator
ActiveAdmins == {u \in Staff : AdminOf(u) /\ status[u] = "active"}
MayManage(a, u) == Privileged(u) \subseteq Global(a)

Idle(r) == rreq[r].op = "none"
MayDecide(r) == Idle(r) /\ decided < MaxDecisions
Decide(r, rec) == /\ decided < MaxDecisions /\ decided' = decided + 1
                  /\ rreq' = [rreq EXCEPT ![r] = rec]
                  /\ UNCHANGED <<role, grant, status, setup, given, owners, crossed>>
Close(r) == rreq' = [rreq EXCEPT ![r] = Absent] /\ UNCHANGED decided
----------------------------------------------------------------------------
(* create_role, possibly a clone: nothing the actor does not hold.         *)
DecideCreate(r, a, c, p, scope) ==
  /\ Idle(r) /\ May(a, ManageRoles) /\ ~role[c].exists /\ p \subseteq Global(a)
  /\ Decide(r, [Absent EXCEPT !.op = "create", !.admin = AdminOf(a), !.role = c, !.perms = p, !.scope = scope])

(* update_role: nothing is added, and nothing taken away, that the actor   *)
(* does not hold; kept permissions need not be held.                       *)
DecideUpdate(r, a, c, p) ==
  /\ Idle(r) /\ May(a, ManageRoles) /\ c \in Customs /\ role[c].exists /\ p # role[c].perms
  /\ p \ role[c].perms \subseteq Global(a)
  /\ role[c].perms \ p \subseteq Global(a)
  /\ Decide(r, [Absent EXCEPT !.op = "update", !.admin = AdminOf(a), !.role = c, !.perms = p])

DecideDelete(r, a, c) ==
  /\ Idle(r) /\ May(a, ManageRoles) /\ c \in Customs /\ role[c].exists
  /\ ~\E g \in grant : g.role = c
  /\ Decide(r, [Absent EXCEPT !.op = "delete", !.admin = AdminOf(a), !.role = c])

(* assign_role, and a row of an import: the whole role must be held.       *)
DecideAssignIf(r, a, u, c, allowed) ==
  /\ Idle(r) /\ May(a, ManageRoles) /\ role[c].exists /\ status[u] # "deleted"
  /\ allowed /\ ~\E g \in grant : g.user = u /\ g.role = c
  /\ Decide(r, [Absent EXCEPT !.op = "assign", !.admin = AdminOf(a), !.subject = u, !.role = c])
DecideAssign_Unchecked(r, a, u, c) == DecideAssignIf(r, a, u, c, TRUE)
DecideAssign(r, a, u, c) == DecideAssignIf(r, a, u, c, role[c].perms \subseteq Global(a))

(* unassign_role counts the active administrators that would be left.      *)
DecideUnassignIf(r, a, g, othersLeft) ==
  /\ Idle(r) /\ May(a, ManageRoles) /\ g \in grant /\ role[g.role].perms \subseteq Global(a)
  /\ g.role = Administrator => othersLeft
  /\ Decide(r, [Absent EXCEPT !.op = "unassign", !.admin = AdminOf(a), !.subject = g.user, !.role = g.role,
                              !.copy = g.copy])
DecideUnassign_CountsRows(r, a, g) ==
  DecideUnassignIf(r, a, g, \E h \in grant : h.role = Administrator /\ h # g)
DecideUnassign(r, a, g) == DecideUnassignIf(r, a, g, ActiveAdmins \ {g.user} # {})

(* ban_user and delete_user.                                               *)
DecideRemoval(r, a, u, op) ==
  /\ Idle(r) /\ op \in {"ban", "remove"} /\ May(a, ManageUsers) /\ MayManage(a, u) /\ u # a
  /\ status[u] # "deleted" /\ (op = "ban" => status[u] = "active")
  /\ AdminOf(u) => ActiveAdmins \ {u} # {}
  /\ Decide(r, [Absent EXCEPT !.op = op, !.admin = AdminOf(a), !.subject = u])

UnbanUser(a, u) ==
  /\ May(a, ManageUsers) /\ MayManage(a, u) /\ status[u] = "banned"
  /\ status' = [status EXCEPT ![u] = "active"]
  /\ UNCHANGED <<role, grant, setup, rreq, decided, given, owners, crossed>>

(* complete_setup: the wizard is open only before setup and without an     *)
(* administrator ...                                                       *)
DecideSetup(r, u) ==
  /\ Idle(r) /\ ~setup /\ ActiveAdmins = {} /\ status[u] = "active"
  /\ Decide(r, [Absent EXCEPT !.op = "setup", !.subject = u])
(* ... and one conditional UPDATE claims it.                               *)
ClaimSetupIf(r, first) ==
  /\ rreq[r].op = "setup" /\ Close(r)
  /\ setup' = TRUE
  /\ grant' = IF first THEN grant \cup {[user |-> rreq[r].subject, role |-> Administrator, copy |-> 1]}
              ELSE grant
  /\ owners' = IF first THEN owners \cup {rreq[r].subject} ELSE owners
  /\ UNCHANGED <<role, status, given, crossed>>
ClaimSetup_ReadThenWrite(r) == ClaimSetupIf(r, TRUE)
ClaimSetup(r) == ClaimSetupIf(r, ~setup)
----------------------------------------------------------------------------
(* The writes.  A row that is gone by then fails the request.              *)
Reach(r, perms) == given' = IF rreq[r].admin THEN given \cup perms ELSE given

(* The row as a create inserts it, or as an update leaves it: its scope is *)
(* chosen once.                                                            *)
Written(row, q) == [exists |-> TRUE, perms |-> q.perms,
                    scope |-> IF q.op = "create" THEN q.scope ELSE row.scope]

WriteRole(r) ==
  /\ rreq[r].op \in {"create", "update"} /\ Close(r)
  /\ LET c == rreq[r].role
         clash == role[c].exists = (rreq[r].op = "create")
     IN IF clash THEN UNCHANGED <<role, given>>
        ELSE /\ role' = [role EXCEPT ![c] = Written(@, rreq[r])]
             /\ Reach(r, rreq[r].perms)
  /\ UNCHANGED <<grant, status, setup, owners, crossed>>

DeleteRole_LeavesScope(r) ==
  /\ rreq[r].op = "delete" /\ Close(r)
  /\ role' = [role EXCEPT ![rreq[r].role] = [exists |-> FALSE, perms |-> {}, scope |-> "none"]]
  /\ UNCHANGED <<grant, status, setup, given, owners, crossed>>
DeleteRole(r) ==
  /\ rreq[r].op = "delete" /\ Close(r)
  /\ role' = [role EXCEPT ![rreq[r].role] = [exists |-> FALSE, perms |-> {}, scope |-> "global"]]
  /\ grant' = {g \in grant : g.role # rreq[r].role}
  /\ UNCHANGED <<status, setup, given, owners, crossed>>

(* The unique constraint does not cover rows without a competition, so two *)
(* assignments of a global role decided together both stay.                *)
AssignRole(r) ==
  LET u == rreq[r].subject
      c == rreq[r].role
      copies == {g \in grant : g.user = u /\ g.role = c}
      row(n) == [user |-> u, role |-> c, copy |-> n]
  IN /\ rreq[r].op = "assign" /\ Close(r) /\ Cardinality(grant) < MaxGrants
     /\ IF ~role[c].exists \/ status[u] = "deleted" \/ (copies # {} /\ role[c].scope = "competition")
        THEN UNCHANGED <<grant, given>>
        ELSE /\ grant' = grant \cup {row(IF copies = {} THEN 1 ELSE 2)}
             /\ Reach(r, role[c].perms)
     /\ UNCHANGED <<role, status, setup, owners, crossed>>

OtherRemoval(r) == \E q \in RoleRequests \ {r} : rreq[q].op \in {"unassign", "ban", "remove"}
RemoveAccess(r) ==
  LET u == rreq[r].subject
  IN /\ rreq[r].op \in {"unassign", "ban", "remove"} /\ Close(r)
     /\ grant' = CASE rreq[r].op = "unassign" ->
                        grant \ {[user |-> u, role |-> rreq[r].role, copy |-> rreq[r].copy]}
                   [] rreq[r].op = "ban" -> grant
                   [] rreq[r].op = "remove" -> {g \in grant : g.user # u}
     /\ status' = CASE rreq[r].op = "unassign" -> status
                    [] rreq[r].op = "ban" -> IF status[u] = "deleted" THEN status
                                             ELSE [status EXCEPT ![u] = "banned"]
                    [] rreq[r].op = "remove" -> [status EXCEPT ![u] = "deleted"]
     /\ crossed' = (crossed \/ OtherRemoval(r))
     /\ UNCHANGED <<role, setup, given, owners>>

RoleNext ==
  \/ \E r \in RoleRequests :
       \/ ClaimSetup(r) \/ WriteRole(r) \/ DeleteRole(r) \/ AssignRole(r) \/ RemoveAccess(r)
       \/ \E u \in Staff : DecideSetup(r, u)
       \/ MayDecide(r) /\ \E a \in Staff :
            \/ \E c \in Customs, p \in SUBSET Catalog :
                 DecideUpdate(r, a, c, p) \/ \E s \in {"global", "competition"} : DecideCreate(r, a, c, p, s)
            \/ \E c \in Customs : DecideDelete(r, a, c)
            \/ \E u \in Staff, c \in RoleIds : DecideAssign(r, a, u, c)
            \/ \E g \in grant : DecideUnassign(r, a, g)
            \/ \E u \in Staff, op \in {"ban", "remove"} : DecideRemoval(r, a, u, op)
  \/ \E a, u \in Staff : UnbanUser(a, u)
RoleSpec == RoleInit /\ [][RoleNext]_roleVars
----------------------------------------------------------------------------
(* Delegation is contained: whatever delegates create, clone, edit, assign *)
(* or import, together and over any number of requests, nobody but the     *)
(* first administrators comes to hold a permission that no administrator   *)
(* put within reach.                                                       *)
Contained ==
  \A u \in Staff \ ({Owner, Deputy} \cup owners) : Privileged(u) \subseteq given

(* An install that has an owner keeps an active administrator through      *)
(* bans, deletions and removals of the role; only two removals decided on  *)
(* the same rows can together take the last ones.                          *)
AdminRemains == setup /\ ~crossed => ActiveAdmins # {}

(* Of several wizards submitted on a fresh install, one provisions the     *)
(* owner (mark_setup_complete is a conditional UPDATE).                    *)
OneOwner == Cardinality(owners) <= 1

(* Roles: no chain of delegated edits, grants and imports passes on more   *)
(* than an administrator gave, an administrator remains, and one setup     *)
(* wins.                                                                   *)
RolesSafe ==
    RoleTypeOK /\ Contained /\ AdminRemains /\ OneOwner
=============================================================================
