------------------------------- MODULE Teams -------------------------------
(***************************************************************************)
(* Teams of a competition (routers/teams.py, models/team.py): creating,    *)
(* joining by code, applying and being approved, leaving.  A player has    *)
(* one request under way at a time.  A join and an approval lock the team  *)
(* row until they commit; leaving does not, and its deletions and          *)
(* promotions are written at its commit.  The database keeps one           *)
(* membership per player and drops memberships and applications with their *)
(* team; a write to a row that is gone fails its request.                  *)
(***************************************************************************)
EXTENDS Naturals, FiniteSets

CONSTANTS
    Players, TeamIds,
    MaxTeamSize,    \* max_team_size of the competition
    NoTeam,
    MaxTeamOps      \* bound: requests

ASSUME TeamsAssumption ==
    /\ MaxTeamSize \in Nat \ {0} /\ MaxTeamOps \in Nat
    /\ NoTeam \notin TeamIds /\ "none" \notin Players

VARIABLES
    tmTeam,     \* team -> [here, approval, used]: ids are not used again
    tmMember,   \* player -> [team, captain, since]
    tmApps,     \* pending applications <<team, player>>
    tmReq,      \* player -> the request under way
    tmLock,     \* team -> the player whose request holds its row, or "none"
    tmOps,      \* requests and joins so far: the time memberships carry
    tmStale,    \* teams a member left on a captaincy read before it changed
    tmDropped   \* players whose team was deleted under them

tmVars == <<tmTeam, tmMember, tmApps, tmReq, tmLock, tmOps, tmStale, tmDropped>>

Outside == [team |-> NoTeam, captain |-> FALSE, since |-> 0]
IdleReq == [pc |-> "idle"]
Roster(t) == {p \in Players : tmMember[p].team = t}
Captains(t) == {p \in Roster(t) : tmMember[p].captain}

TeamsInit ==
    /\ tmTeam = [t \in TeamIds |-> [here |-> FALSE, approval |-> FALSE, used |-> FALSE]]
    /\ tmMember = [p \in Players |-> Outside]
    /\ tmApps = {}
    /\ tmReq = [p \in Players |-> IdleReq]
    /\ tmLock = [t \in TeamIds |-> "none"]
    /\ tmOps = 0
    /\ tmStale = {}
    /\ tmDropped = {}

Starts(p, req) ==
    /\ tmReq[p] = IdleReq /\ tmOps < MaxTeamOps
    /\ tmOps' = tmOps + 1
    /\ tmReq' = [tmReq EXCEPT ![p] = req]
Goes(p, req) == tmReq' = [tmReq EXCEPT ![p] = req]
Ends(p) == Goes(p, IdleReq)
Locks(t, p) == tmLock[t] = "none" /\ tmLock' = [tmLock EXCEPT ![t] = p]
Unlocks(t) == tmLock' = [tmLock EXCEPT ![t] = "none"]
Joined(p, t, captain) ==
    /\ tmMember' = [tmMember EXCEPT ![p] = [team |-> t, captain |-> captain, since |-> tmOps]]
    /\ tmOps' = tmOps + 1

-----------------------------------------------------------------------------
(* create_team: the checks, then team and captain in one commit, which     *)
(* fails when the player got a membership meanwhile.                       *)
CreateCheck(p) ==
    /\ tmMember[p] = Outside
    /\ Starts(p, [pc |-> "create"])
    /\ UNCHANGED <<tmTeam, tmMember, tmApps, tmLock, tmStale, tmDropped>>

CreateTeam(p, t, approval) ==
    /\ tmReq[p].pc = "create" /\ ~ tmTeam[t].used
    /\ \A u \in TeamIds : u < t => tmTeam[u].used
    /\ IF tmMember[p] = Outside
       THEN /\ tmTeam' = [tmTeam EXCEPT ![t] = [here |-> TRUE, approval |-> approval, used |-> TRUE]]
            /\ Joined(p, t, TRUE)
       ELSE UNCHANGED <<tmTeam, tmMember, tmOps>>
    /\ Ends(p)
    /\ UNCHANGED <<tmApps, tmLock, tmStale, tmDropped>>

(* join_team: membership is checked before the row is locked. *)
JoinCheck(p, t) ==
    /\ tmMember[p] = Outside /\ tmTeam[t].here
    /\ Starts(p, [pc |-> "join", team |-> t])
    /\ UNCHANGED <<tmTeam, tmMember, tmApps, tmLock, tmStale, tmDropped>>

Full(t) == Cardinality(Roster(t)) >= MaxTeamSize

JoinLock_Unlocked(p) ==
    LET t == tmReq[p].team IN
    /\ tmReq[p].pc = "join"
    /\ IF tmTeam[t].here /\ ~ Full(t)
       THEN Goes(p, [pc |-> "joining", team |-> t, apply |-> tmTeam[t].approval])
       ELSE Ends(p)
    /\ UNCHANGED <<tmTeam, tmMember, tmApps, tmLock, tmOps, tmStale, tmDropped>>

(* The locked read: gone or full, the request ends there. *)
JoinLock(p) ==
    LET t == tmReq[p].team IN
    /\ tmReq[p].pc = "join"
    /\ IF tmTeam[t].here /\ ~ Full(t)
       THEN Locks(t, p) /\ Goes(p, [pc |-> "joining", team |-> t, apply |-> tmTeam[t].approval])
       ELSE tmLock[t] = "none" /\ Ends(p) /\ UNCHANGED tmLock
    /\ UNCHANGED <<tmTeam, tmMember, tmApps, tmOps, tmStale, tmDropped>>

(* An application or a membership is inserted; the lock goes with the      *)
(* transaction, committed or not.                                          *)
JoinCommit(p) ==
    LET t == tmReq[p].team IN
    /\ tmReq[p].pc = "joining"
    /\ IF ~ tmTeam[t].here THEN UNCHANGED <<tmMember, tmApps, tmOps>>
       ELSE IF tmReq[p].apply
       THEN tmApps' = tmApps \cup {<<t, p>>} /\ UNCHANGED <<tmMember, tmOps>>
       ELSE /\ IF tmMember[p] = Outside THEN Joined(p, t, FALSE)
               ELSE UNCHANGED <<tmMember, tmOps>>
            /\ UNCHANGED tmApps
    /\ Unlocks(t) /\ Ends(p)
    /\ UNCHANGED <<tmTeam, tmStale, tmDropped>>

-----------------------------------------------------------------------------
(* approve_join_request and reject_join_request by the captain. *)
ReviewCheck(c, app, verdict) ==
    /\ tmMember[c].captain /\ app \in tmApps /\ app[1] = tmMember[c].team
    /\ Starts(c, [pc |-> verdict, app |-> app])
    /\ UNCHANGED <<tmTeam, tmMember, tmApps, tmLock, tmStale, tmDropped>>

(* The lock, the size, and whether the applicant is free.                  *)
ApproveLock(c) ==
    LET t == tmReq[c].app[1]   p == tmReq[c].app[2] IN
    /\ tmReq[c].pc = "approve"
    /\ IF tmTeam[t].here /\ ~ Full(t)
       THEN Locks(t, c) /\ Goes(c, [pc |-> "approving", app |-> tmReq[c].app,
                                    adds |-> tmMember[p] = Outside])
       ELSE tmLock[t] = "none" /\ Ends(c) /\ UNCHANGED tmLock
    /\ UNCHANGED <<tmTeam, tmMember, tmApps, tmOps, tmStale, tmDropped>>

(* The commit fails when the applicant got a membership after the check or *)
(* the application is gone.                                                *)
ApproveCommit(c) ==
    LET app == tmReq[c].app   t == app[1]   p == app[2] IN
    /\ tmReq[c].pc = "approving"
    /\ IF app \in tmApps /\ (tmReq[c].adds => tmMember[p] = Outside)
       THEN /\ IF tmReq[c].adds THEN Joined(p, t, FALSE) ELSE UNCHANGED <<tmMember, tmOps>>
            /\ tmApps' = tmApps \ {app}
       ELSE UNCHANGED <<tmMember, tmApps, tmOps>>
    /\ Unlocks(t) /\ Ends(c)
    /\ UNCHANGED <<tmTeam, tmStale, tmDropped>>

RejectCommit(c) ==
    /\ tmReq[c].pc = "reject"
    /\ tmApps' = tmApps \ {tmReq[c].app}
    /\ Ends(c)
    /\ UNCHANGED <<tmTeam, tmMember, tmLock, tmOps, tmStale, tmDropped>>

-----------------------------------------------------------------------------
(* leave_team: load the membership row, ... *)
LeaveLoad(p) ==
    /\ tmMember[p] # Outside
    /\ Starts(p, [pc |-> "leave", row |-> tmMember[p]])
    /\ UNCHANGED <<tmTeam, tmMember, tmApps, tmLock, tmStale, tmDropped>>

(* The row read as `row` still exists, whoever is captain now. *)
Same(p, row) == tmMember[p].team = row.team /\ tmMember[p].since = row.since

Eldest(rest) == CHOOSE x \in rest : \A y \in rest : tmMember[x].since <= tmMember[y].since

Heir_None(p, rest) == {}

(* ... delete it, read who remains, decide: the longest-standing member    *)
(* inherits from a captain; without any, the team goes.                    *)
Heir(p, rest) ==
    {[who |-> x, row |-> tmMember[x]] :
        x \in IF rest # {} /\ tmReq[p].row.captain THEN {Eldest(rest)} ELSE {}}

LeaveFlush(p) ==
    LET row == tmReq[p].row   rest == Roster(row.team) \ {p} IN
    /\ tmReq[p].pc = "leave"
    /\ IF Same(p, row)
       THEN Goes(p, [pc |-> "leaving", row |-> row, last |-> rest = {}, heir |-> Heir(p, rest)])
       ELSE Ends(p)
    /\ UNCHANGED <<tmTeam, tmMember, tmApps, tmLock, tmOps, tmStale, tmDropped>>

Deleting(p) == tmReq[p].pc = "leaving"

Disband_KeepsMembers(t) ==
    /\ tmTeam' = [tmTeam EXCEPT ![t].here = FALSE]
    /\ UNCHANGED <<tmMember, tmApps>>

Disband(t) ==
    /\ tmTeam' = [tmTeam EXCEPT ![t].here = FALSE]
    /\ tmMember' = [q \in Players |-> IF q \in Roster(t) THEN Outside ELSE tmMember[q]]
    /\ tmApps' = {a \in tmApps : a[1] # t}

(* The commit.  Deleting the team waits for its row and, as memberships go *)
(* with it, for members whose row is being deleted; promoting such a       *)
(* member waits too, and fails when its row is gone, which takes the       *)
(* departure back.                                                         *)
LeaveCommit(p) ==
    LET r == tmReq[p]   t == r.row.team IN
    /\ Deleting(p)
    /\ IF r.last
       THEN /\ tmLock[t] = "none" /\ \A q \in Roster(t) \ {p} : ~ Deleting(q)
            /\ Disband(t)
            /\ tmDropped' = tmDropped \cup (Roster(t) \ {p})
            /\ tmStale' = tmStale
       ELSE /\ \A h \in r.heir : ~ (Deleting(h.who) /\ Same(h.who, h.row))
            /\ tmMember' =
                 IF \E h \in r.heir : ~ Same(h.who, h.row) THEN tmMember
                 ELSE [q \in Players |->
                         IF q = p THEN Outside
                         ELSE IF \E h \in r.heir : h.who = q
                         THEN [tmMember[q] EXCEPT !.captain = TRUE] ELSE tmMember[q]]
            /\ tmStale' = IF tmMember[p].captain # r.row.captain THEN tmStale \cup {t} ELSE tmStale
            /\ UNCHANGED <<tmTeam, tmApps, tmDropped>>
    /\ Ends(p)
    /\ UNCHANGED <<tmLock, tmOps>>

TeamsNext ==
    \E p \in Players :
        \/ CreateCheck(p) \/ \E t \in TeamIds, a \in BOOLEAN : CreateTeam(p, t, a)
        \/ \E t \in TeamIds : JoinCheck(p, t)
        \/ JoinLock(p) \/ JoinCommit(p)
        \/ \E a \in tmApps, v \in {"approve", "reject"} : ReviewCheck(p, a, v)
        \/ ApproveLock(p) \/ ApproveCommit(p) \/ RejectCommit(p)
        \/ LeaveLoad(p) \/ LeaveFlush(p) \/ LeaveCommit(p)

TeamsSpec == TeamsInit /\ [][TeamsNext]_tmVars

-----------------------------------------------------------------------------
TeamsTypeOK ==
    /\ tmMember \in [Players -> [team : TeamIds \cup {NoTeam}, captain : BOOLEAN,
                                 since : Nat]]
    /\ \A p \in Players : tmMember[p].team # NoTeam => tmTeam[tmMember[p].team].here
    /\ \A a \in tmApps : a \in TeamIds \X Players
    /\ tmLock \in [TeamIds -> Players \cup {"none"}]

(* However joins and approvals race for the last seat, no team grows past  *)
(* max_team_size.                                                          *)
SeatsHold == \A t \in TeamIds : Cardinality(Roster(t)) <= MaxTeamSize

(* A team never has two captains, and it has one unless a member left on a *)
(* captaincy read before it was inherited.                                 *)
LedUnlessStale ==
    \A t \in TeamIds : tmTeam[t].here =>
        /\ Cardinality(Captains(t)) <= 1
        /\ t \notin tmStale => Captains(t) # {}

(* "Earliest-joined remaining member inherits the captaincy" (teams.py):   *)
(* a team always has a captain.                                            *)
AlwaysLed == \A t \in TeamIds : tmTeam[t].here => Captains(t) # {}

(* Nobody loses a team without leaving it. *)
NobodyDropped == tmDropped = {}
=============================================================================
