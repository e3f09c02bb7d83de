---------------------------- MODULE UniqueFlags ----------------------------
(***************************************************************************)
(* Flags of one instance each (utils/instance_grading.py, the unique-mode  *)
(* branch of routers/submissions.py and the rendering of the flag in       *)
(* utils/instance_service.py): rendered and put into the container when it *)
(* is provisioned, hashed on the row when it runs, compared against the    *)
(* live instances of the submitting team, and, on a miss, against those of *)
(* the others.  Players take flags from the containers of their team, tell *)
(* them on, and change teams.                                              *)
(***************************************************************************)
EXTENDS Naturals, FiniteSets

CONSTANTS FlagPlayers, FlagTeams,
          MaxFlagInstances, \* bound: instances ever launched
          MaxSwitches       \* bound: changes of team

ASSUME UniqueAssumption == MaxFlagInstances \in Nat /\ MaxSwitches \in Nat

InstIds == 1..MaxFlagInstances
NoPost == [pc |-> "idle", team |-> 0, flag |-> 0]

VARIABLES ufTeam,     \* the team of each player
          ufInst,     \* challenge_instances; an instance's flag is its identifier
          ufKnows,    \* the flags each player has
          ufPost,     \* a submission of each player
          ufSolved,   \* the awarded solves: team and flag
          ufFlagged,  \* challenge.flag_shared_detected: the submitter and the instance
          ufSwitched, \* changes of team so far
          ufMissed    \* ghost: a team's own live flag was graded wrong

ufVars == <<ufTeam, ufInst, ufKnows, ufPost, ufSolved, ufFlagged, ufSwitched, ufMissed>>

NoInstance == [status |-> "absent", team |-> 0, user |-> 0, hashed |-> FALSE, inside |-> FALSE]
ActiveStatuses == {"requested", "provisioning", "running", "expiring"}

UniqueInit ==
    /\ ufTeam \in [FlagPlayers -> FlagTeams] /\ ufInst = [i \in InstIds |-> NoInstance]
    /\ ufKnows = [p \in FlagPlayers |-> {}] /\ ufPost = [p \in FlagPlayers |-> NoPost]
    /\ ufSolved = {} /\ ufFlagged = {} /\ ufSwitched = 0 /\ ufMissed = FALSE

PlayStays == UNCHANGED <<ufTeam, ufPost, ufSolved, ufFlagged, ufSwitched, ufMissed>>
-----------------------------------------------------------------------------
LaunchUnique(p, i) ==
    /\ ufInst[i].status = "absent" /\ \A j \in 1..(i - 1) : ufInst[j].status # "absent"
    /\ ufInst' = [ufInst EXCEPT ![i] = [NoInstance EXCEPT !.status = "provisioning", !.team = ufTeam[p], !.user = p]]
    /\ PlayStays /\ UNCHANGED ufKnows

(* provision: the flag goes into the container ...                         *)
FlagInjected(i) ==
    /\ ufInst[i].status = "provisioning" /\ ~ufInst[i].inside
    /\ ufInst' = [ufInst EXCEPT ![i].inside = TRUE] /\ PlayStays /\ UNCHANGED ufKnows

(* ... and its hash on the row with the step to running, in one commit.    *)
InstanceRuns(i) ==
    /\ ufInst[i].status = "provisioning" /\ ufInst[i].inside
    /\ ufInst' = [ufInst EXCEPT ![i].status = "running", ![i].hashed = TRUE] /\ PlayStays /\ UNCHANGED ufKnows

(* The reaper marks, then the teardown removes the container.              *)
InstanceEnds(i) ==
    /\ ufInst[i].status \in {"provisioning", "running", "expiring"}
    /\ ufInst' = [ufInst EXCEPT ![i].status = IF @ = "expiring" THEN "destroyed" ELSE "expiring",
                                ![i].inside = @ /\ ufInst[i].status # "expiring"]
    /\ PlayStays /\ UNCHANGED ufKnows

(* Players.  An instance's endpoint is on the row from the step to running.*)
TakesFlag(p, i) ==
    /\ ufInst[i].status \in {"running", "expiring"} /\ ufInst[i].hashed /\ ufInst[i].inside
    /\ ufInst[i].team = ufTeam[p]
    /\ ufKnows' = [ufKnows EXCEPT ![p] = @ \cup {i}] /\ UNCHANGED ufInst /\ PlayStays

TellsFlag(p, o, i) ==
    /\ i \in ufKnows[p] \ ufKnows[o] /\ ufKnows' = [ufKnows EXCEPT ![o] = @ \cup {i}] /\ UNCHANGED ufInst /\ PlayStays

SwitchesTeam(p, t) ==
    /\ ufSwitched < MaxSwitches /\ ufSwitched' = ufSwitched + 1 /\ t # ufTeam[p]
    /\ ufTeam' = [ufTeam EXCEPT ![p] = t]
    /\ UNCHANGED <<ufInst, ufKnows, ufPost, ufSolved, ufFlagged, ufMissed>>
-----------------------------------------------------------------------------
(* submit_flag: the subject is read; a wrong guess is flag 0 ...           *)
PostReads(p, i) ==
    /\ ufPost[p].pc = "idle" /\ i \in ufKnows[p] \cup {0}
    /\ ufPost' = [ufPost EXCEPT ![p] = [pc |-> "grading", team |-> ufTeam[p], flag |-> i]]
    /\ UNCHANGED <<ufTeam, ufInst, ufKnows, ufSolved, ufFlagged, ufSwitched, ufMissed>>

(* ... and graded against the instances that are active and have a hash.   *)
Gradeable == {i \in InstIds : ufInst[i].status \in ActiveStatuses /\ ufInst[i].hashed}
Correct(p) == ufPost[p].flag \in {i \in Gradeable : ufInst[i].team = ufPost[p].team}
SharedWith_Launcher(p) == {i \in Gradeable : i = ufPost[p].flag /\ ufInst[i].team # ufPost[p].team}
SharedWith(p) ==
    {i \in Gradeable : i = ufPost[p].flag /\ ufInst[i].team # ufPost[p].team /\ ufInst[i].user # p}

PostGrades(p) ==
    /\ ufPost[p].pc = "grading"
    /\ ufPost' = [ufPost EXCEPT ![p] = NoPost]
    /\ ufSolved' = IF Correct(p) THEN ufSolved \cup {<<ufPost[p].team, ufPost[p].flag>>} ELSE ufSolved
    /\ ufFlagged' = IF Correct(p) THEN ufFlagged ELSE ufFlagged \cup {<<p, i>> : i \in SharedWith(p)}
    /\ ufMissed' = (ufMissed \/ (~Correct(p) /\ \E i \in InstIds : i = ufPost[p].flag /\ ufInst[i].inside
                                     /\ ufInst[i].team = ufPost[p].team))
    /\ UNCHANGED <<ufTeam, ufInst, ufKnows, ufSwitched>>

UniqueNext ==
    \/ \E i \in InstIds : FlagInjected(i) \/ InstanceRuns(i) \/ InstanceEnds(i)
    \/ \E p \in FlagPlayers :
        \/ \E i \in InstIds : LaunchUnique(p, i) \/ TakesFlag(p, i) \/ \E o \in FlagPlayers : TellsFlag(p, o, i)
        \/ \E t \in FlagTeams : SwitchesTeam(p, t)
        \/ \E i \in InstIds \cup {0} : PostReads(p, i)
        \/ PostGrades(p)

UniqueSpec == UniqueInit /\ [][UniqueNext]_ufVars
-----------------------------------------------------------------------------
UniqueTypeOK ==
    /\ ufTeam \in [FlagPlayers -> FlagTeams] /\ ufKnows \in [FlagPlayers -> SUBSET InstIds]
    /\ \A i \in InstIds : ufInst[i].status \in ActiveStatuses \cup {"absent", "destroyed"}
    /\ ufSolved \subseteq FlagTeams \X InstIds /\ ufFlagged \subseteq FlagPlayers \X InstIds
    /\ ufSwitched \in 0..MaxSwitches

(* However flags are told on and players change teams, a team solves only  *)
(* on the flag of an instance of its own; a flag a member took from a live *)
(* container of the team is never graded wrong while the container stands, *)
(* be the instance expiring; and nobody is reported for the flag of an     *)
(* instance they launched themselves, whichever team it was for.           *)
SolvedOnOwn == \A s \in ufSolved : ufInst[s[2]].team = s[1]
LauncherIsNotAccused == \A f \in ufFlagged : ufInst[f[2]].user # f[1]
UniqueSafe == SolvedOnOwn /\ LauncherIsNotAccused /\ ~ufMissed

(* A flag made for one instance counts for the team it was made for and    *)
(* for no other, and accuses nobody of sharing what is their own.          *)
FlagsSafe ==
    UniqueTypeOK /\ UniqueSafe
=============================================================================
