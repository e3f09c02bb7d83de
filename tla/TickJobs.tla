------------------------------ MODULE TickJobs ------------------------------
(***************************************************************************)
(* The rendering jobs of the scheduler's tick: a competition's post-event  *)
(* reports and its bulk exports of certificates                            *)
(* (process_report_jobs and process_certificate_exports of                 *)
(* utils/automation_scheduler.py, routers/reports.py, the export routes of *)
(* routers/certificates.py) and the deletion of the competition they       *)
(* belong to (utils/retention.py).  One scheduler runs the tick; it may    *)
(* die anywhere.  Rendering is a call that succeeds or raises; a put of an *)
(* object may raise before or after the object is written, a delete may    *)
(* leave it.  A report's version, unique by constraint with five retries,  *)
(* is left out: a creation adds a row or answers 409.                      *)
(***************************************************************************)
EXTENDS Naturals, FiniteSets

CONSTANTS
    Jobs,           \* job rows: Reports and Exports, in order of created_at
    Reports,        \* those that are reports
    MaxJobFaults    \* bound: crashes and storage failures

ASSUME JobsAssumption ==
    Jobs \subseteq Nat \ {0} /\ Reports \subseteq Jobs /\ MaxJobFaults \in Nat

VARIABLES
    tjJob,      \* job -> [at, keys, old]: its row, "none" before and "gone" after it
    tjStore,    \* objects: <<job, format>>
    tjTick,     \* the scheduler: [pc, kind, job, stuck, put, left]
    tjDel,      \* a deletion under way: [pc, jobs, keys]
    tjComp,     \* the competition is there
    tjFaults,
    tjMissed    \* jobs with a file no one knows of: the process died with it, the store
                \* kept it, or its deletion read the row's keys before they were recorded

tjVars == <<tjJob, tjStore, tjTick, tjDel, tjComp, tjFaults, tjMissed>>

FormatsOf(j) == IF j \in Reports THEN {"pdf", "html"} ELSE {"zip"}
Terminal == {"ready", "failed"}
Here(j) == tjJob[j].at \notin {"none", "gone"}
In(s) == {j \in Jobs : tjJob[j].at = s}
NoRow == [at |-> "none", keys |-> {}, old |-> FALSE]
Asleep == [pc |-> "asleep", kind |-> "none", job |-> 0, stuck |-> {}, put |-> {}, left |-> {}]
NoDel == [pc |-> "none", jobs |-> {}, keys |-> {}]

TickJobsInit ==
    /\ tjJob = [j \in Jobs |-> NoRow]
    /\ tjStore = {}
    /\ tjTick = Asleep
    /\ tjDel = NoDel
    /\ tjComp = TRUE
    /\ tjFaults = 0
    /\ tjMissed = {}

Fault == tjFaults < MaxJobFaults /\ tjFaults' = tjFaults + 1
JobBecomes(J, s) == [j \in Jobs |-> IF j \in J THEN [tjJob[j] EXCEPT !.at = s] ELSE tjJob[j]]

(* create_report, create_export: a pending row; ids follow created_at.     *)
CreateJob(j) ==
    /\ tjComp
    /\ tjJob[j].at = "none"
    /\ \A i \in Jobs : i < j => tjJob[i].at # "none"
    /\ tjJob' = JobBecomes({j}, "pending")
    /\ UNCHANGED <<tjStore, tjTick, tjDel, tjComp, tjFaults, tjMissed>>

(* Fifteen minutes pass from the row's created_at.                         *)
Age(j) ==
    /\ Here(j) /\ ~ tjJob[j].old
    /\ tjJob' = [tjJob EXCEPT ![j].old = TRUE]
    /\ UNCHANGED <<tjStore, tjTick, tjDel, tjComp, tjFaults, tjMissed>>

-----------------------------------------------------------------------------
(* The tick.  Exports are processed before reports; each of the two        *)
(* functions reclaims, picks the oldest pending row and renders it.        *)

OfKind == IF tjTick.kind = "export" THEN Jobs \ Reports ELSE Reports
At(pc, k) == [Asleep EXCEPT !.pc = pc, !.kind = k]
NextStage == IF tjTick.kind = "export" THEN At("find", "report") ELSE Asleep

TickWakes ==
    /\ tjTick.pc = "asleep"
    /\ tjTick' = At("find", "export")
    /\ UNCHANGED <<tjJob, tjStore, tjDel, tjComp, tjFaults, tjMissed>>

(* The rows a dead worker left running past the limit.                     *)
FindStuck ==
    /\ tjTick.pc = "find"
    /\ tjTick' = [tjTick EXCEPT !.pc = "reclaim",
                                !.stuck = {j \in OfKind \cap In("running") : tjJob[j].old}]
    /\ UNCHANGED <<tjJob, tjStore, tjDel, tjComp, tjFaults, tjMissed>>

Reclaim_Forgets ==
    /\ tjTick.pc = "reclaim"
    /\ tjTick' = At("pick", tjTick.kind)
    /\ UNCHANGED <<tjJob, tjStore, tjDel, tjComp, tjFaults, tjMissed>>

(* They are failed in one commit, which raises out of the tick when one of *)
(* them was deleted meanwhile.                                             *)
Reclaim ==
    /\ tjTick.pc = "reclaim"
    /\ IF \A j \in tjTick.stuck : Here(j)
       THEN /\ tjJob' = JobBecomes(tjTick.stuck, "failed")
            /\ tjTick' = At("pick", tjTick.kind)
       ELSE tjJob' = tjJob /\ tjTick' = Asleep
    /\ UNCHANGED <<tjStore, tjDel, tjComp, tjFaults, tjMissed>>

(* The oldest pending row, if any.                                         *)
Pick ==
    /\ tjTick.pc = "pick"
    /\ LET due == OfKind \cap In("pending") IN
       IF due = {} THEN tjTick' = NextStage
       ELSE \E j \in due :
              /\ \A i \in due : j <= i
              /\ tjTick' = [tjTick EXCEPT !.pc = "start", !.stuck = {}, !.job = j]
    /\ UNCHANGED <<tjJob, tjStore, tjDel, tjComp, tjFaults, tjMissed>>

(* Marked running in a commit outside the try: it raises out of the tick   *)
(* when the row is gone.                                                   *)
Start ==
    LET j == tjTick.job IN
    /\ tjTick.pc = "start"
    /\ IF Here(j)
       THEN tjJob' = JobBecomes({j}, "running")
            /\ tjTick' = [tjTick EXCEPT !.pc = "render"]
       ELSE tjJob' = tjJob /\ tjTick' = Asleep
    /\ UNCHANGED <<tjStore, tjDel, tjComp, tjFaults, tjMissed>>

(* The standings are read and the artefacts rendered: of a report, those   *)
(* its configuration names.  Rendering may raise; it does when the         *)
(* competition, or the export's own row, is gone.                          *)
Render ==
    LET j == tjTick.job IN
    /\ tjTick.pc = "render"
    /\ \/ /\ Here(j)
          /\ \E F \in SUBSET FormatsOf(j) :
                F # {} /\ tjTick' = [tjTick EXCEPT !.pc = "put", !.left = F]
       \/ tjTick' = [tjTick EXCEPT !.pc = "except"]
    /\ UNCHANGED <<tjJob, tjStore, tjDel, tjComp, tjFaults, tjMissed>>

Put_TracksAfter ==
    LET j == tjTick.job IN
    /\ tjTick.pc = "put"
    /\ \E f \in tjTick.left :
         \/ /\ tjStore' = tjStore \cup {<<j, f>>}
            /\ tjTick' = [tjTick EXCEPT !.put = @ \cup {f}, !.left = @ \ {f},
                              !.pc = IF tjTick.left = {f} THEN "finish" ELSE "put"]
            /\ UNCHANGED tjFaults
         \/ /\ Fault
            /\ tjStore' \in {tjStore, tjStore \cup {<<j, f>>}}
            /\ tjTick' = [tjTick EXCEPT !.pc = "except"]
    /\ UNCHANGED <<tjJob, tjDel, tjComp, tjMissed>>

(* One object is stored, its key remembered first; a put that raises may   *)
(* have written it.                                                        *)
Put ==
    LET j == tjTick.job IN
    /\ tjTick.pc = "put"
    /\ \E f \in tjTick.left :
         \/ /\ tjStore' = tjStore \cup {<<j, f>>}
            /\ tjTick' = [tjTick EXCEPT !.put = @ \cup {f}, !.left = @ \ {f},
                              !.pc = IF tjTick.left = {f} THEN "finish" ELSE "put"]
            /\ UNCHANGED tjFaults
         \/ /\ Fault
            /\ tjStore' \in {tjStore, tjStore \cup {<<j, f>>}}
            /\ tjTick' = [tjTick EXCEPT !.put = @ \cup {f}, !.pc = "except"]
    /\ UNCHANGED <<tjJob, tjDel, tjComp, tjMissed>>

(* The keys and the status "ready" ("done" of an export) in one commit.    *)
JobFinishes ==
    LET j == tjTick.job IN
    /\ tjTick.pc = "finish"
    /\ IF Here(j)
       THEN /\ tjJob' = [tjJob EXCEPT ![j].at = "ready", ![j].keys = tjTick.put]
            /\ tjTick' = NextStage
            /\ tjMissed' = IF j \in tjDel.jobs THEN tjMissed \cup {j} ELSE tjMissed
       ELSE tjTick' = [tjTick EXCEPT !.pc = "except"] /\ UNCHANGED <<tjJob, tjMissed>>
    /\ UNCHANGED <<tjStore, tjDel, tjComp, tjFaults>>

(* A report that raised: roll back, drop what this run stored as far as    *)
(* the store lets it, and record the failure on the row, if it is there.   *)
(* An export records the failure without a rollback: with its row gone     *)
(* that commit raises out of the tick, and what it stored stays.           *)
Except ==
    LET j == tjTick.job
        Own == {<<j, f>> : f \in tjTick.put} IN
    /\ tjTick.pc = "except"
    /\ tjJob' = IF Here(j) THEN JobBecomes({j}, "failed") ELSE tjJob
    /\ tjTick' = IF j \in Reports \/ Here(j) THEN NextStage ELSE Asleep
    /\ IF j \in Reports
       THEN \/ tjStore' = tjStore \ Own /\ UNCHANGED <<tjFaults, tjMissed>>
            \/ \E o \in Own : /\ Fault
                              /\ tjStore' = tjStore \ (Own \ {o})
                              /\ tjMissed' = tjMissed \cup {j}
       ELSE UNCHANGED <<tjStore, tjFaults, tjMissed>>
    /\ UNCHANGED <<tjDel, tjComp>>

(* The process dies anywhere in the tick.                                  *)
JobCrash ==
    /\ tjTick.pc # "asleep"
    /\ Fault
    /\ tjTick' = Asleep
    /\ tjMissed' = tjMissed \cup ({tjTick.job} \ {0})
    /\ UNCHANGED <<tjJob, tjStore, tjDel, tjComp>>

-----------------------------------------------------------------------------
(* delete_report: the row and the keys it has now are loaded ...           *)
DeleteReport(j) ==
    /\ tjDel.pc = "none" /\ tjComp
    /\ j \in Reports /\ Here(j)
    /\ tjDel' = [pc |-> "row", jobs |-> {j}, keys |-> {<<j, f>> : f \in tjJob[j].keys}]
    /\ UNCHANGED <<tjJob, tjStore, tjTick, tjComp, tjFaults, tjMissed>>

(* ... the row goes first, the objects after it.                           *)
DeleteRow ==
    /\ tjDel.pc = "row"
    /\ tjJob' = JobBecomes({j \in tjDel.jobs : Here(j)}, "gone")
    /\ tjDel' = [tjDel EXCEPT !.pc = "objects"]
    /\ UNCHANGED <<tjStore, tjTick, tjComp, tjFaults, tjMissed>>

(* delete_competition_tree: the keys of its reports ...                    *)
DeleteCompetition ==
    /\ tjDel.pc = "none" /\ tjComp
    /\ tjDel' = [pc |-> "tree", jobs |-> Jobs,
                 keys |-> UNION {{<<j, f>> : f \in tjJob[j].keys} : j \in Reports}]
    /\ UNCHANGED <<tjJob, tjStore, tjTick, tjComp, tjFaults, tjMissed>>

(* ... their objects first, each as far as the store lets it ...           *)
DeleteJobObjects ==
    /\ tjDel.pc \in {"tree", "objects"}
    /\ \/ tjStore' = tjStore \ tjDel.keys /\ UNCHANGED <<tjFaults, tjMissed>>
       \/ \E o \in tjDel.keys : /\ Fault
                                /\ tjStore' = tjStore \ (tjDel.keys \ {o})
                                /\ tjMissed' = tjMissed \cup {o[1]}
    /\ tjDel' = IF tjDel.pc = "tree" THEN [tjDel EXCEPT !.pc = "cascade"] ELSE NoDel
    /\ UNCHANGED <<tjJob, tjTick, tjComp>>

(* ... then the competition, and with it every row of it.                  *)
DeleteCascade ==
    /\ tjDel.pc = "cascade"
    /\ tjComp' = FALSE
    /\ tjJob' = [j \in Jobs |-> [tjJob[j] EXCEPT !.at = "gone"]]
    /\ tjDel' = NoDel
    /\ UNCHANGED <<tjStore, tjTick, tjFaults, tjMissed>>

-----------------------------------------------------------------------------
TickStep ==
    \/ TickWakes \/ FindStuck \/ Reclaim \/ Pick
    \/ Start \/ Render \/ Put \/ JobFinishes \/ Except

TickJobsNext ==
    \/ TickStep
    \/ JobCrash
    \/ \E j \in Jobs : CreateJob(j) \/ Age(j) \/ DeleteReport(j)
    \/ DeleteRow \/ DeleteCompetition \/ DeleteJobObjects \/ DeleteCascade

TickJobsSpec == TickJobsInit /\ [][TickJobsNext]_tjVars

(* The loop keeps ticking, time passes for every row, and a request that   *)
(* began goes on.                                                          *)
TickJobsFairness ==
    /\ WF_tjVars(TickStep)
    /\ \A j \in Jobs : WF_tjVars(Age(j))
    /\ WF_tjVars(DeleteRow \/ DeleteJobObjects \/ DeleteCascade)

-----------------------------------------------------------------------------
TickJobsTypeOK ==
    /\ \A j \in Jobs : /\ tjJob[j].at \in {"none", "pending", "running", "gone"} \cup Terminal
                       /\ tjJob[j].keys \subseteq FormatsOf(j)
                       /\ tjJob[j].old \in BOOLEAN
    /\ tjStore \subseteq Jobs \X {"pdf", "html", "zip"}
    /\ tjTick.job \in Jobs \cup {0} /\ tjTick.stuck \subseteq Jobs
    /\ tjDel.jobs \subseteq Jobs /\ tjComp \in BOOLEAN
    /\ tjFaults \in 0..MaxJobFaults /\ tjMissed \subseteq Jobs

(* The tick is in the middle of this job, or will clean up after it.       *)
Working(j) == tjTick.job = j /\ tjTick.pc \in {"put", "finish", "except"}

(* A report that says ready has every file it names, unless its own        *)
(* deletion is between the objects and the rows; a job that is not done    *)
(* names none (the download route trusts the row).                         *)
ReadyIsStored ==
    \A j \in Jobs :
        /\ tjJob[j].at = "ready" /\ j \notin tjDel.jobs
              => tjJob[j].keys # {} /\ {<<j, f>> : f \in tjJob[j].keys} \subseteq tjStore
        /\ tjJob[j].at \in {"pending", "running", "failed"} => tjJob[j].keys = {}

(* A report's file in the store is named by its row, or the run that put   *)
(* it there is still to record or drop it, or a deletion is still to drop  *)
(* it, unless the process died, the store would not delete, or a deletion  *)
(* had read the row's keys before the run recorded them.  A put that       *)
(* raised after it wrote, and a row deleted in mid-render, are no excuse:  *)
(* the tracked keys, the rollback and the re-fetch of process_report_jobs  *)
(* are for these.                                                          *)
ReportFilesOwned ==
    \A o \in tjStore :
        o[1] \in Reports \ tjMissed
        => \/ Here(o[1]) /\ o[2] \in tjJob[o[1]].keys
           \/ Working(o[1]) /\ o[2] \in tjTick.put
           \/ o \in tjDel.keys

TickJobsSafe == ReadyIsStored /\ ReportFilesOwned

(* Every job the organiser asked for ends: rendered, failed (a run that    *)
(* died included) or deleted.                                              *)
JobsEnd == \A j \in Jobs :
    tjJob[j].at \in {"pending", "running"} ~> tjJob[j].at \in Terminal \cup {"gone"}

(* With no fault, a deleted competition leaves no object: the deletion     *)
(* says it covers every object-backed table.                               *)
DeletedLeavesNothing ==
    ~ tjComp /\ tjFaults = 0 /\ tjMissed = {} /\ tjTick.pc = "asleep" => tjStore = {}
=============================================================================
