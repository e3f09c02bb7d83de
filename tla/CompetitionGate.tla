-------------------------- MODULE CompetitionGate --------------------------
(***************************************************************************)
(* One competition from its creation to its deletion: the status gate      *)
(* (utils/competition_status.py), the routes that move, archive and delete *)
(* it (routers/competitions.py), the scheduler's lifecycle step            *)
(* (emit_lifecycle_events) and the retention purge (utils/retention.py).   *)
(*                                                                         *)
(* A request loads the row, decides on what it loaded and commits in a     *)
(* later step, writing the columns it changed; the event follows the       *)
(* commit.  The tick does the same, so the two overlap.                    *)
(***************************************************************************)
EXTENDS Naturals, FiniteSets

CONSTANTS
    GateRequests,   \* request slots; the scheduler has one of its own
    LastHour,       \* bound: the clock; 0 stands for an unset time
    MaxGateMoves    \* bound: requests and crashes

ASSUME GateAssumption == LastHour \in Nat /\ MaxGateMoves \in Nat

VARIABLES
    cgRow,      \* [here, status, started, ended, archived, purge, start, end]
    cgClock,
    cgReq,      \* slot -> what it loaded and is about to write
    cgOut,      \* events emitted: [name, n] with n the commit they belong to
    cgObjects,  \* its stored objects are all there
    cgMoves,
    cgRaced,    \* what was decided on a row another write has changed since: "gate", "archive"
    cgKept,     \* the last archiving was without retention
    cgCrashed,  \* an event was lost between its commit and its emission
    cgUndone,   \* a deletion went through that had been called off meanwhile
    cgReopened  \* the tick opened a competition that a manual stop had closed

cgVars == <<cgRow, cgClock, cgReq, cgOut, cgObjects, cgMoves, cgRaced, cgKept, cgCrashed, cgUndone,
            cgReopened>>

Ticker == "ticker"
GateSlots == GateRequests \cup {Ticker}
NoReq == [pc |-> "idle"]
GateTimes == 0 .. LastHour
Reached(at) == at # 0 /\ cgClock >= at

GateInit ==
    /\ cgRow \in [here : {TRUE}, status : {"not_started"}, started : {FALSE}, ended : {FALSE},
                  archived : {FALSE}, purge : {0}, start : {0, 1}, end : {0, 2}]
    /\ cgClock = 0
    /\ cgReq = [q \in GateSlots |-> NoReq]
    /\ cgOut = [started |-> 0, ended |-> 0]
    /\ cgObjects = TRUE
    /\ cgMoves = 0
    /\ cgRaced = {} /\ cgKept = FALSE /\ cgCrashed = FALSE /\ cgUndone = FALSE /\ cgReopened = FALSE

-----------------------------------------------------------------------------
(* What the handlers make of a loaded row: the new row and its events.     *)

GateResult(row, events) == [row |-> row, events |-> events]

StartTransition_Announces(c) ==
    IF c.status = "running" THEN GateResult(c, {})
    ELSE GateResult([c EXCEPT !.status = "running", !.started = TRUE], {"started"})

StartTransition_NoFlag(c) ==
    IF c.status = "running" THEN GateResult(c, {})
    ELSE GateResult([c EXCEPT !.status = "running"], IF c.started THEN {} ELSE {"started"})

(* start_transition *)
StartTransition(c) ==
    IF c.status = "running" THEN GateResult(c, {})
    ELSE GateResult([c EXCEPT !.status = "running", !.started = TRUE],
                IF c.started THEN {} ELSE {"started"})

StopTransition_LeavesStart(c) ==
    IF c.status = "ended" THEN GateResult(c, {})
    ELSE GateResult([c EXCEPT !.status = "ended", !.ended = TRUE],
                IF c.ended THEN {} ELSE {"ended"})

(* stop_transition: it claims the start as well. *)
StopTransition(c) ==
    IF c.status = "ended" THEN GateResult(c, {})
    ELSE GateResult([c EXCEPT !.status = "ended", !.started = TRUE, !.ended = TRUE],
                IF c.ended THEN {} ELSE {"ended"})

(* archive_competition, with the retention of the site settings on or off. *)
Archive(c, retain) ==
    IF c.archived THEN GateResult(c, {})
    ELSE GateResult([c EXCEPT !.archived = TRUE, !.purge = IF retain THEN cgClock + 1 ELSE @], {})

Unarchive_KeepsClock(c) ==
    IF ~ c.archived THEN GateResult(c, {})
    ELSE GateResult([c EXCEPT !.archived = FALSE], {})

Unarchive(c) ==
    IF ~ c.archived THEN GateResult(c, {})
    ELSE GateResult([c EXCEPT !.archived = FALSE, !.purge = 0], {})

(* update_competition with a new start. *)
Reschedule(c, at) == GateResult([c EXCEPT !.start = at], {})

Opens(c) == ~ c.started /\ Reached(c.start)
Closes(c) == ~ c.ended /\ Reached(c.end)

LifecycleStep_SilentStart(c) ==
    GateResult([c EXCEPT !.started = @ \/ Opens(c), !.ended = @ \/ Closes(c),
                     !.status = IF Closes(c) THEN "ended"
                                ELSE IF Opens(c) /\ @ = "not_started" THEN "running" ELSE @],
           {e \in {"ended"} : Closes(c)})

(* emit_lifecycle_events on an unarchived competition. *)
LifecycleStep(c) ==
    GateResult([c EXCEPT !.started = @ \/ Opens(c), !.ended = @ \/ Closes(c),
                     !.status = IF Closes(c) THEN "ended"
                                ELSE IF Opens(c) /\ @ = "not_started" THEN "running" ELSE @],
           {e \in {"started"} : Opens(c)} \cup {e \in {"ended"} : Closes(c)})

-----------------------------------------------------------------------------
(* The load. *)
Takes(q, kind, result) ==
    /\ cgReq[q] = NoReq /\ cgRow.here
    /\ cgReq' = [cgReq EXCEPT ![q] = [pc |-> "writing", kind |-> kind, saw |-> cgRow,
                                      row |-> result.row, events |-> result.events]]
    /\ UNCHANGED <<cgRow, cgClock, cgOut, cgObjects, cgRaced, cgKept, cgCrashed, cgUndone, cgReopened>>

RequestLoads(q) ==
    /\ cgMoves < MaxGateMoves /\ cgMoves' = cgMoves + 1
    /\ \/ Takes(q, "start", StartTransition(cgRow))
       \/ Takes(q, "stop", StopTransition(cgRow))
       \/ \E retain \in BOOLEAN : Takes(q, "archive", Archive(cgRow, retain))
       \/ Takes(q, "unarchive", Unarchive(cgRow))
       \/ \E at \in GateTimes : Takes(q, "edit", Reschedule(cgRow, at))

TickLoads_Unstarted ==
    /\ ~ cgRow.archived /\ ~ cgRow.started
    /\ Opens(cgRow) \/ Closes(cgRow)
    /\ Takes(Ticker, "tick", LifecycleStep(cgRow))
    /\ UNCHANGED cgMoves

TickLoads ==
    /\ ~ cgRow.archived
    /\ Opens(cgRow) \/ Closes(cgRow)
    /\ Takes(Ticker, "tick", LifecycleStep(cgRow))
    /\ UNCHANGED cgMoves

(* The commit writes the columns that differ from the loaded ones.         *)
Written(r) ==
    [k \in DOMAIN cgRow |-> IF r.row[k] = r.saw[k] THEN cgRow[k] ELSE r.row[k]]

Family(kind) == CASE kind \in {"archive", "unarchive"} -> "archive"
                  [] kind = "edit" -> "edit" [] OTHER -> "gate"

(* A row that is gone fails the commit. *)
GateCommit(q) ==
    LET r == cgReq[q] IN
    /\ r.pc = "writing"
    /\ IF cgRow.here
       THEN /\ cgRow' = Written(r)
            /\ cgRaced' = cgRaced \cup (IF r.row = r.saw \/ r.saw = cgRow THEN {} ELSE {Family(r.kind)})
            /\ cgKept' = IF r.kind = "archive" /\ ~ r.saw.archived
                         THEN r.row.purge = r.saw.purge ELSE cgKept
            /\ cgReopened' = (cgReopened \/ (/\ r.kind = "tick" /\ cgRow.status = "ended"
                                             /\ Written(r).status = "running"))
            /\ cgReq' = [cgReq EXCEPT ![q] = [pc |-> "telling", events |-> r.events]]
       ELSE /\ cgReq' = [cgReq EXCEPT ![q] = NoReq]
            /\ UNCHANGED <<cgRow, cgRaced, cgKept, cgReopened>>
    /\ UNCHANGED <<cgClock, cgOut, cgObjects, cgMoves, cgCrashed, cgUndone>>

(* ... and then the events. *)
Tells(q) ==
    /\ cgReq[q].pc = "telling"
    /\ cgOut' = [e \in DOMAIN cgOut |-> IF e \in cgReq[q].events THEN cgOut[e] + 1 ELSE cgOut[e]]
    /\ cgReq' = [cgReq EXCEPT ![q] = NoReq]
    /\ UNCHANGED <<cgRow, cgClock, cgObjects, cgMoves, cgRaced, cgKept, cgCrashed, cgUndone, cgReopened>>

-----------------------------------------------------------------------------
(* delete_competition and the purge: the stored objects go first, then the *)
(* row.                                                                    *)
PurgeDue == cgRow.archived /\ cgRow.purge # 0 /\ Reached(cgRow.purge)

DeleteLoads(q) ==
    /\ cgReq[q] = NoReq /\ cgRow.here
    /\ IF q = Ticker THEN PurgeDue /\ UNCHANGED cgMoves
       ELSE cgMoves < MaxGateMoves /\ cgMoves' = cgMoves + 1
    /\ cgReq' = [cgReq EXCEPT ![q] = [pc |-> "objects", auto |-> q = Ticker, off |-> FALSE]]
    /\ UNCHANGED <<cgRow, cgClock, cgOut, cgObjects, cgRaced, cgKept, cgCrashed, cgUndone, cgReopened>>

DeleteObjects(q) ==
    /\ cgReq[q].pc = "objects"
    /\ cgObjects' = FALSE
    /\ cgReq' = [cgReq EXCEPT ![q] = [pc |-> "tree", auto |-> cgReq[q].auto,
                                      off |-> cgReq[q].auto /\ ~ cgRow.archived]]
    /\ UNCHANGED <<cgRow, cgClock, cgOut, cgMoves, cgRaced, cgKept, cgCrashed, cgUndone, cgReopened>>

DeleteTree(q) ==
    /\ cgReq[q].pc = "tree"
    /\ cgRow' = [cgRow EXCEPT !.here = FALSE]
    /\ cgUndone' = (cgUndone \/ (cgRow.here /\ cgReq[q].auto /\ ~ cgRow.archived))
    /\ cgReq' = [cgReq EXCEPT ![q] = NoReq]
    /\ UNCHANGED <<cgClock, cgOut, cgObjects, cgMoves, cgRaced, cgKept, cgCrashed, cgReopened>>

(* The process dies: nothing that was not committed remains.               *)
GateCrash(q) ==
    /\ cgReq[q] # NoReq /\ cgMoves < MaxGateMoves
    /\ cgMoves' = cgMoves + 1
    /\ cgCrashed' = (cgCrashed \/ (cgReq[q].pc = "telling" /\ cgReq[q].events # {}))
    /\ cgReq' = [cgReq EXCEPT ![q] = NoReq]
    /\ UNCHANGED <<cgRow, cgClock, cgOut, cgObjects, cgRaced, cgKept, cgUndone, cgReopened>>

HourPasses ==
    /\ cgClock < LastHour
    /\ cgClock' = cgClock + 1
    /\ UNCHANGED <<cgRow, cgReq, cgOut, cgObjects, cgMoves, cgRaced, cgKept, cgCrashed, cgUndone, cgReopened>>

SlotStep(q) == GateCommit(q) \/ Tells(q) \/ DeleteObjects(q) \/ DeleteTree(q)

GateNext ==
    \/ \E q \in GateRequests : RequestLoads(q)
    \/ TickLoads
    \/ \E q \in GateSlots : SlotStep(q) \/ DeleteLoads(q) \/ GateCrash(q)
    \/ HourPasses

GateSpec == GateInit /\ [][GateNext]_cgVars

(* The tick comes round again and what was started is finished.            *)
GateFairness == /\ WF_cgVars(TickLoads) /\ WF_cgVars(DeleteLoads(Ticker))
                /\ \A q \in GateSlots : WF_cgVars(SlotStep(q))

-----------------------------------------------------------------------------
GateTypeOK ==
    /\ cgRow.status \in {"not_started", "running", "ended"}
    /\ cgRow.purge \in 0 .. LastHour + 1
    /\ cgRow.status # "not_started" => cgRow.started \/ cgRow.ended
    /\ cgOut \in [{"started", "ended"} -> 0 .. MaxGateMoves + 1]

Telling(e) == \E q \in GateSlots : cgReq[q].pc = "telling" /\ e \in cgReq[q].events

(* competition.started and competition.ended each go out once at most over *)
(* the whole life of a competition, however often it is stopped, started   *)
(* and rescheduled, unless a transition was decided on a row that another  *)
(* had changed.                                                            *)
OnceUnlessRaced == "gate" \notin cgRaced => cgOut["started"] <= 1 /\ cgOut["ended"] <= 1

(* A fired flag is an announcement, except for the start a stop claimed    *)
(* and for a crash between the commit and the event.                       *)
FiredIsAnnounced ==
    "gate" \notin cgRaced /\ ~ cgCrashed =>
        /\ cgRow.ended => cgOut["ended"] = 1 \/ Telling("ended")
        /\ cgRow.started /\ cgRow.status = "running" /\ ~ cgRow.ended =>
              cgOut["started"] = 1 \/ Telling("started")

(* A competition archived without a retention period is never purged,      *)
(* whatever periods earlier archivings had set, unless two archivings or   *)
(* unarchivings overlapped.                                                *)
KeptIsNotPurged == cgKept /\ cgRow.here /\ "archive" \notin cgRaced => ~ PurgeDue

(* After a manual stop the tick announces no start: whatever the schedule  *)
(* says, the start that never came was claimed by the stop.                *)
NoLateStart ==
    "gate" \notin cgRaced /\ cgRow.ended /\ ~ Reached(cgRow.end) => ~ Opens(cgRow)

(* A scheduled end closes the gate: once it is reached, an open            *)
(* competition that is not archived does not stay open with its end        *)
(* unannounced.                                                            *)
EndCloses ==
    (cgRow.here /\ ~ cgRow.archived /\ Closes(cgRow)) ~>
        (~ cgRow.here \/ cgRow.archived \/ cgRow.ended)

(* "Auto-open the gate (#221), but never override a manual stop that       *)
(* already moved it past not_started" (automation_scheduler.py).           *)
StopStands == ~ cgReopened

(* "only an archived competition may ever be purged, whatever purge_after  *)
(* says" (retention.py).                                                   *)
OnlyArchivedPurged == ~ cgUndone
=============================================================================
