------------------------------ MODULE Notices ------------------------------
(***************************************************************************)
(* What staff and participants tell each other.                            *)
(*                                                                         *)
(* One announcement or clarification from its posting to the bells it      *)
(* reaches (routers/announcements.py, utils/announcements.py,              *)
(* plugins/announcements, utils/notifications.py and the scheduler's       *)
(* publish_scheduled_announcements).  Staff requests and the scheduler     *)
(* read the row, commit and then emit; every event starts a background     *)
(* fan-out that shows the shared room one frame and then commits one batch *)
(* of notifications after another, and that its timeout, or a dying        *)
(* process, may cut off anywhere.  A batch is one recipient here.          *)
(*                                                                         *)
(* One support ticket, or one question about a challenge: its thread and   *)
(* status (routers/tickets.py), the screenshots on it                      *)
(* (routers/ticket_attachments.py), and who is told of a message           *)
(* (plugins/notifications, plugins/tickets).  A request reads the ticket   *)
(* first and commits later; the status is written only where it differs    *)
(* from the one read.  Messages are abstracted to who wrote the last       *)
(* public one, staff to one side.                                          *)
(***************************************************************************)
EXTENDS Naturals, FiniteSets

(***************************************************************************)
(* Announcements and clarifications.                                       *)
(***************************************************************************)
CONSTANTS AnnRequests,   \* staff requests in flight
          Recipients,    \* resolve_recipients: members by number, in sorted order
          Muted,         \* those who muted announcements
          FanIds,        \* fan-outs that may ever run
          MaxAnnFaults   \* bound: fan-outs or emits cut off

ASSUME AnnAssumption == Recipients \subseteq Nat /\ FanIds \subseteq Nat /\ MaxAnnFaults \in Nat

VARIABLES anRow,      \* the announcement's row
          anOpen,     \* competitors can see the challenge it is about
          anBell,     \* notifications each member has for it
          anRoom,     \* what the shared room was last shown
          anReq,      \* staff requests, and the scheduler's tick
          anFan,      \* the fan-outs
          anCut,      \* ghost: emits and fan-outs cut off
          anTold,     \* ghost: commits that put it live, and that withdrew it
          anOverlap   \* ghost: a batch was committed between a withdrawal's scrub and its commit

anVars == <<anRow, anOpen, anBell, anRoom, anReq, anFan, anCut, anTold, anOverlap>>

Scheduler == "tick"
Posters == AnnRequests \cup {Scheduler}
NoBell == [answer |-> 0, blank |-> 0, notice |-> 0]
FanOff == [pc |-> "off", w |-> FALSE, left |-> {}, frame |-> "nothing"]

AnnInit ==
    /\ anRow = [st |-> "none", clar |-> FALSE, critical |-> FALSE, withdrawn |-> FALSE]
    /\ anOpen = TRUE
    /\ anBell = [m \in Recipients |-> NoBell]
    /\ anRoom = "nothing"
    /\ anReq = [r \in Posters |-> "idle"]
    /\ anFan = [f \in FanIds |-> FanOff]
    /\ anCut = 0 /\ anTold = [live |-> 0, withdrawn |-> 0] /\ anOverlap = FALSE

AnnGoes(r, pc) == anReq' = [anReq EXCEPT ![r] = pc]
Delivery == UNCHANGED <<anBell, anRoom, anFan>>
Seen == UNCHANGED <<anOpen, anCut, anOverlap>>

-----------------------------------------------------------------------------
(* create_announcement: a future publish_at makes a hidden draft, and      *)
(* nothing is emitted.                                                     *)
CreateAnnouncement(r, scheduled, critical) ==
    /\ anReq[r] = "idle" /\ r # Scheduler /\ anRow.st = "none"
    /\ anRow' = [anRow EXCEPT !.st = IF scheduled THEN "draft" ELSE "live",
                              !.critical = critical]
    /\ anTold' = [anTold EXCEPT !.live = IF scheduled THEN 0 ELSE 1]
    /\ AnnGoes(r, IF scheduled THEN "idle" ELSE "emit")
    /\ Delivery /\ Seen

(* post_clarification and clarify_ticket: only on a challenge that         *)
(* everyone can see.                                                       *)
PostClarification(r) ==
    /\ anReq[r] = "idle" /\ r # Scheduler /\ anRow.st = "none" /\ anOpen
    /\ anRow' = [anRow EXCEPT !.st = "live", !.clar = TRUE]
    /\ anTold' = [anTold EXCEPT !.live = 1]
    /\ AnnGoes(r, "emit")
    /\ Delivery /\ Seen

(* update_announcement, delete_announcement and the scheduler find the row *)
(* still hidden; withdraw_clarification finds it published.                *)
AnnouncementLoads(r, op) ==
    /\ anReq[r] = "idle"
    /\ IF r = Scheduler THEN op = "publish" ELSE op \in {"edit", "cancel", "withdraw"}
    /\ IF op = "withdraw" THEN anRow.st = "live" /\ anRow.clar /\ ~ anRow.withdrawn
                          ELSE anRow.st = "draft"
    /\ AnnGoes(r, op)
    /\ UNCHANGED <<anRow, anTold>> /\ Delivery /\ Seen

(* The edit that publishes now, and the tick at publish_at: an UPDATE of   *)
(* the row they loaded, which fails when it is gone.                       *)
PublishCommits(r) ==
    /\ anReq[r] \in {"edit", "publish"}
    /\ IF anRow.st = "gone" THEN AnnGoes(r, "idle") /\ UNCHANGED <<anRow, anTold>>
       ELSE /\ anRow' = [anRow EXCEPT !.st = "live"]
            /\ anTold' = [anTold EXCEPT !.live = @ + 1]
            /\ AnnGoes(r, "emit")
    /\ Delivery /\ Seen

(* The edit that leaves it scheduled.                                      *)
EditCommits(r) ==
    /\ anReq[r] = "edit" /\ AnnGoes(r, "idle")
    /\ UNCHANGED <<anRow, anTold>> /\ Delivery /\ Seen

(* delete_announcement takes the notifications of the row with it.         *)
CancelCommits(r) ==
    /\ anReq[r] = "cancel" /\ AnnGoes(r, "idle")
    /\ anRow' = [anRow EXCEPT !.st = "gone"]
    /\ anBell' = [m \in Recipients |-> NoBell]
    /\ UNCHANGED <<anRoom, anFan, anTold>> /\ Seen

(* scrub_withdrawn_answer: UPDATE of the committed notifications.          *)
Scrub == anBell' = [m \in Recipients |->
                      [anBell[m] EXCEPT !.answer = 0, !.blank = @ + anBell[m].answer]]

WithdrawScrubs(r) ==
    /\ anReq[r] = "withdraw" /\ Scrub /\ AnnGoes(r, "scrubbed")
    /\ UNCHANGED <<anRow, anRoom, anFan, anTold>> /\ Seen

WithdrawCommits(r) ==
    /\ anReq[r] = "scrubbed" /\ AnnGoes(r, "emit_withdrawn")
    /\ anRow' = [anRow EXCEPT !.withdrawn = TRUE]
    /\ anTold' = [anTold EXCEPT !.withdrawn = @ + 1]
    /\ Delivery /\ Seen

(* announcement.published, announcement.withdrawn: background handlers.    *)
AnnEmit(r) ==
    /\ anReq[r] \in {"emit", "emit_withdrawn"} /\ AnnGoes(r, "idle")
    /\ \E f \in FanIds :
         /\ anFan[f].pc = "off" /\ \A g \in FanIds : g < f => anFan[g].pc # "off"
         /\ anFan' = [anFan EXCEPT ![f] = [FanOff EXCEPT !.pc = "load",
                                                        !.w = anReq[r] = "emit_withdrawn"]]
    /\ UNCHANGED <<anRow, anBell, anRoom, anTold>> /\ Seen

(* The challenge is hidden, or the competition ends (bound: for good).     *)
ChallengeHides ==
    /\ anOpen /\ anOpen' = FALSE
    /\ UNCHANGED <<anRow, anReq, anCut, anTold, anOverlap>> /\ Delivery

-----------------------------------------------------------------------------
FanGoes(f, pc) == anFan' = [anFan EXCEPT ![f].pc = pc]
FanEnds(f) == anFan' = [anFan EXCEPT ![f] = FanOff]
Posted == UNCHANGED <<anRow, anOpen, anReq, anTold>>

(* _fan_out reads the row, its recipients and the frame; a withdrawal of   *)
(* what nobody can see tells nobody.                                       *)
FanLoads(f) ==
    /\ anFan[f].pc = "load"
    /\ IF anRow.st = "gone" \/ (anFan[f].w /\ ~ anOpen) THEN FanEnds(f)
       ELSE anFan' = [anFan EXCEPT ![f].pc = "room", ![f].left = Recipients,
                        ![f].frame = IF anRow.withdrawn THEN "withdrawn" ELSE "answer"]
    /\ Posted /\ UNCHANGED <<anBell, anRoom, anCut, anOverlap>>

FanShowsRoom(f) ==
    /\ anFan[f].pc = "room" /\ FanGoes(f, "batch")
    /\ anRoom' = anFan[f].frame
    /\ Posted /\ UNCHANGED <<anBell, anCut, anOverlap>>

FanChecks(f) ==
    /\ anFan[f].pc = "batch"
    /\ IF anFan[f].left = {} \/ (~ anFan[f].w /\ anRow.withdrawn) THEN FanEnds(f)
       ELSE FanGoes(f, "commit")
    /\ Posted /\ UNCHANGED <<anBell, anRoom, anCut, anOverlap>>

FirstOf(S) == CHOOSE m \in S : \A n \in S : m <= n

(* create_notifications drops who muted the category, except for a         *)
(* critical announcement.                                                  *)
Wanted(m) == m \notin Muted \/ anRow.critical

FanCommits(f) ==
    LET m == FirstOf(anFan[f].left)
        field == IF anFan[f].w THEN "notice" ELSE "answer" IN
    /\ anFan[f].pc = "commit"
    /\ IF anRow.st = "gone" THEN FanEnds(f) /\ UNCHANGED anBell
       ELSE /\ anBell' = IF Wanted(m) THEN [anBell EXCEPT ![m][field] = @ + 1] ELSE anBell
            /\ anFan' = [anFan EXCEPT ![f].left = @ \ {m},
                                      ![f].pc = IF anFan[f].w THEN "batch" ELSE "recheck"]
    /\ anOverlap' = (anOverlap \/ \E r \in Posters : anReq[r] = "scrubbed")
    /\ Posted /\ UNCHANGED <<anRoom, anCut>>

FanRechecks_Trusts(f) ==
    /\ anFan[f].pc = "recheck" /\ FanGoes(f, "batch")
    /\ Posted /\ UNCHANGED <<anBell, anRoom, anCut, anOverlap>>

(* Withdrawn between the check and the commit: take the answer out again.  *)
FanRechecks(f) ==
    /\ anFan[f].pc = "recheck"
    /\ IF anRow.withdrawn THEN Scrub /\ FanEnds(f)
       ELSE FanGoes(f, "batch") /\ UNCHANGED anBell
    /\ Posted /\ UNCHANGED <<anRoom, anCut, anOverlap>>

(* DELIVER_HANDLER_TIMEOUT, or the process dies.                           *)
FanCut(f) ==
    /\ anFan[f].pc # "off" /\ anCut < MaxAnnFaults
    /\ FanEnds(f) /\ anCut' = anCut + 1
    /\ Posted /\ UNCHANGED <<anBell, anRoom, anOverlap>>

EmitLost(r) ==
    /\ anReq[r] \in {"emit", "emit_withdrawn"} /\ anCut < MaxAnnFaults
    /\ AnnGoes(r, "idle") /\ anCut' = anCut + 1
    /\ UNCHANGED <<anRow, anOpen, anTold, anOverlap>> /\ Delivery

AnnNext ==
    \/ \E r \in Posters :
         \/ \E s, c \in BOOLEAN : CreateAnnouncement(r, s, c)
         \/ PostClarification(r)
         \/ \E op \in {"edit", "cancel", "withdraw", "publish"} : AnnouncementLoads(r, op)
         \/ PublishCommits(r) \/ EditCommits(r) \/ CancelCommits(r)
         \/ WithdrawScrubs(r) \/ WithdrawCommits(r) \/ AnnEmit(r) \/ EmitLost(r)
    \/ \E f \in FanIds :
         \/ FanLoads(f) \/ FanShowsRoom(f) \/ FanChecks(f) \/ FanCommits(f)
         \/ FanRechecks(f) \/ FanCut(f)
    \/ ChallengeHides

AnnSpec == AnnInit /\ [][AnnNext]_anVars

-----------------------------------------------------------------------------
(* Rows, bells, requests and fan-outs are of the shape the code gives them. *)
AnnTypeOK ==
    /\ anRow.st \in {"none", "draft", "live", "gone"}
    /\ anRoom \in {"nothing", "answer", "withdrawn"}
    /\ \A m \in Recipients : \A k \in DOMAIN NoBell : anBell[m][k] \in Nat
    /\ \A r \in Posters : anReq[r] \in {"idle", "edit", "cancel", "publish", "withdraw",
                                        "scrubbed", "emit", "emit_withdrawn"}
    /\ \A f \in FanIds : /\ anFan[f].pc \in {"off", "load", "room", "batch", "commit", "recheck"}
                         /\ anFan[f].left \subseteq Recipients
    /\ anCut \in 0..MaxAnnFaults

AnnQuiet == /\ \A r \in Posters : anReq[r] = "idle"
            /\ \A f \in FanIds : anFan[f].pc = "off"

(* A withdrawn clarification's answer is in nobody's bell once deliveries  *)
(* are over: the re-check after each batch and the scrub of the withdrawal *)
(* cover each other, except for a batch committed between that scrub and   *)
(* the withdrawal's commit, or a delivery cut off.                         *)
ScrubbedUnlessOverlapped ==
    AnnQuiet /\ anRow.withdrawn /\ anCut = 0 /\ ~ anOverlap
        => \A m \in Recipients : anBell[m].answer = 0

(* Nobody is told twice, unless an edit and the tick both published it, or *)
(* two requests both withdrew it.                                          *)
ToldOnceUnlessRaced ==
    \A m \in Recipients :
        /\ anTold.live <= 1 => anBell[m].answer + anBell[m].blank <= 1
        /\ anTold.withdrawn <= 1 => anBell[m].notice <= 1

(* What went live reaches everyone who wants it, and a withdrawal reaches  *)
(* everyone its answer reached, unless cut off or hidden meanwhile.        *)
ToldUnlessCut ==
    AnnQuiet /\ anRow.st = "live" /\ anCut = 0 /\ anOpen =>
        \A m \in Recipients :
            Wanted(m) => anBell[m].answer + anBell[m].blank + anBell[m].notice > 0

AnnouncementsSafe == ScrubbedUnlessOverlapped /\ ToldOnceUnlessRaced /\ ToldUnlessCut

(* A withdrawn answer is taken out of every bell it reached (violated: see *)
(* ScrubbedUnlessOverlapped).                                              *)
WithdrawnIsScrubbed ==
    AnnQuiet /\ anRow.withdrawn /\ anCut = 0 => \A m \in Recipients : anBell[m].answer = 0

(***************************************************************************)
(* Tickets and questions.                                                  *)
(***************************************************************************)
CONSTANTS TicketRequests,  \* requests in flight
          Shots,           \* attachments that may be uploaded
          MaxShots,        \* MAX_ATTACHMENTS_PER_TICKET
          MaxTicketOps,    \* bound: requests made
          MaxTicketFaults, \* bound: processes dying between two steps
          NoReq

ASSUME TicketAssumption == /\ MaxShots \in Nat /\ MaxTicketOps \in Nat
                           /\ MaxTicketFaults \in Nat /\ NoReq \notin TicketRequests

VARIABLES tkRow,     \* the ticket: status, kind, assignee, last public author
          tkShots,   \* attachment rows
          tkObjects, \* objects in storage
          tkLock,    \* who holds the ticket's row FOR UPDATE
          tkReq,     \* requests
          tkRung,    \* who was notified since the last public message
          tkOps, tkCuts,
          tkLast,    \* ghost: the last commit that bears on the status
          tkRaced    \* ghost: a commit went by a status that had changed

tkVars == <<tkRow, tkShots, tkObjects, tkLock, tkReq, tkRung, tkOps, tkCuts, tkLast, tkRaced>>

IdleTicketReq == [pc |-> "idle", op |-> "", who |-> "", internal |-> FALSE, was |-> "", shot |-> {}]

TicketInit ==
    /\ \E q \in BOOLEAN :
         tkRow = [status |-> "open", question |-> q, assignee |-> "nobody", author |-> "opener"]
    /\ tkShots = {} /\ tkObjects = {} /\ tkLock = NoReq
    /\ tkReq = [q \in TicketRequests |-> IdleTicketReq]
    /\ tkRung = {"staff"}
    /\ tkOps = 0 /\ tkCuts = 0 /\ tkLast = "reply" /\ tkRaced = FALSE

TkGoes(q, pc) == tkReq' = [tkReq EXCEPT ![q].pc = pc]
TkEnds(q) == tkReq' = [tkReq EXCEPT ![q] = IdleTicketReq]
Files == UNCHANGED <<tkShots, tkObjects, tkLock>>
Thread == UNCHANGED <<tkRow, tkRung, tkLast, tkRaced>>

-----------------------------------------------------------------------------
TkBegins(q, r) ==
    /\ tkReq[q].pc = "idle" /\ tkOps < MaxTicketOps
    /\ tkReq' = [tkReq EXCEPT ![q] = r]
    /\ tkOps' = tkOps + 1
    /\ Files /\ Thread /\ UNCHANGED tkCuts

(* _load_visible_ticket: the opener and staff only.  A question takes no   *)
(* reply from its opener; only staff resolve, assign, clarify or write     *)
(* internal notes.                                                         *)
TicketLoads(q, op, who, internal) ==
    /\ op \in {"resolve", "assign_staff", "assign_opener", "clarify"} => who = "staff"
    /\ internal => op = "reply" /\ who = "staff"
    /\ op = "reply" /\ tkRow.question => who = "staff"
    /\ TkBegins(q, [IdleTicketReq EXCEPT !.pc = "write", !.op = op, !.who = who,
                        !.internal = internal, !.was = tkRow.status])

(* Only an attribute that changed is in the UPDATE.                        *)
Written(was, new) == IF new = was THEN tkRow.status ELSE new

(* What a message does to the status: an answer settles a question, and a  *)
(* message reopens a ticket that was read as resolved.                     *)
AfterMessage(r) ==
    IF tkRow.question THEN (IF r.internal THEN r.was ELSE "resolved") ELSE "open"

(* reply_to_ticket, clarify_ticket: the message and the status together.   *)
PostMessage(q) ==
    LET r == tkReq[q] IN
    /\ r.pc = "write" /\ r.op \in {"reply", "clarify"}
    /\ tkRow' = [tkRow EXCEPT !.status = Written(r.was, AfterMessage(r)),
                              !.author = IF r.internal THEN @ ELSE r.who]
    /\ tkRung' = IF r.internal THEN tkRung ELSE {}
    /\ tkLast' = IF tkRow.question /\ r.internal THEN tkLast ELSE "reply"
    /\ tkRaced' = (tkRaced \/ r.was # tkRow.status)
    /\ TkGoes(q, "tell")
    /\ Files /\ UNCHANGED <<tkOps, tkCuts>>

ResolveTicket(q) ==
    LET r == tkReq[q] IN
    /\ r.pc = "write" /\ r.op = "resolve"
    /\ tkRow' = [tkRow EXCEPT !.status = Written(r.was, "resolved")]
    /\ tkLast' = "resolve"
    /\ tkRaced' = (tkRaced \/ r.was # tkRow.status)
    /\ TkGoes(q, "tell")
    /\ Files /\ UNCHANGED <<tkOps, tkCuts, tkRung>>

(* assign_ticket takes any account that exists.                            *)
AssignTicket(q) ==
    LET r == tkReq[q] IN
    /\ r.pc = "write" /\ r.op \in {"assign_staff", "assign_opener"}
    /\ tkRow' = [tkRow EXCEPT !.assignee = IF r.op = "assign_staff" THEN "staff" ELSE "opener"]
    /\ TkGoes(q, "tell")
    /\ Files /\ UNCHANGED <<tkOps, tkCuts, tkRung, tkLast, tkRaced>>

(* The foreground handlers of the event, which read the ticket again: on a *)
(* staff message the opener, on the opener's the assignee or all of staff, *)
(* never the author.                                                       *)
TicketRecipients(r) ==
    CASE r.op = "assign_staff"  -> {"staff"}
      [] r.op \in {"assign_opener", "resolve"} -> {"opener"}
      [] r.op \in {"reply", "clarify"} /\ r.who = "staff" -> IF r.internal THEN {} ELSE {"opener"}
      [] r.op \in {"reply", "clarify"} /\ r.who = "opener" ->
           (IF tkRow.assignee = "nobody" THEN {"staff"} ELSE {tkRow.assignee}) \ {"opener"}

TicketEvent(q) ==
    /\ tkReq[q].pc = "tell"
    /\ tkRung' = tkRung \cup TicketRecipients(tkReq[q])
    /\ TkEnds(q)
    /\ Files /\ UNCHANGED <<tkRow, tkOps, tkCuts, tkLast, tkRaced>>

-----------------------------------------------------------------------------
(* upload_ticket_attachment: a question takes none.                        *)
UploadLoads(q, s) ==
    /\ ~ tkRow.question /\ s \notin tkObjects /\ \A p \in TicketRequests : tkReq[p].shot # {s}
    /\ TkBegins(q, [IdleTicketReq EXCEPT !.pc = "lock", !.op = "upload", !.shot = {s}])

UploadLocks_NoLock(q) ==
    /\ tkReq[q].pc = "lock"
    /\ IF Cardinality(tkShots) >= MaxShots THEN TkEnds(q) ELSE TkGoes(q, "put")
    /\ Thread /\ UNCHANGED <<tkShots, tkObjects, tkLock, tkOps, tkCuts>>

(* The ticket's row FOR UPDATE, and then the count.                        *)
UploadLocks(q) ==
    /\ tkReq[q].pc = "lock" /\ tkLock = NoReq
    /\ IF Cardinality(tkShots) >= MaxShots THEN TkEnds(q) /\ UNCHANGED tkLock
       ELSE TkGoes(q, "put") /\ tkLock' = q
    /\ Thread /\ UNCHANGED <<tkShots, tkObjects, tkOps, tkCuts>>

TicketUnlocks(q) == tkLock' = IF tkLock = q THEN NoReq ELSE tkLock

UploadPuts(q) ==
    /\ tkReq[q].pc = "put" /\ TkGoes(q, "insert")
    /\ tkObjects' = tkObjects \cup tkReq[q].shot
    /\ Thread /\ UNCHANGED <<tkShots, tkLock, tkOps, tkCuts>>

UploadCommits(q) ==
    /\ tkReq[q].pc = "insert" /\ TkEnds(q)
    /\ tkShots' = tkShots \cup tkReq[q].shot
    /\ TicketUnlocks(q)
    /\ Thread /\ UNCHANGED <<tkObjects, tkOps, tkCuts>>

(* delete_ticket_attachment: the object first, best effort, then the row.  *)
DeleteLoads(q, s) ==
    /\ s \in tkShots
    /\ TkBegins(q, [IdleTicketReq EXCEPT !.pc = "unstore", !.op = "delete", !.shot = {s}])

DeleteObject(q) ==
    /\ tkReq[q].pc = "unstore" /\ TkGoes(q, "remove")
    /\ \/ tkObjects' = tkObjects \ tkReq[q].shot
       \/ UNCHANGED tkObjects
    /\ Thread /\ UNCHANGED <<tkShots, tkLock, tkOps, tkCuts>>

DeleteRow(q) ==
    /\ tkReq[q].pc = "remove" /\ TkEnds(q)
    /\ tkShots' = tkShots \ tkReq[q].shot
    /\ Thread /\ UNCHANGED <<tkObjects, tkLock, tkOps, tkCuts>>

(* The process dies: its transaction and the lock go with it.              *)
TicketCrash(q) ==
    /\ tkReq[q].pc # "idle" /\ tkCuts < MaxTicketFaults
    /\ TkEnds(q) /\ TicketUnlocks(q) /\ tkCuts' = tkCuts + 1
    /\ Thread /\ UNCHANGED <<tkShots, tkObjects, tkOps>>

TicketNext ==
    \E q \in TicketRequests :
        \/ \E who \in {"opener", "staff"}, internal \in BOOLEAN,
              op \in {"reply", "resolve", "assign_staff", "assign_opener", "clarify"} :
                TicketLoads(q, op, who, internal)
        \/ PostMessage(q) \/ ResolveTicket(q) \/ AssignTicket(q) \/ TicketEvent(q)
        \/ \E s \in Shots : UploadLoads(q, s) \/ DeleteLoads(q, s)
        \/ UploadLocks(q) \/ UploadPuts(q) \/ UploadCommits(q)
        \/ DeleteObject(q) \/ DeleteRow(q) \/ TicketCrash(q)

TicketSpec == TicketInit /\ [][TicketNext]_tkVars

-----------------------------------------------------------------------------
(* The ticket, its files and the requests are of the shape of the code.    *)
TicketTypeOK ==
    /\ tkRow.status \in {"open", "resolved"} /\ tkRow.assignee \in {"nobody", "staff", "opener"}
    /\ tkShots \subseteq Shots /\ tkObjects \subseteq Shots
    /\ tkLock \in TicketRequests \cup {NoReq}
    /\ \A q \in TicketRequests :
         tkReq[q].pc \in {"idle", "write", "tell", "lock", "put", "insert", "unstore", "remove"}
    /\ tkRung \subseteq {"opener", "staff"}
    /\ tkOps \in 0..MaxTicketOps /\ tkCuts \in 0..MaxTicketFaults

TicketQuiet == \A q \in TicketRequests : tkReq[q].pc = "idle"

(* A resolved ticket is one whose last word was the resolution (an answer, *)
(* for a question), and a reply reopens it, unless a commit went by a      *)
(* status another had changed.                                             *)
StatusTellsUnlessRaced ==
    ~ tkRaced /\ ~ tkRow.question => (tkRow.status = "resolved" <=> tkLast = "resolve")

(* The cap on attachments counts every author's uploads at once.           *)
ShotsCapped == Cardinality(tkShots) <= MaxShots

(* A listed screenshot can be fetched, unless a deletion of it is under    *)
(* way or was cut off before its row went.                                 *)
ShotsStored == TicketQuiet /\ tkCuts = 0 => tkShots \subseteq tkObjects

(* A ticket that awaits staff has rung for staff since the opener's last   *)
(* word, unless it is assigned to the opener or the event was lost.        *)
AwaitingHasRung ==
    TicketQuiet /\ tkCuts = 0 /\ tkRow.status = "open" /\ tkRow.author = "opener"
        => "staff" \in tkRung \/ tkRow.assignee = "opener"

TicketsSafe == StatusTellsUnlessRaced /\ ShotsCapped /\ ShotsStored /\ AwaitingHasRung

(* A reply reopens a resolved ticket (violated by one that read it open).  *)
ReplyReopens == ~ tkRow.question /\ tkLast = "reply" => tkRow.status = "open"
=============================================================================
