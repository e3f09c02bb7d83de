----------------------------- MODULE CodeSubmit -----------------------------
(***************************************************************************)
(* One subject's code on its way into the judge's queue                    *)
(* (routers/judge_submissions.py): the gates, the lock on the subject, the *)
(* cap on unfinished judgings, the source put in object storage, the rows, *)
(* the announcement; and what else touches those rows and objects: the     *)
(* worker that finishes a judging, staff who rejudge, and the deletion of  *)
(* the challenge.  JudgeQueue has the worker itself.  A request may die at *)
(* any step, and a commit may succeed without its answer arriving.  The    *)
(* settings of the judge are at the end.                                   *)
(***************************************************************************)
EXTENDS Naturals, FiniteSets

CONSTANTS CodeRequests,   \* requests of the one subject, each sends one source
          MaxInFlight,    \* MAX_IN_FLIGHT
          NoRequest,      \* nobody holds the lock
          MaxCodeFaults   \* bound: deaths, failed calls and lost answers

ASSUME CodeAssumption == MaxInFlight \in Nat \ {0} /\ MaxCodeFaults \in Nat /\ NoRequest \notin CodeRequests

VARIABLES cdReq,      \* each request: where it is
          cdKind,     \* "submission" or "run", as asked
          cdRow,      \* code submission and first judging, by request
          cdRejudge,  \* a rejudging staff queued for it is unfinished
          cdObj,      \* sources in object storage
          cdLock,     \* lock_subject: who holds the subject's row
          cdOpen,     \* the gates of the challenge are open
          cdGone,     \* deletion of the challenge: "no", "keys", "purged" or "done"
          cdKeys,     \* the source keys the deletion read
          cdFaults,   \* ghost: faults so far
          cdTold      \* ghost: submissions announced (judging.queued, the push and the wake)

cdVars == <<cdReq, cdKind, cdRow, cdRejudge, cdObj, cdLock, cdOpen, cdGone, cdKeys,
            cdFaults, cdTold>>

CodeKinds == {"submission", "run"}

CodeInit ==
    /\ cdReq = [r \in CodeRequests |-> "new"]
    /\ cdKind \in [CodeRequests -> CodeKinds]
    /\ cdRow = [r \in CodeRequests |-> "none"]
    /\ cdRejudge = {} /\ cdObj = {} /\ cdLock = NoRequest
    /\ cdOpen = TRUE /\ cdGone = "no" /\ cdKeys = {} /\ cdFaults = 0 /\ cdTold = {}

CodeGoes(r, pc) == cdReq' = [cdReq EXCEPT ![r] = pc]
Releases(r) == cdLock' = IF cdLock = r THEN NoRequest ELSE cdLock
TablesStay == UNCHANGED <<cdRow, cdRejudge, cdObj>>
WorldStays == UNCHANGED <<cdKind, cdOpen, cdGone, cdKeys>>
Unfaulted == UNCHANGED <<cdFaults, cdTold>>
CodeFault == cdFaults < MaxCodeFaults /\ cdFaults' = cdFaults + 1 /\ UNCHANGED cdTold

-----------------------------------------------------------------------------
(* submit_code up to the throttle: module on, challenge visible and        *)
(* unlocked, judge enabled, competition running, problem and language good.*)
PassesGates(r) ==
    /\ cdReq[r] = "new" /\ cdOpen /\ cdGone # "done"
    /\ CodeGoes(r, "gated")
    /\ UNCHANGED cdLock /\ TablesStay /\ WorldStays /\ Unfaulted

Refused(r) ==
    /\ cdReq[r] = "new" /\ (~cdOpen \/ cdGone = "done")
    /\ CodeGoes(r, "end")
    /\ UNCHANGED cdLock /\ TablesStay /\ WorldStays /\ Unfaulted

(* The subject's own unfinished judgings; a rejudging is not counted.      *)
InFlight == {r \in CodeRequests : cdRow[r] \in {"queued", "running"}}

(* lock_subject, then the count under the lock.                            *)
LockAndCount_NoLock(r) ==
    /\ cdReq[r] = "gated"
    /\ CodeGoes(r, IF Cardinality(InFlight) >= MaxInFlight THEN "end" ELSE "counted")
    /\ UNCHANGED cdLock /\ TablesStay /\ WorldStays /\ Unfaulted

LockAndCount(r) ==
    /\ cdReq[r] = "gated" /\ cdLock = NoRequest
    /\ IF Cardinality(InFlight) >= MaxInFlight
       THEN CodeGoes(r, "end") /\ UNCHANGED cdLock
       ELSE CodeGoes(r, "counted") /\ cdLock' = r
    /\ TablesStay /\ WorldStays /\ Unfaulted

(* queue_code: the source goes to storage before the rows exist.           *)
PutSource(r) ==
    /\ cdReq[r] = "counted"
    /\ cdObj' = cdObj \cup {r}
    /\ CodeGoes(r, "stored")
    /\ UNCHANGED <<cdRow, cdRejudge, cdLock>> /\ WorldStays /\ Unfaulted

QueueCommits(r) ==
    /\ cdReq[r] = "stored" /\ cdGone # "done"
    /\ cdRow' = [cdRow EXCEPT ![r] = "queued"]
    /\ CodeGoes(r, "emit") /\ Releases(r)
    /\ UNCHANGED <<cdRejudge, cdObj>> /\ WorldStays /\ Unfaulted

(* The challenge is gone: the insert fails and the source is taken back.   *)
QueueFails(r) ==
    /\ cdReq[r] = "stored" /\ cdGone = "done"
    /\ cdObj' = cdObj \ {r}
    /\ CodeGoes(r, "end") /\ Releases(r)
    /\ UNCHANGED <<cdRow, cdRejudge>> /\ WorldStays /\ Unfaulted

(* The commit fails, or succeeds without its answer arriving: either way   *)
(* the exception takes the source back.                                    *)
QueueFaults(r, applied) ==
    /\ cdReq[r] = "stored" /\ cdGone # "done"
    /\ cdRow' = IF applied THEN [cdRow EXCEPT ![r] = "queued"] ELSE cdRow
    /\ cdObj' = cdObj \ {r}
    /\ CodeGoes(r, "end") /\ Releases(r) /\ CodeFault
    /\ UNCHANGED cdRejudge /\ WorldStays

(* judging.queued, push_judging and the worker's wake.                     *)
Announces(r) ==
    /\ cdReq[r] = "emit"
    /\ cdTold' = cdTold \cup {r}
    /\ CodeGoes(r, "end")
    /\ UNCHANGED <<cdLock, cdFaults>> /\ TablesStay /\ WorldStays

(* The process dies, or the call to storage fails.                         *)
RequestDies(r) ==
    /\ cdReq[r] \in {"gated", "counted", "stored", "emit"}
    /\ CodeGoes(r, "end") /\ Releases(r) /\ CodeFault
    /\ TablesStay /\ WorldStays

-----------------------------------------------------------------------------
RequestsStay == UNCHANGED <<cdReq, cdLock>>

(* The worker claims the oldest and, much later, finishes it; a finished   *)
(* run's source is discarded.  A judging without its source fails as well. *)
WorkerClaims(r) ==
    /\ cdRow[r] = "queued"
    /\ cdRow' = [cdRow EXCEPT ![r] = "running"]
    /\ UNCHANGED <<cdRejudge, cdObj>> /\ RequestsStay /\ WorldStays /\ Unfaulted

WorkerFinishes(r) ==
    /\ cdRow[r] = "running"
    /\ cdRow' = [cdRow EXCEPT ![r] = "done"]
    /\ cdObj' = IF cdKind[r] = "run" THEN cdObj \ {r} ELSE cdObj
    /\ UNCHANGED cdRejudge /\ RequestsStay /\ WorldStays /\ Unfaulted

(* A rejudge of a finished submission, and its end.                        *)
RejudgeQueued(r) ==
    /\ cdRow[r] = "done" /\ cdKind[r] = "submission" /\ r \notin cdRejudge
    /\ cdRejudge' = cdRejudge \cup {r}
    /\ UNCHANGED <<cdRow, cdObj>> /\ RequestsStay /\ WorldStays /\ Unfaulted

RejudgeEnds(r) ==
    /\ r \in cdRejudge /\ cdRejudge' = cdRejudge \ {r}
    /\ UNCHANGED <<cdRow, cdObj>> /\ RequestsStay /\ WorldStays /\ Unfaulted

(* Staff close the gates: unpublish, pause, end, or turn the judge off.    *)
GatesClose ==
    /\ cdOpen /\ cdOpen' = FALSE
    /\ TablesStay /\ RequestsStay /\ UNCHANGED <<cdKind, cdGone, cdKeys>> /\ Unfaulted

(* delete_challenge: the keys of every source, then the objects, then the  *)
(* row, with submissions and judgings by cascade.                          *)
DeletionReads ==
    /\ cdGone = "no" /\ cdGone' = "keys"
    /\ cdKeys' = {r \in CodeRequests : cdRow[r] # "none"}
    /\ TablesStay /\ RequestsStay /\ UNCHANGED <<cdKind, cdOpen>> /\ Unfaulted

DeletionPurges ==
    /\ cdGone = "keys" /\ cdGone' = "purged"
    /\ cdObj' = cdObj \ cdKeys
    /\ UNCHANGED <<cdRow, cdRejudge, cdKind, cdOpen, cdKeys>> /\ RequestsStay /\ Unfaulted

DeletionCommits ==
    /\ cdGone = "purged" /\ cdGone' = "done"
    /\ cdRow' = [r \in CodeRequests |-> "none"] /\ cdRejudge' = {}
    /\ UNCHANGED <<cdObj, cdKind, cdOpen, cdKeys>> /\ RequestsStay /\ Unfaulted

-----------------------------------------------------------------------------
CodeNext ==
    \/ \E r \in CodeRequests :
        \/ PassesGates(r) \/ Refused(r) \/ LockAndCount(r) \/ PutSource(r)
        \/ QueueCommits(r) \/ QueueFails(r) \/ (\E b \in BOOLEAN : QueueFaults(r, b))
        \/ Announces(r) \/ RequestDies(r)
        \/ WorkerClaims(r) \/ WorkerFinishes(r)
        \/ RejudgeQueued(r) \/ RejudgeEnds(r)
    \/ GatesClose \/ DeletionReads \/ DeletionPurges \/ DeletionCommits

CodeSpec == CodeInit /\ [][CodeNext]_cdVars

-----------------------------------------------------------------------------
CodeTypeOK ==
    /\ cdReq \in [CodeRequests -> {"new", "gated", "counted", "stored", "emit", "end"}]
    /\ cdKind \in [CodeRequests -> CodeKinds]
    /\ cdRow \in [CodeRequests -> {"none", "queued", "running", "done"}]
    /\ cdRejudge \subseteq CodeRequests /\ cdObj \subseteq CodeRequests /\ cdKeys \subseteq CodeRequests
    /\ cdLock \in CodeRequests \cup {NoRequest} /\ cdOpen \in BOOLEAN
    /\ cdGone \in {"no", "keys", "purged", "done"}
    /\ cdFaults \in 0..MaxCodeFaults /\ cdTold \subseteq CodeRequests

(* However many requests a subject sends at once, at most MAX_IN_FLIGHT of *)
(* its submissions are unfinished.                                         *)
CapHolds == Cardinality(InFlight) <= MaxInFlight

(* A judging still to be run has its source; a source belongs to rows or   *)
(* to a request under way.  Only a fault, or the deletion of the challenge,*)
(* breaks either; and what was queued is announced or about to be.         *)
SourcesMatchUnlessFaulty ==
    cdFaults = 0 /\ cdGone = "no" =>
        /\ InFlight \cup cdRejudge \subseteq cdObj
        /\ \A r \in cdObj : cdRow[r] # "none" \/ cdReq[r] = "stored"
        /\ \A r \in CodeRequests : cdRow[r] # "none" => r \in cdTold \/ cdReq[r] = "emit"

CodeSafe == CapHolds /\ SourcesMatchUnlessFaulty

-----------------------------------------------------------------------------
(***************************************************************************)
(* The judge's settings and its languages (routers/judge_admin.py), which  *)
(* the gates above go by; the two parts share no state here, the gates are *)
(* open or shut.  An enabled judge must have an endpoint and an enabled    *)
(* language; every write that could break that takes the settings row's    *)
(* lock first.  The settings are loaded before the lock is waited for, and *)
(* not again.                                                              *)
(***************************************************************************)
CONSTANTS Admins,          \* requests in flight
          Languages,       \* languages that may exist
          Presets,         \* LANGUAGE_PRESETS among them
          MaxAdminWrites,  \* bound: writes made
          NoAdmin

ASSUME AdminAssumption == Presets \subseteq Languages /\ MaxAdminWrites \in Nat /\ NoAdmin \notin Admins

VARIABLES jaEnabled, jaEndpoint,   \* the settings row
          jaLang,                  \* language -> "none", "off" or "on"
          jaLock,                  \* who holds the settings row FOR UPDATE
          jaReq, jaWrites,
          jaStale                  \* ghost: a check went by settings changed meanwhile

jaVars == <<jaEnabled, jaEndpoint, jaLang, jaLock, jaReq, jaWrites, jaStale>>

IdleAdmin == [pc |-> "idle", op |-> "", lang |-> {}, on |-> FALSE, set |-> FALSE, enabled |-> FALSE,
              endpoint |-> FALSE]

JudgeAdminInit ==
    /\ jaEnabled = FALSE /\ jaEndpoint = TRUE
    /\ jaLang = [l \in Languages |-> "none"]
    /\ jaLock = NoAdmin /\ jaReq = [a \in Admins |-> IdleAdmin] /\ jaWrites = 0 /\ jaStale = FALSE

(* _lock_settings loads the row (creating it the first time), then asks    *)
(* for its lock.                                                           *)
AdminLoads(a, op, ls, on, set) ==
    /\ jaReq[a].pc = "idle" /\ jaWrites < MaxAdminWrites
    /\ jaReq' = [jaReq EXCEPT ![a] = [pc |-> "lock", op |-> op, lang |-> ls, on |-> on,
                                      set |-> set, enabled |-> jaEnabled,
                                      endpoint |-> jaEndpoint]]
    /\ jaWrites' = jaWrites + 1
    /\ UNCHANGED <<jaEnabled, jaEndpoint, jaLang, jaLock, jaStale>>

AdminLocks(a) ==
    /\ jaReq[a].pc = "lock" /\ jaLock = NoAdmin /\ jaLock' = a
    /\ jaReq' = [jaReq EXCEPT ![a].pc = "write"]
    /\ UNCHANGED <<jaEnabled, jaEndpoint, jaLang, jaWrites, jaStale>>

Configured(endpoint, langs) == endpoint /\ \E l \in Languages : langs[l] = "on"

(* _check_enable_invariant, by the settings this request holds and the     *)
(* languages as they are.  What passes is committed, the rest rolls back.  *)
CheckEnableInvariant_Skips(enabled, endpoint, langs) == TRUE

CheckEnableInvariant(enabled, endpoint, langs) == enabled => Configured(endpoint, langs)

(* What the request sets, over the settings it loaded and the languages as *)
(* they are now; of the settings only what differs is written.             *)
NewFlag(r) ==
    CASE r.op = "setup" -> TRUE
      [] r.op = "settings" /\ r.set -> r.on
      [] OTHER -> r.enabled
NewEndpoint(r) == IF r.op = "endpoint" THEN r.on ELSE r.endpoint
Differs(new, loaded, now) == IF new = loaded THEN now ELSE new
NewLangs(r) ==
    [l \in Languages |->
        CASE r.op = "setup" /\ l \in Presets ->
               IF l \in r.lang THEN "on" ELSE IF jaLang[l] = "none" THEN "none" ELSE "off"
          [] r.op = "language" /\ l \in r.lang /\ jaLang[l] # "none" -> IF r.on THEN "on" ELSE "off"
          [] r.op = "delete" /\ l \in r.lang -> "none"
          [] OTHER -> jaLang[l]]

(* update_settings, apply_setup, update_language, delete_language.         *)
AdminCommits(a) ==
    LET r == jaReq[a]
        ok == CheckEnableInvariant(NewFlag(r), NewEndpoint(r), NewLangs(r)) IN
    /\ r.pc = "write" /\ jaLock = a /\ jaLock' = NoAdmin
    /\ jaReq' = [jaReq EXCEPT ![a] = IdleAdmin]
    /\ IF ok THEN /\ jaEnabled' = Differs(NewFlag(r), r.enabled, jaEnabled)
                  /\ jaEndpoint' = Differs(NewEndpoint(r), r.endpoint, jaEndpoint)
                  /\ jaLang' = NewLangs(r)
             ELSE UNCHANGED <<jaEnabled, jaEndpoint, jaLang>>
    /\ jaStale' = (jaStale \/ r.enabled # jaEnabled \/ r.endpoint # jaEndpoint)
    /\ UNCHANGED jaWrites

(* create_language needs no lock: it can only add.                         *)
CreateLanguage(l, on) ==
    /\ jaLang[l] = "none" /\ jaWrites < MaxAdminWrites
    /\ jaLang' = [jaLang EXCEPT ![l] = IF on THEN "on" ELSE "off"]
    /\ jaWrites' = jaWrites + 1
    /\ UNCHANGED <<jaEnabled, jaEndpoint, jaLock, jaReq, jaStale>>

JudgeAdminNext ==
    \/ \E a \in Admins :
         \/ \E on \in BOOLEAN : AdminLoads(a, "settings", {}, on, TRUE)
         \/ \E on \in BOOLEAN : AdminLoads(a, "endpoint", {}, on, FALSE)
         \/ \E P \in SUBSET Presets : AdminLoads(a, "setup", P, TRUE, TRUE)
         \/ \E l \in Languages, on \in BOOLEAN : AdminLoads(a, "language", {l}, on, FALSE)
         \/ \E l \in Languages : AdminLoads(a, "delete", {l}, FALSE, FALSE)
         \/ AdminLocks(a) \/ AdminCommits(a)
    \/ \E l \in Languages, on \in BOOLEAN : CreateLanguage(l, on)

JudgeAdminSpec == JudgeAdminInit /\ [][JudgeAdminNext]_jaVars

-----------------------------------------------------------------------------
(* The settings, the languages and the requests are of their types.        *)
JudgeAdminTypeOK ==
    /\ jaEnabled \in BOOLEAN /\ jaEndpoint \in BOOLEAN
    /\ jaLang \in [Languages -> {"none", "off", "on"}]
    /\ jaLock \in Admins \cup {NoAdmin} /\ jaWrites \in 0..MaxAdminWrites
    /\ \A a \in Admins : jaReq[a].pc \in {"idle", "lock", "write"} /\ jaReq[a].lang \subseteq Languages

(* An enabled judge has an endpoint and an enabled language, unless a      *)
(* write judged by settings that changed while it waited for the lock.     *)
ConfiguredUnlessStale == jaEnabled /\ ~ jaStale => Configured(jaEndpoint, jaLang)

(* Concurrent admin writes serialise: an enabled judge is configured       *)
(* (violated: the lock is taken after the row is read).                    *)
EnabledIsConfigured == jaEnabled => Configured(jaEndpoint, jaLang)

=============================================================================
