---------------------------- MODULE Certificates ----------------------------
(***************************************************************************)
(* A competition's certificate: the design its organisers edit (template,  *)
(* uploaded background, custom fonts, import of an exported design) and    *)
(* its release, by an organiser or by the scheduler's tick                 *)
(* (routers/certificates.py, utils/certificate_release.py,                 *)
(* release_scheduled_certificates of utils/automation_scheduler.py).       *)
(* A request reads, stores its objects and commits in separate steps; a    *)
(* commit writes only the columns that differ from what was read.  The     *)
(* release is a conditional UPDATE: it keeps the row locked until its      *)
(* transaction ends.                                                       *)
(***************************************************************************)
EXTENDS Naturals, FiniteSets

CONSTANTS
    Editors,        \* request slots, the tick's among them
    Backgrounds,    \* keys of background objects, each used once
    Fonts,          \* ids of custom fonts, each used once; the object has the same name
    NoKey,          \* no background
    MaxCustomFonts, \* fonts of a competition, 20 in the code
    MaxCertOps      \* bound: requests

ASSUME CertificatesAssumption ==
    /\ NoKey \notin Backgrounds \cup Fonts \cup Editors /\ Backgrounds \cap Fonts = {}
    /\ IsFiniteSet(Backgrounds) /\ IsFiniteSet(Fonts)
    /\ MaxCustomFonts \in Nat \ {0} /\ MaxCertOps \in Nat

VARIABLES
    ctRow,      \* the template: [here, key, upload, fonts]: upload is background_kind
    ctFonts,    \* rows of certificate_fonts
    ctStore,    \* objects
    ctUsed,     \* names already drawn
    ctReq,      \* request -> what it read and is about to do
    ctReleased, \* released_at is set
    ctLock,     \* the request whose open transaction updated the row, or NoKey
    ctBell,     \* releases that created notifications
    ctUntold,   \* a committed release whose certificate.released is still to come
    ctOps,
    ctRaced     \* two changes of the design overlapped

ctVars == <<ctRow, ctFonts, ctStore, ctUsed, ctReq, ctReleased, ctLock, ctBell, ctUntold,
            ctOps, ctRaced>>

IdleEdit == [pc |-> "idle"]
DesignWrites == {"background", "import", "put", "font"}

CertificatesInit ==
    /\ ctRow = [here |-> FALSE, key |-> NoKey, upload |-> FALSE, fonts |-> {}]
    /\ ctFonts = {} /\ ctStore = {} /\ ctUsed = {}
    /\ ctReq = [q \in Editors |-> IdleEdit]
    /\ ctReleased = FALSE /\ ctLock = NoKey /\ ctBell = 0 /\ ctUntold = FALSE
    /\ ctOps = 0 /\ ctRaced = FALSE

Then(q, r) == ctReq' = [ctReq EXCEPT ![q] = r]
Begins(q) ==
    /\ ctReq[q].pc = "idle"
    /\ ctOps < MaxCertOps /\ ctOps' = ctOps + 1
    /\ ctRaced' = (ctRaced \/ \E p \in Editors : ctReq[p].pc \in DesignWrites)
CertSame == UNCHANGED <<ctReleased, ctLock, ctBell, ctUntold>>
Fresh(S) == S \ ctUsed
Unlocked == ctLock = NoKey
(* Inserting the template again breaks its uniqueness.                     *)
Conflict(r) == ~ r.row.here /\ ctRow.here

-----------------------------------------------------------------------------
(* upload_background: the object is stored, then the template read; ...    *)
UploadBackground(q) ==
    /\ Begins(q)
    /\ \E k \in Fresh(Backgrounds) :
         /\ ctStore' = ctStore \cup {k} /\ ctUsed' = ctUsed \cup {k}
         /\ Then(q, [pc |-> "background", row |-> ctRow, key |-> k])
    /\ UNCHANGED <<ctRow, ctFonts>> /\ CertSame

(* ... the template takes it, ... *)
BackgroundCommit(q) ==
    LET r == ctReq[q] IN
    /\ r.pc = "background" /\ Unlocked
    /\ IF Conflict(r) THEN ctRow' = ctRow /\ Then(q, IdleEdit)
       ELSE /\ ctRow' = [ctRow EXCEPT !.here = TRUE, !.key = r.key,
                                      !.upload = IF r.row.upload THEN @ ELSE TRUE]
            /\ Then(q, [pc |-> "drop", keys |-> {r.row.key} \ {NoKey}])
    /\ UNCHANGED <<ctFonts, ctStore, ctUsed, ctOps, ctRaced>> /\ CertSame

(* ... and the objects it superseded are dropped (best effort; the store   *)
(* is taken to comply).                                                    *)
DropOld(q) ==
    /\ ctReq[q].pc = "drop"
    /\ ctStore' = ctStore \ ctReq[q].keys
    /\ Then(q, IdleEdit)
    /\ UNCHANGED <<ctRow, ctFonts, ctUsed, ctOps, ctRaced>> /\ CertSame

(* put_template: an uploaded background is selectable when there is one,   *)
(* a custom font when it is this competition's.                            *)
PutTemplate(q, upload, F) ==
    /\ Begins(q)
    /\ upload => ctRow.key # NoKey
    /\ F \subseteq ctFonts
    /\ Then(q, [pc |-> "put", row |-> ctRow, upload |-> upload, fonts |-> F])
    /\ UNCHANGED <<ctRow, ctFonts, ctStore, ctUsed>> /\ CertSame

PutCommit(q) ==
    LET r == ctReq[q] IN
    /\ r.pc = "put" /\ Unlocked
    /\ ctRow' = IF Conflict(r) THEN ctRow
                ELSE [ctRow EXCEPT !.here = TRUE,
                                   !.upload = IF r.upload = r.row.upload THEN @ ELSE r.upload,
                                   !.fonts = IF r.fonts = r.row.fonts THEN @ ELSE r.fonts]
    /\ Then(q, IdleEdit)
    /\ UNCHANGED <<ctFonts, ctStore, ctUsed, ctOps, ctRaced>> /\ CertSame

(* upload_font: the cap is counted, the object stored, the row inserted.   *)
UploadFont(q) ==
    /\ Begins(q)
    /\ Cardinality(ctFonts) < MaxCustomFonts
    /\ \E f \in Fresh(Fonts) :
         /\ ctStore' = ctStore \cup {f} /\ ctUsed' = ctUsed \cup {f}
         /\ Then(q, [pc |-> "font", key |-> f])
    /\ UNCHANGED <<ctRow, ctFonts>> /\ CertSame

FontCommit(q) ==
    /\ ctReq[q].pc = "font"
    /\ ctFonts' = ctFonts \cup {ctReq[q].key}
    /\ Then(q, IdleEdit)
    /\ UNCHANGED <<ctRow, ctStore, ctUsed, ctOps, ctRaced>> /\ CertSame

(* delete_font: the row, then the object.                                  *)
DeleteFont(q, f) ==
    /\ Begins(q)
    /\ f \in ctFonts
    /\ ctFonts' = ctFonts \ {f}
    /\ Then(q, [pc |-> "drop", keys |-> {f}])
    /\ UNCHANGED <<ctRow, ctStore, ctUsed>> /\ CertSame

(* _apply_import: after its assets are decoded and validated, the existing *)
(* fonts are read, the new objects stored and the template read.  Only     *)
(* fonts an element refers to are stored; an uploaded background that is   *)
(* not bundled becomes a plain one.                                        *)
ApplyImport(q) ==
    /\ Begins(q)
    /\ \E F \in SUBSET Fresh(Fonts), K \in SUBSET Fresh(Backgrounds) :
         /\ Cardinality(F) <= MaxCustomFonts /\ Cardinality(K) <= 1
         /\ ctStore' = ctStore \cup F \cup K /\ ctUsed' = ctUsed \cup F \cup K
         /\ Then(q, [pc |-> "import", row |-> ctRow, olds |-> ctFonts, fonts |-> F, back |-> K])
    /\ UNCHANGED <<ctRow, ctFonts>> /\ CertSame

(* The old fonts' rows go, the new ones and the design are written in one  *)
(* commit; the superseded objects are dropped after it, the new ones when  *)
(* it fails.                                                               *)
ImportCommit(q) ==
    LET r == ctReq[q]
        key == IF r.back = {} THEN NoKey ELSE CHOOSE k \in r.back : TRUE
        Write(old, was, new) == IF was = new THEN old ELSE new IN
    /\ r.pc = "import" /\ Unlocked
    /\ IF Conflict(r)
       THEN /\ UNCHANGED <<ctRow, ctFonts>>
            /\ Then(q, [pc |-> "drop", keys |-> r.fonts \cup r.back])
       ELSE /\ ctRow' = [here |-> TRUE,
                         key |-> Write(ctRow.key, r.row.key, key),
                         upload |-> Write(ctRow.upload, r.row.upload, r.back # {}),
                         fonts |-> Write(ctRow.fonts, r.row.fonts, r.fonts)]
            /\ ctFonts' = (ctFonts \ r.olds) \cup r.fonts
            /\ Then(q, [pc |-> "drop", keys |-> r.olds \cup ({r.row.key} \ {NoKey})])
    /\ UNCHANGED <<ctStore, ctUsed, ctOps, ctRaced>> /\ CertSame

-----------------------------------------------------------------------------
(* release_now and release_scheduled_certificates: a template that is not  *)
(* released yet; the tick also wants the end reached and the module on,    *)
(* which any state may satisfy.                                            *)
ReleaseRead(q) ==
    /\ ctReq[q].pc = "idle"
    /\ ctRow.here /\ ~ ctReleased
    /\ ctOps < MaxCertOps /\ ctOps' = ctOps + 1
    /\ Then(q, [pc |-> "release"])
    /\ UNCHANGED <<ctRow, ctFonts, ctStore, ctUsed, ctRaced>> /\ CertSame

ReleaseUpdate_TrustsTheRead(q) ==
    /\ ctReq[q].pc = "release" /\ Unlocked
    /\ Then(q, [pc |-> "recipients"]) /\ ctLock' = q
    /\ UNCHANGED <<ctRow, ctFonts, ctStore, ctUsed, ctReleased, ctBell, ctUntold, ctOps, ctRaced>>

(* release_template: UPDATE ... WHERE released_at IS NULL waits for the    *)
(* row; whoever finds it released already leaves.                          *)
ReleaseUpdate(q) ==
    /\ ctReq[q].pc = "release" /\ Unlocked
    /\ IF ctReleased THEN Then(q, IdleEdit) /\ ctLock' = ctLock
       ELSE Then(q, [pc |-> "recipients"]) /\ ctLock' = q
    /\ UNCHANGED <<ctRow, ctFonts, ctStore, ctUsed, ctReleased, ctBell, ctUntold, ctOps, ctRaced>>

(* A notification per recipient and the release in one commit.             *)
ReleaseCommit(q) ==
    /\ ctReq[q].pc = "recipients"
    /\ ctReleased' = TRUE /\ ctBell' = ctBell + 1 /\ ctLock' = NoKey /\ ctUntold' = TRUE
    /\ Then(q, [pc |-> "tell"])
    /\ UNCHANGED <<ctRow, ctFonts, ctStore, ctUsed, ctOps, ctRaced>>

(* The standings could not be computed, or another template of the same    *)
(* tick raised: the transaction is rolled back.                            *)
ReleaseRaises(q) ==
    /\ ctReq[q].pc = "recipients"
    /\ ctLock' = NoKey
    /\ Then(q, IdleEdit)
    /\ UNCHANGED <<ctRow, ctFonts, ctStore, ctUsed, ctReleased, ctBell, ctUntold, ctOps, ctRaced>>

ReleaseTell(q) ==
    /\ ctReq[q].pc = "tell"
    /\ ctUntold' = FALSE
    /\ Then(q, IdleEdit)
    /\ UNCHANGED <<ctRow, ctFonts, ctStore, ctUsed, ctReleased, ctLock, ctBell, ctOps, ctRaced>>

CertificatesNext == \E q \in Editors :
    \/ UploadBackground(q) \/ BackgroundCommit(q) \/ DropOld(q)
    \/ \E up \in BOOLEAN, F \in SUBSET ctFonts : PutTemplate(q, up, F)
    \/ PutCommit(q) \/ UploadFont(q) \/ FontCommit(q)
    \/ \E f \in ctFonts : DeleteFont(q, f)
    \/ ApplyImport(q) \/ ImportCommit(q)
    \/ ReleaseRead(q) \/ ReleaseUpdate(q) \/ ReleaseCommit(q) \/ ReleaseRaises(q) \/ ReleaseTell(q)

CertificatesSpec == CertificatesInit /\ [][CertificatesNext]_ctVars

-----------------------------------------------------------------------------
CertificatesTypeOK ==
    /\ ctRow \in [here : BOOLEAN, key : Backgrounds \cup {NoKey}, upload : BOOLEAN,
                  fonts : SUBSET Fonts]
    /\ ctFonts \subseteq Fonts /\ ctStore \subseteq ctUsed
    /\ ctUsed \subseteq Fonts \cup Backgrounds
    /\ ctReleased \in BOOLEAN /\ ctLock \in Editors \cup {NoKey}
    /\ ctBell \in Nat /\ ctUntold \in BOOLEAN /\ ctOps \in 0..MaxCertOps /\ ctRaced \in BOOLEAN

Pending(q) ==
    CASE ctReq[q].pc \in {"background", "font"} -> {ctReq[q].key}
      [] ctReq[q].pc = "import" -> ctReq[q].fonts \cup ctReq[q].back
      [] ctReq[q].pc = "drop" -> ctReq[q].keys
      [] OTHER -> {}

(* Whatever order editors replace, import and delete in, no clean-up drops *)
(* an object that is still in use: the template's background and every     *)
(* font row have their bytes.  An element may go on naming a font whose    *)
(* row was deleted; the rendering falls back to a bundled one.             *)
AssetsExist ==
    /\ ctRow.key # NoKey => ctRow.key \in ctStore
    /\ ctFonts \subseteq ctStore

(* An organiser's release racing the tick's creates its notifications      *)
(* once, and certificates never become visible without them.               *)
NotifiedOnce == ctBell = (IF ctReleased THEN 1 ELSE 0)

(* Unless changes overlap, every stored asset is in the design, or about   *)
(* to be, or about to be dropped; a design with an uploaded background has *)
(* one, and the fonts keep to their cap.                                   *)
TidyUnlessRaced ==
    ~ ctRaced => /\ ctStore \subseteq ctFonts \cup {ctRow.key} \cup UNION {Pending(q) : q \in Editors}
                 /\ ctRow.upload => ctRow.key # NoKey
                 /\ Cardinality(ctFonts) <= MaxCustomFonts

CertificatesSafe == AssetsExist /\ NotifiedOnce /\ TidyUnlessRaced

(* The same without the excuse: a superseded background never orphans.     *)
NoOrphanBackground ==
    (\A q \in Editors : ctReq[q].pc = "idle") => ctStore \cap Backgrounds \subseteq {ctRow.key}

(* The background the template names and the fonts the competition lists   *)
(* are stored, the release is told once, and without overlapping changes   *)
(* no object is left over.                                                 *)
CertificateSafe ==
    CertificatesTypeOK /\ CertificatesSafe
=============================================================================
