------------------------------- MODULE Backup -------------------------------
(***************************************************************************)
(* Export and import of a whole install (utils/backup.py, the routes in    *)
(* routers/site_settings.py and the first-start import of                  *)
(* utils/bootstrap.py).  The tables are one of each kind in SPECS, with    *)
(* one row each, which is named by its table.  An export reads them one    *)
(* after the other while the source goes on changing; an import takes the  *)
(* rows in the order of SPECS, maps references through the ids it made or  *)
(* found, stores objects on the way, and commits once.                     *)
(***************************************************************************)
EXTENDS Naturals, Sequences, FiniteSets

CONSTANTS Importers,        \* imports in flight
          Selections,       \* choices of sections tried
          MaxSourceChanges, \* bound: rows added or deleted during an export
          MaxBackupCrashes, \* bound: processes dying in an import
          NoImporter

ASSUME BackupAssumption == /\ {MaxSourceChanges, MaxBackupCrashes} \subseteq Nat
                           /\ NoImporter \notin Importers

VARIABLES bkSrc,     \* rows of the source install
          bkDoc,     \* the document: rows, the file's bytes, and the adjustment's rule
          bkAt,      \* next table the export reads
          bkDst,     \* target: table -> rows, each with its maker
          bkWide,    \* the target's own role of that name holds more than an importer may give
          bkStore,   \* imports whose object is stored
          bkImp, bkBoot,
          bkSetup,   \* setup_completed_at is set
          bkAdmin,   \* an administrator was there before any import
          bkChanges, bkCrashes,
          bkRaced    \* ghost: two imports overlapped

bkVars == <<bkSrc, bkDoc, bkAt, bkDst, bkWide, bkStore, bkImp, bkBoot, bkSetup,
            bkAdmin, bkChanges, bkCrashes, bkRaced>>

(* SPECS, with the references a row cannot do without.  Order matters: a   *)
(* table's referenced entities must be imported before it.                 *)
Specs == << "users", "roles", "competitions", "challenges", "files", "solves", "adjustments",
            "assignments", "rules" >>
Tables == {Specs[n] : n \in DOMAIN Specs}
Required(t) ==
    CASE t \in {"users", "roles", "competitions"} -> {}
      [] t \in {"challenges", "adjustments", "rules"} -> {"competitions"}
      [] t = "files" -> {"competitions", "challenges"}
      [] t = "solves" -> {"competitions", "challenges", "users"}
      [] t = "assignments" -> {"users", "roles"}
OwnedByCompetition == {"challenges", "files", "solves", "adjustments"}
NaturalKeys == {"users", "roles", "competitions", "assignments", "rules"}
UniqueInDatabase == {"users", "roles"}
SectionOf(t) == CASE t \in {"roles", "assignments"} -> "roles"
                  [] t = "users" -> "users" [] t = "rules" -> "automations"
                  [] OTHER -> "competitions"

IdleImport == [pc |-> "idle", pos |-> 1, pick |-> {}, boot |-> FALSE, may |-> FALSE,
               map |-> {}, made |-> {}, kept |-> FALSE, left |-> FALSE]
LocalRow == [by |-> NoImporter, kept |-> TRUE]

BackupInit ==
    /\ bkSrc = Tables /\ bkDoc = [rows |-> {}, bytes |-> FALSE, rule |-> FALSE] /\ bkAt = 1
    /\ bkAdmin \in BOOLEAN
    /\ \E own \in IF bkAdmin THEN {{}, {"roles"}, {"users", "competitions"}} ELSE {{}} :
         bkDst = [t \in Tables |-> IF t \in own THEN {LocalRow} ELSE {}]
    /\ bkWide \in BOOLEAN /\ (bkWide => bkDst["roles"] # {})
    /\ bkStore = {} /\ bkImp = [i \in Importers |-> IdleImport] /\ bkBoot = NoImporter
    /\ bkSetup = bkAdmin /\ bkChanges = 0 /\ bkCrashes = 0 /\ bkRaced = FALSE

Exporting == bkAt <= Len(Specs)
Source == UNCHANGED <<bkSrc, bkDoc, bkAt, bkChanges>>
Target == UNCHANGED <<bkDst, bkWide, bkStore, bkImp, bkBoot, bkSetup, bkAdmin, bkCrashes, bkRaced>>

-----------------------------------------------------------------------------
(* The source goes on: a row with its references appears, a row and what   *)
(* hangs on it goes.                                                       *)
RowAdded(t) ==
    /\ Exporting /\ bkChanges < MaxSourceChanges /\ bkChanges' = bkChanges + 1
    /\ t \notin bkSrc /\ Required(t) \subseteq bkSrc
    /\ bkSrc' = bkSrc \cup {t}
    /\ UNCHANGED <<bkDoc, bkAt>> /\ Target

RowDeleted(t) ==
    /\ Exporting /\ bkChanges < MaxSourceChanges /\ bkChanges' = bkChanges + 1
    /\ t \in bkSrc
    /\ bkSrc' = {s \in bkSrc : s # t /\ t \notin Required(s)
                                /\ \A q \in Required(s) : t \notin Required(q)}
    /\ UNCHANGED <<bkDoc, bkAt>> /\ Target

(* export_data: one SELECT per table, no snapshot over them; an object     *)
(* that cannot be fetched leaves its row without bytes.                    *)
ExportTable ==
    LET t == Specs[bkAt]
        here == t \in bkSrc IN
    /\ Exporting /\ bkAt' = bkAt + 1
    /\ \E bytes \in BOOLEAN :
         /\ bytes => t = "files" /\ here
         /\ bkDoc' = [rows |-> bkDoc.rows \cup {s \in {t} : here},
                      bytes |-> bkDoc.bytes \/ bytes,
                      rule |-> bkDoc.rule \/ (t = "adjustments" /\ here /\ "rules" \in bkSrc)]
    /\ UNCHANGED <<bkSrc, bkChanges>> /\ Target

-----------------------------------------------------------------------------
ImpGoes(i, pc) == bkImp' = [bkImp EXCEPT ![i].pc = pc]
HasAdmin == bkAdmin \/ bkDst["assignments"] # {}
ImpOver(i) == [IdleImport EXCEPT !.pc = "done", !.boot = bkImp[i].boot]

(* The import route: whoever may import the sections, with or without the  *)
(* permissions that the document's roles and triggers carry.               *)
ImportBegins(i, S, may) ==
    /\ ~ Exporting /\ bkImp[i].pc = "idle" /\ HasAdmin
    /\ bkImp' = [bkImp EXCEPT ![i] = [IdleImport EXCEPT !.pc = "rows", !.pick = S, !.may = may]]
    /\ bkRaced' = (bkRaced \/ \E j \in Importers : bkImp[j].pc \in {"rows", "insert"})
    /\ UNCHANGED <<bkDst, bkWide, bkStore, bkBoot, bkSetup, bkAdmin, bkCrashes>> /\ Source

(* run_bootstrap_import, in every worker that starts: only on an install   *)
(* without an administrator.                                               *)
BootBegins(i) ==
    /\ ~ Exporting /\ bkImp[i].pc = "idle" /\ ~ HasAdmin
    /\ bkImp' = [bkImp EXCEPT ![i] = [IdleImport EXCEPT !.pc = "lock", !.boot = TRUE,
                                          !.pick = {SectionOf(t) : t \in Tables}, !.may = TRUE]]
    /\ UNCHANGED <<bkDst, bkWide, bkStore, bkBoot, bkSetup, bkAdmin, bkCrashes, bkRaced>> /\ Source

(* The advisory lock, and the gate again.                                  *)
BootLocks(i) ==
    /\ bkImp[i].pc = "lock" /\ bkBoot = NoImporter
    /\ IF HasAdmin THEN bkImp' = [bkImp EXCEPT ![i] = ImpOver(i)] /\ UNCHANGED <<bkBoot, bkRaced>>
       ELSE /\ bkBoot' = i /\ ImpGoes(i, "rows")
            /\ bkRaced' = (bkRaced \/ \E j \in Importers : bkImp[j].pc \in {"rows", "insert"})
    /\ UNCHANGED <<bkDst, bkWide, bkStore, bkSetup, bkAdmin, bkCrashes>> /\ Source

(* _assert_import_within_grant: roles, assignments of a role as it is in   *)
(* the target, and the triggers of rules.                                  *)
Excess(t, r) ==
    /\ ~ r.may
    /\ \/ t \in {"roles", "rules"}
       \/ t = "assignments" /\ ("roles" \in r.made \/ bkWide)

(* What becomes of the next row of the document.                           *)
Found(t) == t \in NaturalKeys /\ bkDst[t] # {}
(* _validate_attachment_row: a file is kept only with its own bytes.       *)
OwnObject(t) == t = "files" => bkDoc.bytes
Skipped(t, r) ==
    \/ t \notin bkDoc.rows \/ SectionOf(t) \notin r.pick
    \/ t \in OwnedByCompetition /\ "competitions" \in r.map \ r.made
    \/ ~ (Required(t) \subseteq r.map)
    \/ ~ OwnObject(t)

Unwound(i) == /\ bkImp' = [bkImp EXCEPT ![i] = ImpOver(i)]
              /\ bkBoot' = IF bkBoot = i THEN NoImporter ELSE bkBoot

(* import_data: everything is rolled back and the objects stored so far    *)
(* are deleted; a delete that fails leaves its object behind.              *)
Rejects(i) ==
    /\ bkBoot' = IF bkBoot = i THEN NoImporter ELSE bkBoot
    /\ \E left \in BOOLEAN :
         /\ left => i \in bkStore
         /\ bkImp' = [bkImp EXCEPT ![i] = [ImpOver(i) EXCEPT !.left = left]]
         /\ bkStore' = IF left THEN bkStore ELSE bkStore \ {i}
    /\ UNCHANGED bkRaced

(* The row, its object and its id: what the rest of the import maps to.    *)
Inserts(i) ==
    LET r == bkImp[i]
        t == Specs[r.pos] IN
    /\ bkImp' = [bkImp EXCEPT ![i].pc = "rows", ![i].pos = @ + 1, ![i].map = @ \cup {t},
                    ![i].made = @ \cup {t},
                    ![i].kept = @ \/ (t = "adjustments" /\ "rules" \in r.map)]
    /\ bkStore' = bkStore \cup {j \in {i} : t = "files"}
    /\ UNCHANGED <<bkBoot, bkRaced>>

(* Another import's uncommitted row has the same unique key.               *)
Blocked(i, t) == t \in UniqueInDatabase /\ \E j \in Importers \ {i} : t \in bkImp[j].made

(* One turn of the loop.                                                   *)
ImportRow(i) ==
    LET r == bkImp[i]
        t == Specs[r.pos] IN
    /\ r.pc = "rows" /\ r.pos <= Len(Specs)
    /\ IF Skipped(t, r)
       THEN bkImp' = [bkImp EXCEPT ![i].pos = @ + 1] /\ UNCHANGED <<bkStore, bkBoot, bkRaced>>
       ELSE IF Found(t)
       THEN /\ bkImp' = [bkImp EXCEPT ![i].pos = @ + 1, ![i].map = @ \cup {t}]
            /\ UNCHANGED <<bkStore, bkBoot, bkRaced>>
       ELSE IF Excess(t, r) THEN Rejects(i)
       ELSE IF Blocked(i, t) THEN ImpGoes(i, "insert") /\ UNCHANGED <<bkStore, bkBoot, bkRaced>>
       ELSE Inserts(i)
    /\ UNCHANGED <<bkDst, bkWide, bkSetup, bkAdmin, bkCrashes>> /\ Source

(* The insert waits for the other import, and fails when that commits.     *)
InsertResumes(i) ==
    LET t == Specs[bkImp[i].pos] IN
    /\ bkImp[i].pc = "insert" /\ ~ Blocked(i, t)
    /\ IF bkDst[t] # {} THEN Rejects(i) ELSE Inserts(i)
    /\ UNCHANGED <<bkDst, bkWide, bkSetup, bkAdmin, bkCrashes>> /\ Source

(* The tables whose rows are held to what their routes accept: registration*)
(* fields with the competition, deployments and judge problems with the    *)
(* challenge, and rules.  A row that is not refuses the whole document.    *)
Validated == {"competitions", "challenges", "rules"}
RowRefused(i) ==
    LET r == bkImp[i] IN
    /\ r.pc = "rows" /\ r.pos <= Len(Specs)
    /\ Specs[r.pos] \in Validated /\ ~ Skipped(Specs[r.pos], r) /\ ~ Found(Specs[r.pos])
    /\ Rejects(i)
    /\ UNCHANGED <<bkDst, bkWide, bkSetup, bkAdmin, bkCrashes>> /\ Source

ImportFails_KeepsObjects(i) ==
    /\ bkImp[i].pc = "rows" /\ Unwound(i) /\ UNCHANGED bkStore
    /\ UNCHANGED <<bkDst, bkWide, bkSetup, bkAdmin, bkCrashes, bkRaced>> /\ Source

(* A put or the commit fails.                                              *)
ImportFails(i) ==
    /\ bkImp[i].pc = "rows" /\ Rejects(i)
    /\ UNCHANGED <<bkDst, bkWide, bkSetup, bkAdmin, bkCrashes>> /\ Source

ImportCommits(i) ==
    LET r == bkImp[i] IN
    /\ r.pc = "rows" /\ r.pos > Len(Specs)
    /\ bkDst' = [t \in Tables |-> bkDst[t] \cup
                    {[by |-> i, kept |-> t = "adjustments" => r.kept = bkDoc.rule] : x \in {t} \cap r.made}]
    /\ IF r.boot THEN ImpGoes(i, "mark") ELSE bkImp' = [bkImp EXCEPT ![i] = ImpOver(i)]
    /\ bkBoot' = IF bkBoot = i THEN NoImporter ELSE bkBoot
    /\ UNCHANGED <<bkWide, bkStore, bkSetup, bkAdmin, bkCrashes, bkRaced>> /\ Source

(* mark_setup_complete, in a transaction of its own.                       *)
BootMarks(i) ==
    /\ bkImp[i].pc = "mark" /\ bkImp' = [bkImp EXCEPT ![i] = ImpOver(i)]
    /\ bkSetup' = (bkSetup \/ HasAdmin)
    /\ UNCHANGED <<bkDst, bkWide, bkStore, bkBoot, bkAdmin, bkCrashes, bkRaced>> /\ Source

ImporterDies(i) ==
    /\ bkImp[i].pc \notin {"idle", "done"} /\ bkCrashes < MaxBackupCrashes /\ bkCrashes' = bkCrashes + 1
    /\ Unwound(i)
    /\ UNCHANGED <<bkDst, bkWide, bkStore, bkSetup, bkAdmin, bkRaced>> /\ Source

BackupNext ==
    \/ \E t \in Tables : RowAdded(t) \/ RowDeleted(t)
    \/ ExportTable
    \/ \E i \in Importers :
         \/ \E S \in Selections, may \in BOOLEAN : ImportBegins(i, S, may)
         \/ BootBegins(i) \/ BootLocks(i) \/ ImportRow(i) \/ InsertResumes(i) \/ RowRefused(i) \/ ImportFails(i)
         \/ ImportCommits(i) \/ BootMarks(i) \/ ImporterDies(i)

BackupSpec == BackupInit /\ [][BackupNext]_bkVars

-----------------------------------------------------------------------------
(* Documents, imports and the target are of the shape of the code.         *)
BackupTypeOK ==
    /\ bkSrc \subseteq Tables /\ bkDoc.rows \subseteq Tables /\ bkAt \in 1..(Len(Specs) + 1)
    /\ \A t \in Tables : \A x \in bkDst[t] : x.by \in Importers \cup {NoImporter}
    /\ bkStore \subseteq Importers
    /\ \A i \in Importers : /\ bkImp[i].pos \in 1..(Len(Specs) + 1)
                            /\ bkImp[i].made \subseteq bkImp[i].map /\ bkImp[i].map \subseteq Tables

MadeBy(i) == {t \in Tables : \E x \in bkDst[t] : x.by = i}

(* What a table cannot do without is in the target with it, although the   *)
(* document may hold rows whose references were read too early.            *)
NothingDangles == \A t \in Tables : bkDst[t] # {} => \A q \in Required(t) : bkDst[q] # {}

(* Nothing is added to a competition that was there before: what it owns   *)
(* comes with the competition, or not at all.                              *)
CompetitionsComeWhole ==
    \A i \in Importers : MadeBy(i) \cap OwnedByCompetition # {} => "competitions" \in MadeBy(i)

(* A file in the target has its object, and a failed import leaves nothing *)
(* in the store, unless the process died or the store refused the delete.  *)
ObjectsMatchRows ==
    /\ \A i \in Importers : "files" \in MadeBy(i) => i \in bkStore
    /\ bkCrashes = 0 => \A i \in bkStore : bkImp[i].left \/ "files" \in MadeBy(i) \cup bkImp[i].made

(* One row per natural key, whichever workers started together, unless two *)
(* imports of the route overlapped.                                        *)
OneOfEachUnlessRaced == ~ bkRaced => \A t \in NaturalKeys : Cardinality(bkDst[t]) <= 1

(* An import that provisioned an administrator closes the setup, unless    *)
(* the process died between its two commits.                               *)
SetupClosedUnlessCut ==
    bkCrashes = 0 => \A i \in Importers :
        bkImp[i].pc = "done" /\ bkImp[i].boot /\ "assignments" \in MadeBy(i) => bkSetup

BackupSafe == /\ NothingDangles /\ CompetitionsComeWhole /\ ObjectsMatchRows
              /\ OneOfEachUnlessRaced /\ SetupClosedUnlessCut

(* Every reference whose row the document holds survives the restore       *)
(* (violated: rules come after the adjustments that name them).            *)
ReferencesSurvive ==
    \A t \in Tables : \A x \in bkDst[t] : "rules" \in MadeBy(x.by) => x.kept
=============================================================================
