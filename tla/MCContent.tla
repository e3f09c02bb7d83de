------------------------------ MODULE MCContent ------------------------------
(***************************************************************************)
(* The content of a competition and the ways into and out of it:           *)
(* challenges, clones, surveys, judge problems, code and the judge's       *)
(* settings and harness, backups and the assistant.  They share no state;  *)
(* the scene says which of them a behaviour is about.                      *)
(***************************************************************************)
EXTENDS ChallengeAuthoring, Cloning, Surveys, ProblemContent, CodeSubmit,
        JudgeHarness, Backup, Assistant, TLC

CONSTANT Scenes

VARIABLE scene

contentVars == <<scene, chVars, clVars, svVars, ctVars, cdVars, jaVars, hnVars,
                 bkVars, aiVars>>

(* One of the jobs the harness may be given.                               *)
AnyJob == [compile |-> TRUE, all |-> TRUE, valid |-> TRUE, mode |-> "float", fold |-> TRUE,
           tests |-> <<TRUE, FALSE>>]

(* A component off the scene has one of its initial states, whichever.     *)
SomeContentInit ==
  /\ scene \in Scenes
  /\ AuthoringInit /\ CloneInit /\ SurveyInit /\ ContentInit
  /\ CodeInit /\ JudgeAdminInit /\ HarnessInit /\ BackupInit /\ AssistantInit
  /\ scene # "code" => \A r \in CodeRequests : cdKind[r] = "run"
  /\ scene # "harness" => hnJob = AnyJob
  /\ scene # "backup" => ~bkAdmin /\ ~bkWide

SomeContentNext ==
  /\ UNCHANGED scene
  /\ \/ /\ scene = "authoring" /\ AuthoringNext
        /\ UNCHANGED <<clVars, svVars, ctVars, cdVars, jaVars, hnVars, bkVars, aiVars>>
     \/ /\ scene = "cloning" /\ CloneNext
        /\ UNCHANGED <<chVars, svVars, ctVars, cdVars, jaVars, hnVars, bkVars, aiVars>>
     \/ /\ scene = "surveys" /\ SurveyNext
        /\ UNCHANGED <<chVars, clVars, ctVars, cdVars, jaVars, hnVars, bkVars, aiVars>>
     \/ /\ scene = "problems" /\ ContentNext
        /\ UNCHANGED <<chVars, clVars, svVars, cdVars, jaVars, hnVars, bkVars, aiVars>>
     \/ /\ scene = "code" /\ CodeNext
        /\ UNCHANGED <<chVars, clVars, svVars, ctVars, jaVars, hnVars, bkVars, aiVars>>
     \/ /\ scene = "settings" /\ JudgeAdminNext
        /\ UNCHANGED <<chVars, clVars, svVars, ctVars, cdVars, hnVars, bkVars, aiVars>>
     \/ /\ scene = "harness" /\ HarnessNext
        /\ UNCHANGED <<chVars, clVars, svVars, ctVars, cdVars, jaVars, bkVars, aiVars>>
     \/ /\ scene = "backup" /\ BackupNext
        /\ UNCHANGED <<chVars, clVars, svVars, ctVars, cdVars, jaVars, hnVars, aiVars>>
     \/ /\ scene = "assistant" /\ AssistantNext
        /\ UNCHANGED <<chVars, clVars, svVars, ctVars, cdVars, jaVars, hnVars, bkVars>>

SomeContentSpec == SomeContentInit /\ [][SomeContentNext]_contentVars

(* Two requests, two challenges or two options can change places.          *)
ContentSymmetry == Permutations(Setters) \cup Permutations(Problems)
                     \cup Permutations(Opts)

(* Both submissions of the survey scene are one competitor's.              *)
OneVoter == [d \in Submits |-> "voter"]

(* The first test hidden, or the second.                                   *)
TestLayouts == {<<TRUE, FALSE>>, <<FALSE, TRUE>>}

(* The comparison that forgives most, and the one that forgives least.     *)
TestComparisons == {<<"float", TRUE>>, <<"exact", FALSE>>}

(* Everything a competition needs, and all of it but roles and rules.      *)
BackupSelections == {{"users", "roles", "competitions", "automations"},
                     {"users", "competitions"}}


(* The judge's side: no edit of test data is lost and no row without its   *)
(* zip, the cap on unfinished code holds and every queued judging has its  *)
(* source, an enabled judge is configured, and the harness judges by the   *)
(* limits and gives nothing of a hidden test away.                         *)
JudgeSideSafe ==
  /\ scene = "problems" => ContentTypeOK /\ ContentSafe
  /\ scene = "code" => CodeTypeOK /\ CodeSafe
  /\ scene = "settings" => JudgeAdminTypeOK /\ ConfiguredUnlessStale
  /\ scene = "harness" => HarnessTypeOK /\ HarnessSafe

(* Restores and conversations: an import leaves nothing dangling, adds to  *)
(* no competition and closes the setup it provisioned; an assistant keeps  *)
(* one thread and one turn, its cap, its scrub and its audit.              *)
TransferSafe ==
  /\ scene = "backup" => BackupTypeOK /\ BackupSafe
  /\ scene = "assistant" => AssistantTypeOK /\ AssistantSafe
=============================================================================
