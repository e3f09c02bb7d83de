---------------------------- MODULE MCInstances ----------------------------
(***************************************************************************)
(* Challenge instances from the launch to the last object at the runtime:  *)
(* the admission of launches under the caps, the life of a row against     *)
(* kills, the reaper and crashes, the calls a provisioner makes, and the   *)
(* connection test of an administrator.  The scene says which of them a    *)
(* behaviour is about; they share no state.                                *)
(***************************************************************************)
EXTENDS InstanceLifecycle, InstanceAdmission, Backends, TLC

CONSTANTS l1, l2, l3, l4, l5, l6, ann, bob, web, pwn, rev, Scenes

VARIABLE scene

runtimeVars == <<scene, vars, lifeVars, bkVars, tcVars>>

OnAdmission(A) == scene = "admission" /\ A /\ UNCHANGED <<scene, lifeVars, bkVars, tcVars>>
OnLife(A) == scene = "life" /\ A /\ UNCHANGED <<scene, vars, bkVars, tcVars>>
OnBackends(A) == scene = "backends" /\ A /\ UNCHANGED <<scene, vars, lifeVars, tcVars>>
OnTest(A) == scene = "test" /\ A /\ UNCHANGED <<scene, vars, lifeVars, bkVars>>

(* A component off the scene has one of its initial states, whichever.     *)
RuntimeInit ==
  /\ scene \in Scenes
  /\ Init /\ LifeInit /\ BackendsInit /\ TestConnectionInit
  /\ scene # "backends" => bkSpec = [kind |-> "docker", exposure |-> "tcp"]
  /\ scene # "test" => tcKind = "docker" /\ tcWorld = Sound

RuntimeNext == \/ OnAdmission(Next) \/ OnLife(LifeNext)
               \/ OnBackends(BackendsNext) \/ OnTest(TestConnectionNext)

(* The fairness of each component, on its own scene.                       *)
RuntimeFairness ==
  /\ \A i \in Instances : /\ WF_runtimeVars(OnLife(Provision(i)))
                          /\ WF_runtimeVars(OnLife(LifetimeEnds(i)))
                          /\ WF_runtimeVars(OnLife(Ages(i)))
                          /\ WF_runtimeVars(OnLife(ExtendWrite(i)))
  /\ \A t \in Killers \cup {Reaper} : WF_runtimeVars(OnLife(RunTeardown(t)))
  /\ WF_runtimeVars(OnLife(ReapInstances))
  /\ WF_runtimeVars(OnBackends(ProvStep)) /\ WF_runtimeVars(OnBackends(TickStep))
  /\ WF_runtimeVars(OnBackends(PodReady)) /\ WF_runtimeVars(OnBackends(PodEnds))
  /\ WF_runtimeVars(OnBackends(StuckFails))

RuntimeSpec == RuntimeInit /\ [][RuntimeNext]_runtimeVars

RuntimeFairSpec == RuntimeSpec /\ RuntimeFairness

(* The connection tests are interchangeable.                               *)
TesterSymmetry == Permutations(Testers)

(* Four launches of one subject over three challenges, two of another.     *)
Who == l1 :> ann @@ l2 :> ann @@ l3 :> ann @@ l4 :> ann @@ l5 :> bob @@ l6 :> bob

What == l1 :> web @@ l2 :> web @@ l3 :> pwn @@ l4 :> rev @@ l5 :> web @@ l6 :> rev

(* A service with one TCP port, one with two, and one with none: each of   *)
(* the caps and the port range is the one that refuses somebody.           *)
HowMany == [l \in Launches |-> CASE What[l] = web -> 1
                                 [] What[l] = pwn -> 2
                                 [] What[l] = rev -> 0]

(* The runtime's objects and the connection tests keep their shape; a pod  *)
(* has its policy before it runs; what an ended row leaves can be seen by  *)
(* the sweep; and the connection test certifies only what is so and leaves *)
(* nothing.                                                                *)
RuntimeSafe ==
  /\ scene = "backends" => BackendsTypeOK /\ PodIsIsolated /\ RestIsVisible
  /\ scene = "test" => /\ TestConnectionTypeOK
                       /\ PassIsEarned /\ SoundPasses /\ ProbesAreCleaned

(* Every launched instance ends and is cleaned up, and no object of an     *)
(* ended one stays, whatever calls failed and processes died on the way.   *)
RuntimeEnds == /\ scene = "life" => EverythingEnds
               /\ scene = "backends" => EndedIsRemoved
=============================================================================
