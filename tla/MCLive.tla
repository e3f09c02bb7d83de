------------------------------- MODULE MCLive -------------------------------
(***************************************************************************)
(* What runs in the background of a live event: sockets and their          *)
(* eviction, presence, automation rules, the status gate, the jobs of the  *)
(* tick, the sandboxes of the judge, the flags of running instances and    *)
(* the requests that answer challenges.  They share no state; the scene    *)
(* says which of them a behaviour is about.                                *)
(***************************************************************************)
EXTENDS Realtime, Automation, CompetitionGate, TickJobs, JudgeSandbox,
        UniqueFlags, FlagGrading, TLC

CONSTANTS s1, s2, s3, w1, w2, q1, q2, q3, ann, bob, Scenes

VARIABLE scene

liveVars == <<scene, rtVars, prVars, auVars, cgVars, tjVars, sbVars, ufVars, gradingVars>>

(* A step of the component on the scene; the others keep their state.      *)
OnSockets(A) == scene = "sockets" /\ A
                /\ UNCHANGED <<scene, prVars, auVars, cgVars, tjVars, sbVars, ufVars, gradingVars>>
OnPresence(A) == scene = "presence" /\ A
                 /\ UNCHANGED <<scene, rtVars, auVars, cgVars, tjVars, sbVars, ufVars, gradingVars>>
OnAutomation(A) == scene = "automation" /\ A
                   /\ UNCHANGED <<scene, rtVars, prVars, cgVars, tjVars, sbVars, ufVars, gradingVars>>
OnGate(A) == scene = "gate" /\ A
             /\ UNCHANGED <<scene, rtVars, prVars, auVars, tjVars, sbVars, ufVars, gradingVars>>
OnJobs(A) == scene = "jobs" /\ A
             /\ UNCHANGED <<scene, rtVars, prVars, auVars, cgVars, sbVars, ufVars, gradingVars>>
OnSandbox(A) == scene = "sandbox" /\ A
                /\ UNCHANGED <<scene, rtVars, prVars, auVars, cgVars, tjVars, ufVars, gradingVars>>
OnFlags(A) == scene = "flags" /\ A
              /\ UNCHANGED <<scene, rtVars, prVars, auVars, cgVars, tjVars, sbVars, gradingVars>>
OnAnswers(A) == scene = "answers" /\ A
                /\ UNCHANGED <<scene, rtVars, prVars, auVars, cgVars, tjVars, sbVars, ufVars>>

(* A component off the scene has one of its initial states, whichever.     *)
LiveInit ==
  /\ scene \in Scenes
  /\ RealtimeInit /\ PresenceInit /\ AutomationInit /\ GateInit /\ TickJobsInit
  /\ SandboxInit /\ UniqueInit /\ GradingInit
  /\ scene # "gate" => cgRow.start = 0 /\ cgRow.end = 0
  /\ scene # "flags" => \A p, q \in FlagPlayers : ufTeam[p] = ufTeam[q]
  /\ scene # "answers" => contest = CHOOSE c \in Contests : TRUE

LiveNext ==
  \/ OnSockets(RealtimeNext) \/ OnPresence(PresenceNext)
  \/ OnAutomation(AutomationNext) \/ OnGate(GateNext)
  \/ OnJobs(TickJobsNext) \/ OnSandbox(SandboxNext)
  \/ OnFlags(UniqueNext) \/ OnAnswers(GradingNext)

(* The fairness of each component, on its own scene.                       *)
LiveFairness ==
  /\ WF_liveVars(OnPresence(StoreStep))
  /\ \A w \in PresWorkers : WF_liveVars(OnPresence(LivenessExpires(w)))
  /\ WF_liveVars(OnAutomation(TaskStep))
  /\ WF_liveVars(OnGate(TickLoads)) /\ WF_liveVars(OnGate(DeleteLoads(Ticker)))
  /\ \A q \in GateSlots : WF_liveVars(OnGate(SlotStep(q)))
  /\ WF_liveVars(OnJobs(TickStep))
  /\ \A j \in Jobs : WF_liveVars(OnJobs(Age(j)))
  /\ WF_liveVars(OnJobs(DeleteRow \/ DeleteJobObjects \/ DeleteCascade))
  /\ \A j \in Tried : WF_liveVars(OnSandbox(DeadlinePassed(j)))
  /\ \A i \in Sweepers : WF_liveVars(OnSandbox(SweepStep(i)))
  /\ \A c \in Claims : /\ WF_liveVars(OnSandbox(ExecStep(c)))
                       /\ SF_liveVars(OnSandbox(BoxAges(c)))
  /\ \A r \in Requests : WF_liveVars(OnAnswers(SubmitFlag(r)))

LiveSpec == LiveInit /\ [][LiveNext]_liveVars

LiveFairSpec == LiveSpec /\ LiveFairness

(* Teams are interchangeable, and so are their players.                    *)
LiveSymmetry == Permutations(FlagTeams) \cup Permutations(FlagPlayers)

SocketHost == s1 :> w1 @@ s2 :> w2

TabHosts == s1 :> w1 @@ s3 :> w1 @@ s2 :> w2

(* A rule that sets itself off, one without an effect on the score, and a  *)
(* time rule with two actions, of which the second leaves its session open.*)
AutoTrigger == [r \in AutoRules |-> IF r = "clock" THEN "time" ELSE "score"]

Act(emits, commits) == [emits |-> emits, commits |-> commits]

AutoActions == [r \in AutoRules |->
  CASE r = "bonus" -> <<Act("score", TRUE)>>
    [] r = "alert" -> <<Act("none", TRUE)>>
    [] r = "clock" -> <<Act("none", TRUE), Act("none", FALSE)>>]

(* Two requests of one subject (and one of another where there are three), *)
(* for a plain flag or for a question with one guess, whose requests queue *)
(* on the subject's lock.                                                  *)
Askers == [r \in Requests |-> IF r = q3 THEN bob ELSE ann]

Questions ==
  {[challenge |-> [scoring |-> "dynamic", points |-> 100, minimum |-> 20, decay |-> 3],
    choice |-> limit # 0, limit |-> limit, penalty |-> 0] : limit \in {0, 1}}

SandboxHome == 1 :> "own"

SandboxTries == 1 :> 2

SandboxOneTry == 1 :> 1

(* Rules fire and count once, and the status gate announces each edge      *)
(* once, keeps what was to be kept and never starts late.                  *)
AutomationSafe ==
  /\ scene = "automation" =>
       AutomationTypeOK /\ TimeRuleOnceUnlessCut /\ CountedUnlessOverlapped
  /\ scene = "gate" => /\ GateTypeOK /\ OnceUnlessRaced /\ FiredIsAnnounced
                       /\ KeptIsNotPurged /\ NoLateStart

(* Reports have their files and files their reports; a sandbox is cut only *)
(* when nobody of its install waits for it, and none is left behind.       *)
JobsSafe ==
  /\ scene = "jobs" => TickJobsTypeOK /\ TickJobsSafe
  /\ scene = "sandbox" => SandboxTypeOK /\ SandboxSafe

(* What has been left is no longer listed, cascades of rules come to rest, *)
(* a reached end closes the gate, every job ends, every container goes and *)
(* every answer is graded, whatever crashed on the way.                    *)
LiveEventually ==
  /\ scene = "presence" => DepartedFades
  /\ scene = "automation" => CascadesEnd
  /\ scene = "gate" => EndCloses
  /\ scene = "jobs" => JobsEnd
  /\ scene = "sandbox" => BoxesGo
  /\ scene = "answers" => Answered
=============================================================================
