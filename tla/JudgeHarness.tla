---------------------------- MODULE JudgeHarness ----------------------------
(***************************************************************************)
(* The judge's supervisor inside the container (backend/judge_harness):    *)
(* compile once, run the tests in order, report one result.  A command     *)
(* runs beside a wall-clock timer, a memory watcher and a capped reader of *)
(* its output, each of which may kill it, and may leave a child behind     *)
(* whose work is the submission's too.  Amounts are in units of the        *)
(* smallest step over a limit; command 0 is the compiler, n the n-th test. *)
(***************************************************************************)
EXTENDS Naturals, Sequences

CONSTANTS CpuLimit, OutputLimit, MemoryLimit, \* Limits of a command
          Layouts,           \* test lists: is each test an example?
          Comparisons,       \* compare_mode and case_insensitive of the problems
          MaxWork,           \* bound: steps of work in a command
          MaxHarnessFaults   \* bound: failing system calls and kills from outside

ASSUME HarnessAssumption ==
    {CpuLimit, OutputLimit, MemoryLimit, MaxWork, MaxHarnessFaults} \subseteq Nat

VARIABLES hnJob, hnPc,
          hnAt,      \* the command under way
          hnCmd,     \* its processes and what they used; ghosts: real, all CPU spent, most, the
                     \* largest of its processes, held, all memory and scratch ever taken
          hnFlags,   \* wallTimedOut, outputExceeded, memoryExceeded
          hnScratch, \* scratch in use, and at the command's start
          hnRes, hnFaults,
          hnSeen     \* ghost: a hidden test's input has been given to the submission

hnVars == <<hnJob, hnPc, hnAt, hnCmd, hnFlags, hnScratch, hnRes, hnFaults, hnSeen>>

Contents == {"same", "spaced", "cased", "close", "other"}  \* the output beside the answer
Fresh == [proc |-> "live", kid |-> "none", cpu |-> 0, kidCpu |-> 0, out |-> 0, mem |-> 0, kidMem |-> 0,
          peak |-> 0, work |-> 0, real |-> 0, most |-> 0, held |-> 0]
NoResult == [verdict |-> "none", tests |-> <<>>]

HarnessInit ==
    /\ \E compile, all, valid \in BOOLEAN, cmp \in Comparisons, tests \in Layouts :
         hnJob = [compile |-> compile, all |-> all, valid |-> valid, mode |-> cmp[1],
                  fold |-> cmp[2], tests |-> tests]
    /\ hnPc = "load" /\ hnAt = 0 /\ hnCmd = Fresh /\ hnFlags = {} /\ hnRes = NoResult
    /\ hnScratch = [used |-> 0, base |-> 0] /\ hnFaults = 0 /\ hnSeen = FALSE

HnGoes(pc) == hnPc' = pc
HnReports(verdict) == hnRes' = [hnRes EXCEPT !.verdict = verdict] /\ HnGoes("emit")
Larger(a, b) == IF a < b THEN b ELSE a
HnFault == hnFaults < MaxHarnessFaults /\ hnFaults' = hnFaults + 1

(* loadJob, validate: a job it refuses is an internal error with its nonce.*)
JobLoads ==
    /\ hnPc = "load" /\ hnAt' = IF hnJob.compile THEN 0 ELSE 1
    /\ IF hnJob.valid THEN HnGoes("next") /\ UNCHANGED hnRes ELSE HnReports("internal_error")
    /\ UNCHANGED <<hnJob, hnCmd, hnFlags, hnScratch, hnFaults, hnSeen>>

(* systemRunner.run: leftovers are killed, the limits set, the watchers    *)
(* started; scratch in use already is not this command's.  Tests share it: *)
(* what one was given, the next may know.                                  *)
CommandStarts ==
    /\ hnPc = "next" /\ HnGoes("run") /\ hnCmd' = Fresh /\ hnFlags' = {}
    /\ hnScratch' = [hnScratch EXCEPT !.base = hnScratch.used]
    /\ hnSeen' = (hnSeen \/ (hnAt > 0 /\ ~ hnJob.tests[hnAt]))
    /\ UNCHANGED <<hnJob, hnAt, hnRes, hnFaults>>

-----------------------------------------------------------------------------
(* What the submission's processes do.                                     *)
Alive == hnCmd.proc = "live"
Works(cmd) == /\ hnPc = "run" /\ hnCmd.work < MaxWork
              /\ hnCmd' = [cmd EXCEPT !.work = @ + 1]
              /\ UNCHANGED <<hnJob, hnPc, hnAt, hnFlags, hnRes, hnFaults, hnSeen>>

Burns == Alive /\ Works([hnCmd EXCEPT !.cpu = @ + 1, !.real = @ + 1]) /\ UNCHANGED hnScratch
Forks == Alive /\ hnCmd.kid = "none" /\ Works([hnCmd EXCEPT !.kid = "live"]) /\ UNCHANGED hnScratch
KidBurns == /\ hnCmd.kid = "live" /\ Works([hnCmd EXCEPT !.kidCpu = @ + 1, !.real = @ + 1])
            /\ UNCHANGED hnScratch
KidJoins == /\ Alive /\ hnCmd.kid # "none"
            /\ Works([hnCmd EXCEPT !.kid = "none", !.cpu = @ + hnCmd.kidCpu, !.kidCpu = 0,
                                   !.peak = Larger(@, hnCmd.kidMem), !.kidMem = 0])
            /\ UNCHANGED hnScratch
Prints == (Alive \/ hnCmd.kid = "live") /\ Works([hnCmd EXCEPT !.out = @ + 1]) /\ UNCHANGED hnScratch
Grows == /\ Alive
         /\ Works([hnCmd EXCEPT !.mem = @ + 1, !.most = Larger(@, hnCmd.mem + 1), !.held = @ + 1])
         /\ UNCHANGED hnScratch
KidGrows == /\ hnCmd.kid = "live"
            /\ Works([hnCmd EXCEPT !.kidMem = @ + 1, !.most = Larger(@, hnCmd.kidMem + 1), !.held = @ + 1])
            /\ UNCHANGED hnScratch
WritesScratch == /\ Alive \/ hnCmd.kid = "live"
                 /\ hnScratch.used <= MemoryLimit /\ Works([hnCmd EXCEPT !.held = @ + 1])
                 /\ hnScratch' = [hnScratch EXCEPT !.used = @ + 1]

CommandExits(proc) ==
    /\ hnPc = "run" /\ Alive /\ hnCmd' = [hnCmd EXCEPT !.proc = proc]
    /\ UNCHANGED <<hnJob, hnPc, hnAt, hnFlags, hnScratch, hnRes, hnFaults, hnSeen>>

(* launch: RLIMIT_CPU strikes a step past the limit of the command.        *)
RlimitStrikes == hnCmd.cpu > CpuLimit /\ CommandExits("xcpu")

(* The kernel's OOM killer picks the submission.                           *)
OomStrikes ==
    /\ hnPc = "run" /\ Alive /\ HnFault /\ hnCmd' = [hnCmd EXCEPT !.proc = "kill"]
    /\ UNCHANGED <<hnJob, hnPc, hnAt, hnFlags, hnScratch, hnRes, hnSeen>>

-----------------------------------------------------------------------------
(* killTree.                                                               *)
Killed == [hnCmd EXCEPT !.proc = IF Alive THEN "kill" ELSE @,
                        !.kid = IF @ = "live" THEN "zombie" ELSE @]

(* The wall-clock timer, armed until the command has been waited for.      *)
TimerFires ==
    /\ hnPc = "run" /\ "wall" \notin hnFlags
    /\ hnFlags' = hnFlags \cup {"wall"} /\ hnCmd' = Killed
    /\ UNCHANGED <<hnJob, hnPc, hnAt, hnScratch, hnRes, hnFaults, hnSeen>>

(* The reader is over the cap: a test is killed, a compiler only cut short.*)
ReaderStops ==
    /\ hnPc = "run" /\ "output" \notin hnFlags /\ hnCmd.out > OutputLimit
    /\ hnFlags' = hnFlags \cup {"output"} /\ hnCmd' = IF hnAt = 0 THEN hnCmd ELSE Killed
    /\ UNCHANGED <<hnJob, hnPc, hnAt, hnScratch, hnRes, hnFaults, hnSeen>>

(* The watcher's poll: submissionRSSKB, of every process that is not a     *)
(* zombie, and the growth of scratchUsedKB.                                *)
MemoryUsed == (IF Alive THEN hnCmd.mem ELSE 0) + (IF hnCmd.kid = "live" THEN hnCmd.kidMem ELSE 0)
                  + (hnScratch.used - hnScratch.base)
WatcherStops ==
    /\ hnPc = "run" /\ "memory" \notin hnFlags /\ MemoryUsed > MemoryLimit
    /\ hnFlags' = hnFlags \cup {"memory"} /\ hnCmd' = Killed
    /\ UNCHANGED <<hnJob, hnPc, hnAt, hnScratch, hnRes, hnFaults, hnSeen>>

Reaped_CommandOnly(cmd) == [cpu |-> cmd.cpu, peak |-> Larger(cmd.peak, cmd.mem)]

(* killSubmissionProcesses(true): what is left is killed and reaped, and   *)
(* what it used is the command's: the sum of their times, the largest of   *)
(* their resident sets.                                                    *)
Reaped(cmd) == [cpu |-> cmd.cpu + cmd.kidCpu, peak |-> Larger(Larger(cmd.peak, cmd.mem), cmd.kidMem)]

(* cmd.Wait: the timer and the watcher stop, the rest is reaped, and the   *)
(* reader drains the pipe.                                                 *)
WaitReturns ==
    /\ hnPc = "run" /\ ~ Alive /\ HnGoes("judge")
    /\ hnCmd' = [hnCmd EXCEPT !.cpu = Reaped(hnCmd).cpu, !.peak = Reaped(hnCmd).peak,
                             !.kidCpu = 0, !.kidMem = 0, !.kid = "none"]
    /\ hnFlags' = hnFlags \cup {f \in {"output"} : hnCmd.out > OutputLimit}
    /\ UNCHANGED <<hnJob, hnAt, hnScratch, hnRes, hnFaults, hnSeen>>

-----------------------------------------------------------------------------
(* The compile step's verdict; its output is cut, which is no failure.     *)
CompileJudged ==
    /\ hnPc = "judge" /\ hnAt = 0
    /\ IF "wall" \in hnFlags \/ hnCmd.cpu > CpuLimit \/ "memory" \in hnFlags \/ hnCmd.proc # "exit0"
       THEN HnReports("compile_error") /\ UNCHANGED hnAt
       ELSE HnGoes("next") /\ hnAt' = 1 /\ UNCHANGED hnRes
    /\ UNCHANGED <<hnJob, hnCmd, hnFlags, hnScratch, hnFaults, hnSeen>>

(* classify: a submission killed for its time is a time limit, although it *)
(* died of a signal.                                                       *)
Classify ==
    CASE \/ "wall" \in hnFlags \/ hnCmd.cpu > CpuLimit \/ hnCmd.proc = "xcpu"
         \/ hnCmd.proc = "kill" /\ hnCmd.cpu >= CpuLimit -> "time_limit"
      [] OTHER -> IF "output" \in hnFlags THEN "output_limit"
                  ELSE IF "memory" \in hnFlags \/ hnCmd.peak > MemoryLimit THEN "memory_limit"
                  ELSE IF hnCmd.proc # "exit0" THEN "runtime_error" ELSE "accepted"

(* compareOutput.                                                          *)
Matching == {"same"} \cup (IF hnJob.mode = "exact" THEN {} ELSE {"spaced"})
                     \cup (IF hnJob.mode = "float" THEN {"close"} ELSE {})
                     \cup (IF hnJob.fold THEN {"cased"} ELSE {})

(* job_document: the leading run of examples.                              *)
ShowsOutput(n) == \A k \in 1..n : hnJob.tests[k]

(* runTest, and the loop of judge().                                       *)
TestJudged(content) ==
    LET c == Classify
        v == IF c = "accepted" /\ content \notin Matching THEN "wrong_answer" ELSE c
        first == IF hnRes.verdict = "none" /\ v # "accepted" THEN v ELSE hnRes.verdict
        over == hnAt = Len(hnJob.tests) \/ (v # "accepted" /\ ~ hnJob.all) IN
    /\ hnPc = "judge" /\ hnAt > 0 /\ (c # "accepted" => content = "other")
    /\ hnRes' = [verdict |-> IF over /\ first = "none" THEN "accepted" ELSE first,
                 tests |-> Append(hnRes.tests, [verdict |-> v, shown |-> ShowsOutput(hnAt), knew |-> hnSeen,
                                                match |-> content \in Matching])]
    /\ IF over THEN HnGoes("emit") /\ UNCHANGED hnAt ELSE HnGoes("next") /\ hnAt' = hnAt + 1
    /\ UNCHANGED <<hnJob, hnCmd, hnFlags, hnScratch, hnFaults, hnSeen>>

(* A pipe, a start, a test's file fails: an internal error, not a verdict. *)
HarnessFails ==
    /\ hnPc \in {"next", "judge"} /\ HnFault /\ HnReports("internal_error")
    /\ UNCHANGED <<hnJob, hnAt, hnCmd, hnFlags, hnScratch, hnSeen>>

HarnessEmits ==
    /\ hnPc = "emit" /\ HnGoes("done")
    /\ UNCHANGED <<hnJob, hnAt, hnCmd, hnFlags, hnScratch, hnRes, hnFaults, hnSeen>>

HarnessNext ==
    \/ JobLoads \/ CommandStarts
    \/ Burns \/ Forks \/ KidBurns \/ KidJoins \/ Prints \/ Grows \/ KidGrows \/ WritesScratch
    \/ \E proc \in {"exit0", "exit1", "signal"} : CommandExits(proc)
    \/ RlimitStrikes \/ OomStrikes \/ TimerFires \/ ReaderStops \/ WatcherStops \/ WaitReturns
    \/ CompileJudged \/ \E content \in Contents : TestJudged(content)
    \/ HarnessFails \/ HarnessEmits

HarnessSpec == HarnessInit /\ [][HarnessNext]_hnVars

-----------------------------------------------------------------------------
(* The job's steps, flags and results are of the shape of the code.        *)
HarnessTypeOK ==
    /\ hnPc \in {"load", "next", "run", "judge", "emit", "done"} /\ hnAt \in 0..Len(hnJob.tests)
    /\ hnFlags \subseteq {"wall", "output", "memory"} /\ hnScratch.base <= hnScratch.used
    /\ Len(hnRes.tests) <= Len(hnJob.tests)

Last == hnRes.tests[Len(hnRes.tests)]
JustJudged == /\ hnPc \in {"next", "emit"} /\ hnRes.tests # <<>>
              /\ Len(hnRes.tests) = IF hnPc = "next" THEN hnAt - 1 ELSE hnAt
Within == hnCmd.real <= CpuLimit /\ hnCmd.out <= OutputLimit /\ hnCmd.held <= MemoryLimit

(* Whichever of the watchers was late, an accepted test kept to its CPU    *)
(* time, the children it left behind included, and to its output, and each *)
(* of its processes to the memory limit.  (Several processes, or files in  *)
(* scratch, that pass the limit together between two polls go unnoticed.)  *)
AcceptedWithinLimits ==
    JustJudged /\ Last.verdict = "accepted" =>
        hnCmd.real <= CpuLimit /\ hnCmd.out <= OutputLimit /\ hnCmd.most <= MemoryLimit

(* A test that kept to its limits is not blamed for them, and accepted if  *)
(* it ended well and in time and printed what the comparison allows:       *)
(* nothing an earlier command left in the scratch space counts.            *)
SoundIsAccepted ==
    JustJudged /\ Within /\ "wall" \notin hnFlags =>
        /\ Last.verdict \notin {"output_limit", "memory_limit"}
        /\ hnCmd.proc = "exit0" /\ Last.match => Last.verdict = "accepted"

(* The verdict is the first failure's, and accepted only after every test. *)
FirstFailureRules ==
    hnPc = "done" /\ hnRes.verdict \notin {"internal_error", "compile_error"} =>
        LET bad == {n \in DOMAIN hnRes.tests : hnRes.tests[n].verdict # "accepted"} IN
        IF bad = {} THEN hnRes.verdict = "accepted" /\ Len(hnRes.tests) = Len(hnJob.tests)
        ELSE \E n \in bad : (\A k \in bad : n <= k) /\ hnRes.verdict = hnRes.tests[n].verdict

(* No output comes back from a test by whose end the submission had been   *)
(* given a hidden input, in that test or, through scratch, in one that ran *)
(* before it, whatever stopped the run or let it go on.                    *)
HiddenStaysHidden == \A n \in DOMAIN hnRes.tests : hnRes.tests[n].shown => ~ hnRes.tests[n].knew

HarnessSafe == AcceptedWithinLimits /\ SoundIsAccepted /\ FirstFailureRules /\ HiddenStaysHidden
=============================================================================
