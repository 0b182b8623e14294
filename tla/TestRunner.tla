----------------------------- MODULE TestRunner -----------------------------
(***************************************************************************)
(* `turfc --test` (src/tooling/TestRunner.cpp): a pool of threads takes    *)
(* the test files from an atomic counter, compiles each, runs what it      *)
(* compiled, and judges; the results give the exit status.  A signal       *)
(* handler raises g_Interrupted at any moment.                             *)
(*                                                                         *)
(* A step of a worker goes from one call that takes time (RunProcess, the  *)
(* mutex, the analysis) to the next.  What a call returns is ProcessCall's *)
(* promise, which RunProcess implements.                                   *)
(*                                                                         *)
(* A test file is a record:                                                *)
(*   kind   "plain", "fail" (fail_*.tr), "abort" (fail_*.tr that asks for  *)
(*          a runtime abort) or "functions" (declares @test functions)     *)
(*   pins   it pins what it expects to read in the output (EXPECT-...)     *)
(*   fixes  the compiler prints fixes, which are to be tried               *)
(*   cases  the outcomes its @test functions expect, in order; there may   *)
(*          be none, since the runner only looks for a line with @test      *)
(*   main   it has a main to be run as well                                *)
(***************************************************************************)
EXTENDS Integers, Sequences, FiniteSets, SequencesExt

CONSTANTS
    Suites,      \* bound: the sequences of test files that may be run
    Worker       \* the threads of the pool

ASSUME WorkerAssumption == Worker # {}

Outcome == {"compile_error", "panic", "exit", "error", "returns"}
TestFile ==
    [kind : {"plain", "fail", "abort", "functions"}, pins : BOOLEAN,
     fixes : BOOLEAN, cases : Seq(Outcome), main : BOOLEAN]

ASSUME SuiteAssumption == Suites \subseteq Seq(TestFile)

VARIABLES
    suite,        \* Tests_: the files in input order
    next,         \* Next: the index the next worker takes
    worker,       \* where each thread is, and with what
    results,      \* Results: of each file, its results in order
    reported,     \* the files whose results are in
    mutex,        \* AnalysisMu: its holder
    interrupted,  \* g_Interrupted
    exit          \* what RunTests returned

vars == <<suite, next, worker, results, reported, mutex, interrupted, exit>>

Nobody == "nobody"
NoExit == -1
Panic == 134      \* 128 + SIGABRT
Crash == 139      \* 128 + SIGSEGV

(***************************************************************************)
(* What compilers and programs do.  A body that returns, or returns an     *)
(* error, prints so on a line of its own (EmitTestHarness) before the      *)
(* program ends; one that hangs may have printed it.                       *)
(***************************************************************************)
Call == INSTANCE ProcessCall WITH
    OwnStatus <- {0, 1, 7, Panic, Crash},
    phase <- 0, ended <- 0, expired <- 0, result <- 0

\* The results a RunProcess that returns now may have: pipe, fork, chdir or
\* exec may have failed too.
CallResults == Call!Results(TRUE, interrupted)

Started(r) == r.status # Call!NotStarted

\* What a body printed about its own end.
Report == {"nothing", "returned", "error"}

\* A call of a test program: its result, and how the body of it ended.  Only
\* a program that ran says that its body returned, and after saying so it does
\* not panic.
BodyCalls ==
    {[r |-> r, report |-> p] : r \in CallResults, p \in Report} \
        {[r |-> r, report |-> p] :
            r \in {r \in CallResults :
                     r.status \in {Call!NotStarted, Panic, Crash, 7}},
            p \in {"returned", "error"}}

\* The output holds what a test pins: never that of a process not started.
PinsMet(t, r) ==
    IF t.pins THEN IF Started(r) THEN BOOLEAN ELSE {FALSE} ELSE {TRUE}

(***************************************************************************)
(* Judging.  A result is whether the test passed and, for the properties,  *)
(* whether it then deserved to and whether what was judged had started.    *)
(***************************************************************************)
VerdictType == [pass : BOOLEAN, earned : BOOLEAN, started : BOOLEAN]

Failed == [pass |-> FALSE, earned |-> FALSE, started |-> TRUE]
Verdict(passed, deserved, started) ==
    IF passed THEN [pass |-> TRUE, earned |-> deserved, started |-> started]
    ELSE Failed

\* The end of runFile: the program ran with result r.
JudgePlain(r, met) ==
    LET slow == r.timedOut \/ r.status \in {137, 143, 211}
    IN Verdict(met /\ ~slow /\ r.status = 0, r.status = 0, Started(r))

\* fail_*.tr with RUNTIME_ABORT_EXPECTED.  It deserves to pass if the program
\* ran and stopped by itself with an error.
JudgeAbort(r, met) ==
    Verdict(r.status \notin {0, 137, 143} /\ met,
            r.status \in {1, 7, Panic, Crash}, Started(r))

\* Mutant: any status but 0 is a rejection.
JudgeNonZero(c, met) ==
    Verdict(c.status # 0 /\ met, c.status \in {1, 7}, Started(c))

\* Another fail_*.tr: before its fixes are tried.  It deserves to pass if the
\* compiler ran to its end and rejected the program.
JudgeRejection(c, met) ==
    Verdict(c.status # 0 /\ c.status < 128 /\ met, c.status \in {1, 7}, Started(c))

\* JudgeRun: whether a body that expects `outcome` ended so.
JudgeRun(outcome, c) ==
    /\ ~c.r.timedOut
    /\ \/ outcome = "panic" /\ c.report = "nothing" /\ c.r.status = Panic
       \/ outcome = "exit" /\ c.report = "nothing" /\ c.r.status = 7
       \/ outcome = "error" /\ c.report = "error"
       \/ outcome = "returns" /\ c.report = "returned"

\* It deserves to pass if its body really ended so, which a program that never
\* started or was stopped before its body ended does not show.
Deserves(outcome, c) ==
    \/ outcome = "panic" /\ c.r.status = Panic
    \/ outcome = "exit" /\ c.r.status = 7
    \/ outcome = "error" /\ c.report = "error"
    \/ outcome = "returns" /\ c.report = "returned"

\* judgeTestFunction: a body that is expected not to compile is judged by the
\* manifest alone, another one by a run of its own, unless the manifest has a
\* warning against it or no entry to run.
CaseVerdicts(outcome) ==
    IF outcome = "compile_error"
      THEN {Verdict(b, b, TRUE) : b \in BOOLEAN}
      ELSE {Failed} \cup
           {Verdict(JudgeRun(outcome, c), Deserves(outcome, c), Started(c.r)) :
              c \in BodyCalls}

(***************************************************************************)
(* The workers                                                             *)
(***************************************************************************)
Idle == [at |-> "idle", test |-> 0, out |-> <<>>]

TypeOK ==
    /\ suite \in Suites
    /\ next \in 1 .. Len(suite) + 1 + Cardinality(Worker)
    /\ worker \in [Worker ->
         [at : {"idle", "took", "build", "cases", "body", "compile", "run",
                "fix", "lock", "analyse", "gone"},
          test : 0 .. Len(suite) + Cardinality(Worker),
          out : Seq(VerdictType)]]
    /\ results \in [1 .. Len(suite) -> Seq(VerdictType)]
    /\ reported \subseteq 1 .. Len(suite)
    /\ mutex \in Worker \cup {Nobody}
    /\ interrupted \in BOOLEAN
    /\ exit \in {NoExit, 0, 1, 130}

\* Jobs is at most the number of files.
Init ==
    /\ suite \in Suites
    /\ Cardinality(Worker) <= Len(suite)
    /\ next = 1
    /\ worker = [w \in Worker |-> Idle]
    /\ results = [i \in 1 .. Len(suite) |-> <<>>]
    /\ reported = {}
    /\ mutex = Nobody
    /\ interrupted = FALSE
    /\ exit = NoExit

\* Mutant: the counter is a plain integer, which another thread may have read
\* before its last increment was stored.
TakeStaleIndex(w) ==
    /\ worker[w].at = "idle"
    /\ \E i \in {next, next - 1} \ {0} :
         /\ worker' = [worker EXCEPT ![w].at = "took", ![w].test = i]
         /\ next' = i + 1
    /\ UNCHANGED <<suite, results, reported, mutex, interrupted, exit>>

\* size_t I = Next++
TakeIndex(w) ==
    /\ worker[w].at = "idle"
    /\ worker' = [worker EXCEPT ![w].at = "took", ![w].test = next]
    /\ next' = next + 1
    /\ UNCHANGED <<suite, results, reported, mutex, interrupted, exit>>

\* runOne, unless there is no such file or the user has interrupted.
Begin(w) ==
    LET i == worker[w].test
        stop == i > Len(suite) \/ interrupted
    IN /\ worker[w].at = "took"
       /\ worker' = [worker EXCEPT ![w].at =
                       IF stop THEN "gone"
                       ELSE IF suite[i].kind = "functions" THEN "build"
                       ELSE "compile"]
       /\ UNCHANGED <<suite, next, results, reported, mutex, interrupted, exit>>

Test(w) == suite[worker[w].test]

\* The worker goes on to `at` with the results `out` so far.
Proceed(w, at, out) ==
    /\ worker' = [worker EXCEPT ![w].at = at, ![w].out = out]
    /\ UNCHANGED <<suite, next, results, reported, interrupted, exit>>

\* Results[I] = ...; and back to the counter.
Finish(w, out) ==
    /\ results' = [results EXCEPT ![worker[w].test] = out]
    /\ reported' = reported \cup {worker[w].test}
    /\ worker' = [worker EXCEPT ![w] = Idle]
    /\ UNCHANGED <<suite, next, interrupted, exit>>

FinishWith(w, verdict) == Finish(w, Append(worker[w].out, verdict))

\* runTestFunctions: the compile of a file of @test functions.
Build(w) ==
    /\ worker[w].at = "build"
    /\ \E c \in CallResults, readable \in BOOLEAN :
         IF interrupted \/ c.status # 0 \/ ~readable
           THEN FinishWith(w, Failed)
           ELSE Proceed(w, "cases", <<>>)
    /\ UNCHANGED mutex

\* Its loop over the functions, and what follows it.
Cases(w) ==
    LET out == worker[w].out
        t == Test(w)
    IN /\ worker[w].at = "cases"
       /\ IF Len(out) < Len(t.cases) /\ ~interrupted
            THEN Proceed(w, "body", out)
            ELSE IF t.main /\ ~interrupted
              THEN Proceed(w, "compile", out)
              ELSE Finish(w, out)
       /\ UNCHANGED mutex

\* judgeTestFunction
Body(w) ==
    LET out == worker[w].out
    IN /\ worker[w].at = "body"
       /\ \E v \in CaseVerdicts(Test(w).cases[Len(out) + 1]) :
            Proceed(w, "cases", Append(out, v))
       /\ UNCHANGED mutex

\* runFile up to the run of the program: a fail_*.tr is judged by its compile.
Compile(w) ==
    LET t == Test(w)
        out == worker[w].out
    IN /\ worker[w].at = "compile"
       /\ \E c \in CallResults : \E met \in PinsMet(t, c) :
            IF interrupted THEN FinishWith(w, Failed)
            ELSE IF t.kind = "fail"
              THEN LET v == JudgeRejection(c, met)
                       printed == t.fixes /\ Started(c)
                   IN IF v.pass /\ printed
                        THEN Proceed(w, "fix", Append(out, v))
                        ELSE FinishWith(w, v)
              ELSE \E built \in BOOLEAN :   \* fs::exists(Program)
                     IF c.status = 0 /\ built /\ met
                       THEN Proceed(w, "run", out)
                       ELSE FinishWith(w, Failed)
       /\ UNCHANGED mutex

\* runFile from the run of the program on.
Run(w) ==
    LET t == Test(w)
    IN /\ worker[w].at = "run"
       /\ \E r \in CallResults : \E met \in PinsMet(t, r) :
            FinishWith(w, IF t.kind = "abort" THEN JudgeAbort(r, met)
                          ELSE JudgePlain(r, TRUE))
       /\ UNCHANGED mutex

\* checkFixesApply: the compiler writes the fixed program, and whether it did
\* is read from the file, not from the result of the call.
Fix(w) ==
    /\ worker[w].at = "fix"
    /\ \E c \in CallResults, written \in BOOLEAN :
         /\ ~Started(c) => ~written
         /\ IF written
              THEN Proceed(w, "lock", worker[w].out)
              ELSE Finish(w, [worker[w].out EXCEPT ![Len(worker[w].out)] = Failed])
    /\ UNCHANGED mutex

Lock(w) ==
    /\ worker[w].at = "lock"
    /\ mutex = Nobody
    /\ mutex' = w
    /\ Proceed(w, "analyse", worker[w].out)

\* Mutant: the mutex is unlocked only where the fixes are found good.
AnalyseKeepsMutex(w) ==
    /\ worker[w].at = "analyse"
    /\ \/ mutex' = Nobody /\ Finish(w, worker[w].out)
       \/ /\ UNCHANGED mutex
          /\ Finish(w, [worker[w].out EXCEPT ![Len(worker[w].out)] = Failed])

\* Both analyses, the unlock, and what they say of the fixes.
Analyse(w) ==
    /\ worker[w].at = "analyse"
    /\ mutex' = Nobody
    /\ \/ Finish(w, worker[w].out)
       \/ Finish(w, [worker[w].out EXCEPT ![Len(worker[w].out)] = Failed])

Work(w) ==
    \/ TakeIndex(w) \/ Begin(w) \/ Build(w) \/ Cases(w) \/ Body(w) \/ Compile(w)
    \/ Run(w) \/ Fix(w) \/ Lock(w) \/ Analyse(w)

(***************************************************************************)
(* The caller of runAll, and the user                                      *)
(***************************************************************************)
\* Some test of some file failed.
SomeFailed ==
    \E i \in 1 .. Len(suite) : \E j \in DOMAIN results[i] : ~results[i][j].pass

\* Mutant: the results there are decide, also after an interrupt.
SummariseAnyway ==
    /\ \A w \in Worker : worker[w].at = "gone"
    /\ exit = NoExit
    /\ exit' = IF SomeFailed THEN 1 ELSE 0
    /\ UNCHANGED <<suite, next, worker, results, reported, mutex, interrupted>>

\* RunTests, after the threads are joined: a file without results adds none.
Summarise ==
    /\ \A w \in Worker : worker[w].at = "gone"
    /\ exit = NoExit
    /\ exit' = IF interrupted THEN 130
               ELSE IF SomeFailed THEN 1 ELSE 0
    /\ UNCHANGED <<suite, next, worker, results, reported, mutex, interrupted>>

\* onInterrupt, at any moment, also after g_Interrupted was looked at.
Interrupt ==
    /\ ~interrupted
    /\ interrupted' = TRUE
    /\ UNCHANGED <<suite, next, worker, results, reported, mutex, exit>>

Next == (\E w \in Worker : Work(w)) \/ Summarise \/ Interrupt

Spec == Init /\ [][Next]_vars

\* Every thread runs on: RunProcess returns (RunProcess!CallReturns, which needs
\* Drain to catch up with what prints), and the analysis is a computation that
\* ends.
FairSpec ==
    /\ Spec
    /\ \A w \in Worker : WF_vars(Work(w))
    /\ WF_vars(Summarise)

(***************************************************************************)
(* Properties                                                              *)
(***************************************************************************)
\* A test that passes deserved it: the compiler rejected what it had to reject,
\* the program ran and ended by itself as the test wants, and no kill is taken
\* for that.  One pass is not deserved: where the compiler of a fail_*.tr, or the
\* program of one with RUNTIME_ABORT_EXPECTED, was never started, its status 127
\* (TestRunner.cpp:101, :123, :137) is taken for the rejection or the abort
\* (:715, :731-744), though docs/guides/testing.md:412-413 has such a test pass
\* "when the compiler refuses the program"; only a pinned output tells them apart.
PassIsEarned ==
    \A i \in 1 .. Len(suite) : \A j \in DOMAIN results[i] :
        results[i][j].pass =>
            \/ results[i][j].earned
            \/ /\ ~results[i][j].started
               /\ suite[i].kind \in {"fail", "abort"} /\ ~suite[i].pins

\* How many results a file has when it was run to its end.
Expected(t) ==
    IF t.kind = "functions" THEN Len(t.cases) + (IF t.main THEN 1 ELSE 0) ELSE 1

\* "All tests passed" is said only when every test of every file was run and
\* passed, a failure only when one failed and no file was left out or cut short
\* but by a failure of its own, whenever an interrupt comes; and an interrupt is
\* reported only when there was one (TestRunner.cpp:1055-1086).
ExitIsTruth ==
    /\ exit \in {0, 1} =>
         /\ reported = 1 .. Len(suite)
         /\ \A i \in 1 .. Len(suite) :
              \/ Len(results[i]) = Expected(suite[i])
              \/ \E j \in DOMAIN results[i] : ~results[i][j].pass
    /\ exit = 0 =>
         \A i \in 1 .. Len(suite) :
            /\ Len(results[i]) = Expected(suite[i])
            /\ \A j \in DOMAIN results[i] : results[i][j].pass
    /\ exit = 1 => SomeFailed
    /\ exit = 130 => interrupted

\* No file is with two workers, or with one again after its results are in:
\* its temporary files are named by its index (TestRunner.cpp:464).
EachTestOnce ==
    /\ \A w \in Worker : LET i == worker[w].test IN
         worker[w].at \notin {"idle", "took", "gone"} => i \notin reported
    /\ \A v, w \in Worker :
         worker[v].test = worker[w].test /\ worker[v].test \in 1 .. Len(suite)
            => v = w \/ worker[v].at = "gone" \/ worker[w].at = "gone"

\* The run ends, whatever hangs and whoever holds the mutex.
RunEnds == <>(exit # NoExit)
=============================================================================
