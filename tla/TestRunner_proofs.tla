------------------------- MODULE TestRunner_proofs -------------------------
(***************************************************************************)
(* Theorems about TestRunner: for every number of workers and every suite, *)
(* a file is run by one worker and once, the exit status is true of the    *)
(* whole suite, and a test that passes deserved it.                        *)
(***************************************************************************)
EXTENDS TestRunner, TLAPS

\* The verdicts a test of file t may get: a pass is earned, but where nothing
\* was started and nothing is pinned.
Verdicts(t) ==
    {v \in VerdictType :
       v.pass => \/ v.earned
                 \/ ~v.started /\ t.kind \in {"fail", "abort"} /\ ~t.pins}

Working == {"build", "cases", "body", "compile", "run", "fix", "lock", "analyse"}

TypeInv ==
    /\ suite \in Seq(TestFile)
    /\ next \in Nat \ {0}
    /\ worker \in [Worker -> [at : Working \cup {"idle", "took", "gone"},
                              test : Nat, out : Seq(VerdictType)]]
    /\ results \in [1 .. Len(suite) -> Seq(VerdictType)]
    /\ reported \subseteq 1 .. Len(suite)
    /\ interrupted \in BOOLEAN
    /\ exit \in {NoExit, 0, 1, 130}

\* A file's results are complete, but for an interrupt or a failure.
Complete(t, out) ==
    \/ Len(out) = Expected(t)
    \/ \E j \in DOMAIN out : ~out[j].pass

\* What a worker that is at `at` has of file t.
Underway(t, at, out) ==
    /\ out \in Seq(Verdicts(t))
    /\ at = "build" => t.kind = "functions" /\ out = << >>
    /\ at = "cases" => t.kind = "functions" /\ Len(out) <= Len(t.cases)
    /\ at = "body" => t.kind = "functions" /\ Len(out) < Len(t.cases)
    /\ at \in {"compile", "run"} =>
         IF t.kind = "functions" THEN t.main /\ Len(out) = Len(t.cases)
         ELSE out = << >>
    /\ at \in {"fix", "lock", "analyse"} => t.kind = "fail" /\ Len(out) = 1

\* Where the indices are: each taken one is with one worker, in the results, or
\* was dropped because of the interrupt or the end of the list.
WorkersInv ==
    /\ \A w \in Worker : worker[w].at = "idle" <=> worker[w].test = 0
    /\ \A w \in Worker : worker[w].test < next
    /\ \A v, w \in Worker :
         worker[v].test = worker[w].test /\ worker[v].test # 0 => v = w
    /\ \A w \in Worker : worker[w].test \notin reported
    /\ \A w \in Worker : worker[w].at \in Working =>
         /\ worker[w].test \in 1 .. Len(suite)
         /\ Underway(suite[worker[w].test], worker[w].at, worker[w].out)
    /\ \A w \in Worker : worker[w].at \in {"idle", "took"} => worker[w].out = << >>
    /\ \A w \in Worker : worker[w].at = "gone" =>
         interrupted \/ worker[w].test > Len(suite)

ResultsInv ==
    /\ \A i \in reported : i < next
    /\ \A i \in 1 .. Len(suite) : i < next =>
         \/ i \in reported
         \/ \E w \in Worker : worker[w].test = i
    /\ \A i \in 1 .. Len(suite) : i \notin reported => results[i] = << >>
    /\ \A i \in 1 .. Len(suite) : results[i] \in Seq(Verdicts(suite[i]))
    /\ \A i \in reported : interrupted \/ Complete(suite[i], results[i])

\* An interrupt may come after the exit status was chosen.
ExitInv ==
    exit # NoExit =>
      /\ \A w \in Worker : worker[w].at = "gone"
      /\ exit = 130 => interrupted
      /\ exit \in {0, 1} =>
           /\ reported = 1 .. Len(suite)
           /\ \A i \in 1 .. Len(suite) : Complete(suite[i], results[i])
      /\ exit = 0 => ~SomeFailed
      /\ exit = 1 => SomeFailed

IInv == TypeInv /\ WorkersInv /\ ResultsInv /\ ExitInv

LEMMA InitInv == Init => IInv
<1> SUFFICES ASSUME Init PROVE IInv
  OBVIOUS
<1>. USE DEF Init, Idle
<1>1. suite \in Seq(TestFile)
  BY SuiteAssumption
<1>2. << >> \in Seq(VerdictType) /\ \A t : << >> \in Seq(Verdicts(t))
  OBVIOUS
<1>3. TypeInv
  <2>1. worker \in [Worker -> [at : Working \cup {"idle", "took", "gone"},
                              test : Nat, out : Seq(VerdictType)]]
    BY <1>2
  <2>2. results \in [1 .. Len(suite) -> Seq(VerdictType)]
    BY <1>2
  <2>3. next \in Nat \ {0} /\ exit \in {NoExit, 0, 1, 130}
    OBVIOUS
  <2>4. reported \subseteq 1 .. Len(suite)
    OBVIOUS
  <2>5. interrupted \in BOOLEAN
    BY Zenon
  <2>. QED
    BY <1>1, <2>1, <2>2, <2>3, <2>4, <2>5 DEF TypeInv
<1>4. WorkersInv
  BY DEF WorkersInv, Working
<1>5. ResultsInv
  BY <1>1, <1>2 DEF ResultsInv
<1>. QED
  BY <1>3, <1>4, <1>5 DEF IInv, ExitInv

LEMMA VerdictsAreTyped ==
  ASSUME NEW t, NEW out \in Seq(Verdicts(t))
  PROVE  out \in Seq(VerdictType)
<1>1. Verdicts(t) \subseteq VerdictType
  BY DEF Verdicts
<1>. HIDE DEF Verdicts
<1>2. /\ Len(out) \in Nat /\ DOMAIN out = 1 .. Len(out)
      /\ \A i \in 1 .. Len(out) : out[i] \in VerdictType
  BY <1>1
<1>3. out = [i \in 1 .. Len(out) |-> out[i]]
  OBVIOUS
<1>. QED
  BY <1>2, <1>3

(***************************************************************************)
(* The steps of a worker that works on a file are of two kinds.            *)
(***************************************************************************)
LEMMA ProceedKeeps ==
  ASSUME IInv, NEW w \in Worker, worker[w].at \in Working,
         NEW at \in Working, NEW out,
         Underway(Test(w), at, out), Proceed(w, at, out)
  PROVE  IInv'
<1>. USE DEF IInv
<1>0. out \in Seq(VerdictType)
  BY VerdictsAreTyped DEF Underway
<1>1. /\ worker' = [worker EXCEPT ![w].at = at, ![w].out = out]
      /\ UNCHANGED <<suite, next, results, reported, interrupted, exit>>
  BY DEF Proceed
<1>2. /\ worker' \in [Worker -> [at : Working \cup {"idle", "took", "gone"},
                                 test : Nat, out : Seq(VerdictType)]]
      /\ \A v \in Worker : worker'[v].test = worker[v].test
      /\ \A v \in Worker \ {w} : worker'[v] = worker[v]
      /\ worker'[w].at = at /\ worker'[w].out = out
  <2>. DEFINE r == [worker[w] EXCEPT !.at = at, !.out = out]
  <2>1. worker' = [worker EXCEPT ![w] = r]
    BY <1>1, Zenon
  <2>2. worker[w] \in [at : Working \cup {"idle", "took", "gone"},
                     test : Nat, out : Seq(VerdictType)]
    BY DEF TypeInv
  <2>3. /\ r \in [at : Working \cup {"idle", "took", "gone"},
                  test : Nat, out : Seq(VerdictType)]
        /\ r.at = at /\ r.out = out /\ r.test = worker[w].test
    BY <1>0, <2>2
  <2>. HIDE DEF r
  <2>. QED
    BY <2>1, <2>3 DEF TypeInv
<1>3. TypeInv'
  BY <1>1, <1>2 DEF TypeInv
<1>4. at \notin {"idle", "took", "gone"} /\ worker[w].at \notin {"idle", "took", "gone"}
  BY DEF Working
<1>5. WorkersInv'
  <2>1. \A v \in Worker : worker'[v].at = "idle" <=> worker'[v].test = 0
    BY <1>2, <1>4 DEF WorkersInv
  <2>2. \A v \in Worker : worker'[v].at \in Working =>
          /\ worker'[v].test \in 1 .. Len(suite)
          /\ Underway(suite[worker'[v].test], worker'[v].at, worker'[v].out)
    BY <1>2 DEF WorkersInv, Test
  <2>3. \A v \in Worker : worker'[v].at \in {"idle", "took"} =>
          worker'[v].out = << >>
    BY <1>2, <1>4 DEF WorkersInv
  <2>4. \A v \in Worker : worker'[v].at = "gone" =>
          interrupted \/ worker'[v].test > Len(suite)
    BY <1>2, <1>4 DEF WorkersInv
  <2>. QED
    BY <1>1, <1>2, <2>1, <2>2, <2>3, <2>4 DEF WorkersInv
<1>6. ResultsInv'
  BY <1>1, <1>2 DEF ResultsInv
<1>7. ExitInv'
  BY <1>1, <1>4 DEF ExitInv
<1>. QED
  BY <1>3, <1>5, <1>6, <1>7

LEMMA FinishKeeps ==
  ASSUME IInv, NEW w \in Worker, worker[w].at \in Working,
         NEW out \in Seq(Verdicts(Test(w))),
         interrupted \/ Complete(Test(w), out), Finish(w, out)
  PROVE  IInv'
<1>. USE DEF IInv
<1>0. out \in Seq(VerdictType)
  BY VerdictsAreTyped
<1>. DEFINE i == worker[w].test
<1>1. /\ results' = [results EXCEPT ![i] = out]
      /\ reported' = reported \cup {i}
      /\ worker' = [worker EXCEPT ![w] = Idle]
      /\ UNCHANGED <<suite, next, interrupted, exit>>
  BY DEF Finish
<1>2. i \in 1 .. Len(suite) /\ i # 0 /\ i < next
  BY DEF WorkersInv
<1>3. /\ worker' \in [Worker -> [at : Working \cup {"idle", "took", "gone"},
                                 test : Nat, out : Seq(VerdictType)]]
      /\ \A v \in Worker \ {w} : worker'[v] = worker[v]
      /\ worker'[w] = Idle
  <2>1. Idle \in [at : Working \cup {"idle", "took", "gone"},
                  test : Nat, out : Seq(VerdictType)]
    BY DEF Idle
  <2>. QED
    BY <1>1, <2>1 DEF TypeInv
<1>4. TypeInv'
  BY <1>0, <1>1, <1>2, <1>3 DEF TypeInv
<1>5. WorkersInv'
  <2>1. Idle.at = "idle" /\ Idle.test = 0 /\ Idle.out = << >> /\ "idle" \notin Working
    BY DEF Idle, Working
  <2>2. 0 \notin reported'
    BY <1>1, <1>2 DEF TypeInv
  <2>3. \A v \in Worker \ {w} : worker[v].test # i
    BY <1>2 DEF WorkersInv
  <2>4. \A v \in Worker : worker'[v].test \notin reported'
    BY <1>1, <1>3, <2>1, <2>2, <2>3 DEF WorkersInv
  <2>5. \A v \in Worker : worker'[v].at = "idle" <=> worker'[v].test = 0
    BY <1>3, <2>1 DEF WorkersInv
  <2>6. \A v \in Worker : worker'[v].test < next
    <3>1. 0 < next
      BY DEF TypeInv
    <3>. QED
      BY <1>2, <1>3, <2>1, <3>1 DEF WorkersInv
  <2>7. \A u, v \in Worker :
          worker'[u].test = worker'[v].test /\ worker'[u].test # 0 => u = v
    BY <1>3, <2>1 DEF WorkersInv
  <2>8. \A v \in Worker : worker'[v].at \in Working =>
          /\ worker'[v].test \in 1 .. Len(suite)
          /\ Underway(suite[worker'[v].test], worker'[v].at, worker'[v].out)
    BY <1>3, <2>1 DEF WorkersInv
  <2>9. \A v \in Worker : worker'[v].at \in {"idle", "took"} =>
          worker'[v].out = << >>
    BY <1>3, <2>1 DEF WorkersInv
  <2>10. \A v \in Worker : worker'[v].at = "gone" =>
          interrupted \/ worker'[v].test > Len(suite)
    BY <1>3, <2>1 DEF WorkersInv
  <2>. QED
    BY <1>1, <2>4, <2>5, <2>6, <2>7, <2>8, <2>9, <2>10 DEF WorkersInv
<1>6. ResultsInv'
  <2>1. results'[i] = out /\ \A k \in 1 .. Len(suite) : k # i => results'[k] = results[k]
    BY <1>1, <1>2 DEF TypeInv
  <2>2. \A k \in reported' : k < next
    BY <1>1, <1>2 DEF ResultsInv
  <2>3. \A k \in 1 .. Len(suite) : k < next =>
          k \in reported' \/ \E v \in Worker : worker'[v].test = k
    <3> SUFFICES ASSUME NEW k \in 1 .. Len(suite), k < next, k \notin reported'
                 PROVE  \E v \in Worker : worker'[v].test = k
      OBVIOUS
    <3>1. PICK v \in Worker : worker[v].test = k
      BY <1>1 DEF ResultsInv
    <3>2. v # w
      BY <1>1, <3>1
    <3>. QED
      BY <1>3, <3>1, <3>2
  <2>4. \A k \in 1 .. Len(suite) : k \notin reported' => results'[k] = << >>
    BY <1>1, <2>1 DEF ResultsInv
  <2>5. \A k \in reported' : interrupted \/ Complete(suite[k], results'[k])
    BY <1>1, <2>1 DEF ResultsInv, Test, TypeInv
  <2>6. \A k \in 1 .. Len(suite) : results'[k] \in Seq(Verdicts(suite[k]))
    BY <2>1 DEF ResultsInv, Test
  <2>. QED
    BY <1>1, <2>2, <2>3, <2>4, <2>5, <2>6 DEF ResultsInv
<1>7. exit = NoExit
  BY DEF ExitInv, Working
<1>. QED
  BY <1>1, <1>4, <1>5, <1>6, <1>7 DEF ExitInv
(***************************************************************************)
(* What is judged.                                                         *)
(***************************************************************************)
LEMMA CallFacts ==
  ASSUME NEW r \in CallResults
  PROVE  /\ r.status \in {0, 1, 7, 134, 139, 127, 137}
         /\ Started(r) <=> r.status # 127
  BY DEF CallResults, Call!Results, Call!Result, Call!NotStarted, Call!ByKill,
         Call!SIGKILL, Panic, Crash, Started

LEMMA FailedIsVerdict ==
  ~Failed.pass /\ Failed \in VerdictType /\ \A t : Failed \in Verdicts(t)
  BY DEF Failed, Verdicts, VerdictType

\* A pass is a verdict if it is earned, or of something never started where the
\* file allows that.
LEMMA PassFacts ==
  ASSUME NEW t, NEW e \in BOOLEAN, NEW b \in BOOLEAN,
         e \/ (~b /\ t.kind \in {"fail", "abort"} /\ ~t.pins)
  PROVE  [pass |-> TRUE, earned |-> e, started |-> b] \in Verdicts(t)
  BY DEF Verdicts, VerdictType

LEMMA VerdictFacts ==
  \A t : \A p, e, b \in BOOLEAN :
     (p => e \/ (~b /\ t.kind \in {"fail", "abort"} /\ ~t.pins))
       => Verdict(p, e, b) \in Verdicts(t)
<1> SUFFICES ASSUME NEW t, NEW p \in BOOLEAN, NEW e \in BOOLEAN,
                    NEW b \in BOOLEAN,
                    p => e \/ (~b /\ t.kind \in {"fail", "abort"} /\ ~t.pins)
             PROVE  Verdict(p, e, b) \in Verdicts(t)
  OBVIOUS
<1>1. ASSUME p PROVE [pass |-> TRUE, earned |-> e, started |-> b] \in Verdicts(t)
  BY <1>1, PassFacts
<1>2. CASE p
  BY <1>1, <1>2, Zenon DEF Verdict
<1>3. CASE ~p
  BY <1>3, FailedIsVerdict, Zenon DEF Verdict
<1>. QED
  BY <1>2, <1>3

\* What a process not started has printed is not what is pinned.
LEMMA PinsFacts ==
  ASSUME NEW t \in TestFile, NEW r, NEW met \in PinsMet(t, r), met
  PROVE  Started(r) \/ ~t.pins
  BY DEF PinsMet

LEMMA PlainIsVerdict ==
  ASSUME NEW t, NEW r \in CallResults, NEW met \in BOOLEAN
  PROVE  JudgePlain(r, met) \in Verdicts(t)
<1>. DEFINE e == r.status = 0
            b == Started(r)
            good == met /\ ~(r.timedOut \/ r.status \in {137, 143, 211}) /\ r.status = 0
<1>1. JudgePlain(r, met) = Verdict(good, e, b)
  BY DEF JudgePlain
<1>2. e \in BOOLEAN /\ b \in BOOLEAN /\ good \in BOOLEAN /\ (good => e)
  BY Zenon DEF Started
<1>. HIDE DEF e, b, good
<1>. QED
  BY <1>1, <1>2, VerdictFacts, Zenon

LEMMA AbortIsVerdict ==
  ASSUME NEW t \in TestFile, t.kind = "abort", NEW r \in CallResults,
         NEW met \in PinsMet(t, r)
  PROVE  JudgeAbort(r, met) \in Verdicts(t)
<1>0. met \in BOOLEAN
  BY DEF PinsMet
<1>. DEFINE e == r.status \in {1, 7, Panic, Crash}
            b == Started(r)
            good == r.status \notin {0, 137, 143} /\ met
<1>1. r.status \in {0, 1, 7, 134, 139, 127, 137} /\ (b <=> r.status # 127)
  BY CallFacts
<1>2. JudgeAbort(r, met) = Verdict(good, e, b)
  BY DEF JudgeAbort
<1>3. e \in BOOLEAN /\ b \in BOOLEAN /\ good \in BOOLEAN
  <2>1. e \in BOOLEAN /\ b \in BOOLEAN
    BY DEF Started
  <2>2. good \in BOOLEAN
    BY <1>0
  <2>. QED
    BY <2>1, <2>2
<1>4. good => b \/ ~t.pins
  BY PinsFacts
<1>5. good => e \/ r.status = 127
  BY <1>1 DEF Panic, Crash
<1>. HIDE DEF e, b, good
<1>6. good => e \/ (~b /\ t.kind \in {"fail", "abort"} /\ ~t.pins)
  BY <1>1, <1>4, <1>5
<1>. QED
  BY <1>2, <1>3, <1>6, VerdictFacts, Zenon

LEMMA RejectionIsVerdict ==
  ASSUME NEW t \in TestFile, t.kind = "fail", NEW c \in CallResults,
         NEW met \in PinsMet(t, c)
  PROVE  JudgeRejection(c, met) \in Verdicts(t)
<1>0. met \in BOOLEAN
  BY DEF PinsMet
<1>. DEFINE e == c.status \in {1, 7}
            b == Started(c)
            good == c.status # 0 /\ c.status < 128 /\ met
<1>1. c.status \in {0, 1, 7, 134, 139, 127, 137} /\ (b <=> c.status # 127)
  BY CallFacts
<1>2. JudgeRejection(c, met) = Verdict(good, e, b)
  BY DEF JudgeRejection
<1>3. e \in BOOLEAN /\ b \in BOOLEAN /\ good \in BOOLEAN
  <2>1. e \in BOOLEAN /\ b \in BOOLEAN
    BY DEF Started
  <2>2. good \in BOOLEAN
    BY <1>0
  <2>. QED
    BY <2>1, <2>2
<1>4. good => b \/ ~t.pins
  BY PinsFacts
<1>5. good => e \/ c.status = 127
  BY <1>1
<1>. HIDE DEF e, b, good
<1>6. good => e \/ (~b /\ t.kind \in {"fail", "abort"} /\ ~t.pins)
  BY <1>1, <1>4, <1>5
<1>. QED
  BY <1>2, <1>3, <1>6, VerdictFacts, Zenon

LEMMA CaseIsVerdict ==
  ASSUME NEW t, NEW outcome \in Outcome
  PROVE  CaseVerdicts(outcome) \subseteq Verdicts(t)
<1>1. \A b \in BOOLEAN : Verdict(b, b, TRUE) \in Verdicts(t)
  BY VerdictFacts, Zenon
<1>2. ASSUME NEW c \in BodyCalls
      PROVE  Verdict(JudgeRun(outcome, c), Deserves(outcome, c), Started(c.r))
               \in Verdicts(t)
  <2>. DEFINE good == JudgeRun(outcome, c)
              e == Deserves(outcome, c)
              b == Started(c.r)
  <2>1. good => e
    BY DEF JudgeRun, Deserves
  <2>2. e \in BOOLEAN /\ b \in BOOLEAN /\ good \in BOOLEAN
    BY Zenon DEF JudgeRun, Deserves, Started
  <2>. HIDE DEF good, e, b
  <2>3. Verdict(good, e, b) \in Verdicts(t)
    BY <2>1, <2>2, VerdictFacts, Zenon
  <2>. QED
    BY <2>3 DEF good, e, b
<1>. QED
  BY <1>1, <1>2, FailedIsVerdict DEF CaseVerdicts

(***************************************************************************)
(* The steps of a worker.                                                  *)
(***************************************************************************)
LEMMA WorkingFacts ==
  ASSUME IInv, NEW w \in Worker, worker[w].at \in Working
  PROVE  /\ Test(w) \in TestFile
         /\ Underway(Test(w), worker[w].at, worker[w].out)
         /\ worker[w].out \in Seq(Verdicts(Test(w)))
<1>1. worker[w].test \in 1 .. Len(suite)
  BY DEF IInv, WorkersInv
<1>2. worker[w] \in [at : Working \cup {"idle", "took", "gone"},
                    test : Nat, out : Seq(VerdictType)]
  BY DEF IInv, TypeInv
<1>. QED
  BY <1>1, <1>2 DEF IInv, TypeInv, WorkersInv, Test, Underway

\* A file with a failure is complete; so is one with its last result.
LEMMA FailureCompletes ==
  ASSUME NEW t, NEW out \in Seq(Verdicts(t))
  PROVE  /\ Append(out, Failed) \in Seq(Verdicts(t))
         /\ Complete(t, Append(out, Failed))
<1>1. Append(out, Failed) \in Seq(Verdicts(t))
  BY FailedIsVerdict
<1>2. /\ Len(out) + 1 \in DOMAIN Append(out, Failed)
      /\ Append(out, Failed)[Len(out) + 1] = Failed
  BY FailedIsVerdict
<1>. QED
  BY <1>1, <1>2, FailedIsVerdict DEF Complete

LEMMA LastCompletes ==
  ASSUME NEW t \in TestFile, NEW out \in Seq(Verdicts(t)),
         NEW v \in Verdicts(t), Underway(t, "run", out)
  PROVE  /\ Append(out, v) \in Seq(Verdicts(t))
         /\ Complete(t, Append(out, v))
<1>1. Len(Append(out, v)) = Len(out) + 1
  OBVIOUS
<1>2. CASE t.kind = "functions"
  <2>1. t.main /\ Len(out) = Len(t.cases)
    BY <1>2 DEF Underway
  <2>2. Expected(t) = Len(t.cases) + 1
    BY <1>2, <2>1 DEF Expected
  <2>. QED
    BY <1>1, <2>1, <2>2 DEF Complete
<1>3. CASE t.kind # "functions"
  <2>1. out = << >>
    BY <1>3 DEF Underway
  <2>. QED
    BY <1>1, <1>3, <2>1 DEF Complete, Expected
<1>. QED
  BY <1>2, <1>3

LEMMA BuildKeeps ==
  ASSUME IInv, NEW w \in Worker, Build(w)
  PROVE  IInv'
<1>1. worker[w].at = "build" /\ "build" \in Working /\ "cases" \in Working
  BY DEF Build, Working
<1>2. /\ Test(w) \in TestFile /\ Test(w).kind = "functions"
      /\ worker[w].out \in Seq(Verdicts(Test(w)))
  BY <1>1, WorkingFacts DEF Underway
<1>3. CASE FinishWith(w, Failed)
  BY <1>1, <1>2, <1>3, FailureCompletes, FinishKeeps DEF FinishWith
<1>4. CASE Proceed(w, "cases", << >>)
  <2>1. << >> \in Seq(Verdicts(Test(w))) /\ Len(Test(w).cases) \in Nat
    BY <1>2 DEF TestFile
  <2>2. Underway(Test(w), "cases", << >>)
    BY <1>2, <2>1 DEF Underway
  <2>. QED
    BY <1>1, <1>4, <2>1, <2>2, ProceedKeeps
<1>. QED
  BY <1>3, <1>4 DEF Build

LEMMA CasesKeeps ==
  ASSUME IInv, NEW w \in Worker, Cases(w)
  PROVE  IInv'
<1>. DEFINE t == Test(w)
            out == worker[w].out
<1>1. worker[w].at = "cases" /\ {"cases", "body", "compile"} \subseteq Working
  BY DEF Cases, Working
<1>2. /\ t \in TestFile /\ t.kind = "functions" /\ Len(t.cases) \in Nat
      /\ out \in Seq(Verdicts(t)) /\ Len(out) \in Nat /\ Len(out) <= Len(t.cases)
  BY <1>1, WorkingFacts DEF Underway, TestFile
<1>3. CASE Len(out) < Len(t.cases) /\ ~interrupted
  <2>1. Proceed(w, "body", out)
    BY <1>3 DEF Cases
  <2>2. Underway(t, "body", out)
    BY <1>2, <1>3 DEF Underway
  <2>. QED
    BY <1>1, <1>2, <2>1, <2>2, ProceedKeeps
<1>4. CASE ~(Len(out) < Len(t.cases) /\ ~interrupted) /\ t.main /\ ~interrupted
  <2>1. Proceed(w, "compile", out)
    BY <1>4 DEF Cases
  <2>2. Underway(t, "compile", out)
    BY <1>2, <1>4 DEF Underway
  <2>. QED
    BY <1>1, <1>2, <2>1, <2>2, ProceedKeeps
<1>5. CASE ~(Len(out) < Len(t.cases) /\ ~interrupted) /\ ~(t.main /\ ~interrupted)
  <2>1. Finish(w, out)
    BY <1>5 DEF Cases
  <2>2. ASSUME ~interrupted PROVE Complete(t, out)
    <3>1. Len(out) = Len(t.cases) /\ ~t.main
      BY <1>2, <1>5, <2>2
    <3>2. Expected(t) = Len(t.cases) + 0
      BY <1>2, <3>1 DEF Expected
    <3>. QED
      BY <1>2, <3>1, <3>2 DEF Complete
  <2>. QED
    BY <1>1, <1>2, <2>1, <2>2, FinishKeeps
<1>. QED
  BY <1>3, <1>4, <1>5

LEMMA BodyKeeps ==
  ASSUME IInv, NEW w \in Worker, Body(w)
  PROVE  IInv'
<1>. DEFINE t == Test(w)
            out == worker[w].out
<1>1. worker[w].at = "body" /\ {"cases", "body"} \subseteq Working
  BY DEF Body, Working
<1>2. /\ t \in TestFile /\ t.kind = "functions" /\ Len(t.cases) \in Nat
      /\ out \in Seq(Verdicts(t)) /\ Len(out) \in Nat /\ Len(out) < Len(t.cases)
  BY <1>1, WorkingFacts DEF Underway, TestFile
<1>3. t.cases[Len(out) + 1] \in Outcome
  BY <1>2 DEF TestFile
<1>4. PICK v \in CaseVerdicts(t.cases[Len(out) + 1]) :
        Proceed(w, "cases", Append(out, v))
  BY DEF Body
<1>5. v \in Verdicts(t)
  BY <1>3, <1>4, CaseIsVerdict
<1>6. Append(out, v) \in Seq(Verdicts(t)) /\ Len(Append(out, v)) = Len(out) + 1
  BY <1>2, <1>5
<1>7. Underway(t, "cases", Append(out, v))
  BY <1>2, <1>6 DEF Underway
<1>. QED
  BY <1>1, <1>4, <1>6, <1>7, ProceedKeeps
LEMMA CompileKeeps ==
  ASSUME IInv, NEW w \in Worker, Compile(w)
  PROVE  IInv'
<1>. DEFINE t == Test(w)
            out == worker[w].out
<1>1. worker[w].at = "compile" /\ {"compile", "fix", "run"} \subseteq Working
  BY DEF Compile, Working
<1>2. t \in TestFile /\ out \in Seq(Verdicts(t)) /\ Underway(t, "compile", out)
  BY <1>1, WorkingFacts
<1>3. CASE FinishWith(w, Failed)
  BY <1>1, <1>2, <1>3, FailureCompletes, FinishKeeps DEF FinishWith
<1>4. CASE Proceed(w, "run", out)
  <2>1. Underway(t, "run", out)
    BY <1>2 DEF Underway
  <2>. QED
    BY <1>1, <1>2, <1>4, <2>1, ProceedKeeps
<1>5. ASSUME t.kind = "fail", NEW v \in Verdicts(t),
             FinishWith(w, v) \/ Proceed(w, "fix", Append(out, v))
      PROVE  IInv'
  <2>1. out = << >>
    BY <1>2, <1>5 DEF Underway
  <2>2. Append(out, v) \in Seq(Verdicts(t)) /\ Len(Append(out, v)) = 1
    BY <1>5, <2>1
  <2>3. Complete(t, Append(out, v))
    BY <1>5, <2>2 DEF Complete, Expected
  <2>4. Underway(t, "fix", Append(out, v))
    BY <1>5, <2>2 DEF Underway
  <2>. QED
    BY <1>1, <1>5, <2>2, <2>3, <2>4, FinishKeeps, ProceedKeeps DEF FinishWith
<1>6. PICK c \in CallResults : \E met \in PinsMet(t, c) :
        \/ FinishWith(w, Failed) \/ Proceed(w, "run", out)
        \/ /\ t.kind = "fail"
           /\ \/ FinishWith(w, JudgeRejection(c, met))
              \/ Proceed(w, "fix", Append(out, JudgeRejection(c, met)))
  BY DEF Compile
<1>7. t.kind = "fail" =>
        \A met \in PinsMet(t, c) : JudgeRejection(c, met) \in Verdicts(t)
  BY <1>2, <1>6, RejectionIsVerdict
<1>. QED
  BY <1>3, <1>4, <1>5, <1>6, <1>7

LEMMA RunKeeps ==
  ASSUME IInv, NEW w \in Worker, Run(w)
  PROVE  IInv'
<1>. DEFINE t == Test(w)
            out == worker[w].out
<1>1. worker[w].at = "run" /\ "run" \in Working
  BY DEF Run, Working
<1>2. t \in TestFile /\ out \in Seq(Verdicts(t)) /\ Underway(t, "run", out)
  BY <1>1, WorkingFacts
<1>3. PICK r \in CallResults : \E met \in PinsMet(t, r) :
        \/ t.kind = "abort" /\ FinishWith(w, JudgeAbort(r, met))
        \/ FinishWith(w, JudgePlain(r, TRUE))
  BY DEF Run
<1>4. JudgePlain(r, TRUE) \in Verdicts(t)
  BY <1>3, PlainIsVerdict
<1>5. t.kind = "abort" =>
        \A met \in PinsMet(t, r) : JudgeAbort(r, met) \in Verdicts(t)
  BY <1>2, <1>3, AbortIsVerdict
<1>6. PICK v \in Verdicts(t) : FinishWith(w, v)
  BY <1>3, <1>4, <1>5, Zenon
<1>. QED
  BY <1>1, <1>2, <1>6, LastCompletes, FinishKeeps DEF FinishWith

\* The only result of a fail_*.tr is replaced by a failure or kept.
LEMMA FixEndKeeps ==
  ASSUME IInv, NEW w \in Worker, worker[w].at \in {"fix", "analyse"},
         \/ Finish(w, worker[w].out)
         \/ Finish(w, [worker[w].out EXCEPT ![Len(worker[w].out)] = Failed])
  PROVE  IInv'
<1>. DEFINE t == Test(w)
            out == worker[w].out
            bad == [out EXCEPT ![Len(out)] = Failed]
<1>1. worker[w].at \in Working
  BY DEF Working
<1>2. out \in Seq(Verdicts(t)) /\ t.kind = "fail" /\ Len(out) = 1
  BY <1>1, WorkingFacts DEF Underway
<1>3. bad \in Seq(Verdicts(t)) /\ Len(bad) = 1
  BY <1>2, FailedIsVerdict
<1>4. Complete(t, out) /\ Complete(t, bad)
  BY <1>2, <1>3 DEF Complete, Expected
<1>. QED
  BY <1>1, <1>2, <1>3, <1>4, FinishKeeps

LEMMA FixKeeps ==
  ASSUME IInv, NEW w \in Worker, Fix(w)
  PROVE  IInv'
<1>1. worker[w].at = "fix" /\ {"fix", "lock"} \subseteq Working
  BY DEF Fix, Working
<1>2. worker[w].out \in Seq(Verdicts(Test(w))) /\ Underway(Test(w), "fix", worker[w].out)
  BY <1>1, WorkingFacts
<1>3. CASE Proceed(w, "lock", worker[w].out)
  <2>1. Underway(Test(w), "lock", worker[w].out)
    BY <1>2 DEF Underway
  <2>. QED
    BY <1>1, <1>2, <1>3, <2>1, ProceedKeeps
<1>. QED
  BY <1>1, <1>3, FixEndKeeps DEF Fix

LEMMA LockKeeps ==
  ASSUME IInv, NEW w \in Worker, Lock(w)
  PROVE  IInv'
<1>1. worker[w].at = "lock" /\ {"lock", "analyse"} \subseteq Working
  BY DEF Lock, Working
<1>2. worker[w].out \in Seq(Verdicts(Test(w))) /\ Underway(Test(w), "lock", worker[w].out)
  BY <1>1, WorkingFacts
<1>3. Underway(Test(w), "analyse", worker[w].out)
  BY <1>2 DEF Underway
<1>. QED
  BY <1>1, <1>2, <1>3, ProceedKeeps DEF Lock

LEMMA AnalyseKeeps ==
  ASSUME IInv, NEW w \in Worker, Analyse(w)
  PROVE  IInv'
  BY FixEndKeeps DEF Analyse
\* A free worker takes the next index, or learns that there is none for it.
LEMMA TakeIndexKeeps ==
  ASSUME IInv, NEW w \in Worker, TakeIndex(w)
  PROVE  IInv'
<1>. USE DEF IInv
<1>1. /\ worker[w].at = "idle"
      /\ worker' = [worker EXCEPT ![w].at = "took", ![w].test = next]
      /\ next' = next + 1
      /\ UNCHANGED <<suite, results, reported, interrupted, exit>>
  BY DEF TakeIndex
<1>2. next \in Nat \ {0} /\ reported \subseteq 1 .. Len(suite)
  BY DEF TypeInv
<1>3. /\ worker' \in [Worker -> [at : Working \cup {"idle", "took", "gone"},
                                 test : Nat, out : Seq(VerdictType)]]
      /\ \A v \in Worker \ {w} : worker'[v] = worker[v]
      /\ worker'[w].at = "took" /\ worker'[w].test = next
      /\ worker'[w].out = worker[w].out
  <2>. DEFINE r == [worker[w] EXCEPT !.at = "took", !.test = next]
  <2>1. worker' = [worker EXCEPT ![w] = r]
    BY <1>1, Zenon
  <2>2. worker[w] \in [at : Working \cup {"idle", "took", "gone"},
                     test : Nat, out : Seq(VerdictType)]
    BY DEF TypeInv
  <2>3. /\ r \in [at : Working \cup {"idle", "took", "gone"},
                  test : Nat, out : Seq(VerdictType)]
        /\ r.at = "took" /\ r.test = next /\ r.out = worker[w].out
    BY <1>2, <2>2
  <2>. HIDE DEF r
  <2>. QED
    BY <2>1, <2>3 DEF TypeInv
<1>4. TypeInv'
  BY <1>1, <1>2, <1>3 DEF TypeInv
<1>5. \A v \in Worker : worker[v].test \in Nat /\ worker[v].test < next
  BY DEF TypeInv, WorkersInv
<1>6. WorkersInv'
  <2>1. \A v \in Worker : worker'[v].at = "idle" <=> worker'[v].test = 0
    BY <1>2, <1>3 DEF WorkersInv
  <2>2. \A v \in Worker : worker'[v].test < next'
    BY <1>1, <1>2, <1>3, <1>5
  <2>3. \A u, v \in Worker :
          worker'[u].test = worker'[v].test /\ worker'[u].test # 0 => u = v
    <3>1. \A v \in Worker \ {w} : worker'[v].test # next
      BY <1>2, <1>3, <1>5
    <3> SUFFICES ASSUME NEW u \in Worker, NEW v \in Worker, u # v,
                        worker'[u].test = worker'[v].test,
                        worker'[u].test # 0
                 PROVE  FALSE
      OBVIOUS
    <3>2. CASE u = w \/ v = w
      BY <1>3, <3>1, <3>2
    <3>3. CASE u # w /\ v # w
      <4>1. worker'[u] = worker[u] /\ worker'[v] = worker[v]
        BY <1>3, <3>3
      <4>. QED
        BY <4>1 DEF WorkersInv
    <3>. QED
      BY <3>2, <3>3
  <2>4. \A v \in Worker : worker'[v].test \notin reported'
    BY <1>1, <1>2, <1>3 DEF WorkersInv, ResultsInv
  <2>5. \A v \in Worker : worker'[v].at \in Working =>
          /\ worker'[v].test \in 1 .. Len(suite)
          /\ Underway(suite[worker'[v].test], worker'[v].at, worker'[v].out)
    <3>1. "took" \notin Working
      BY DEF Working
    <3>. QED
      BY <1>3, <3>1 DEF WorkersInv
  <2>6. \A v \in Worker : worker'[v].at \in {"idle", "took"} =>
          worker'[v].out = << >>
    BY <1>1, <1>3 DEF WorkersInv
  <2>7. \A v \in Worker : worker'[v].at = "gone" =>
          interrupted \/ worker'[v].test > Len(suite)
    BY <1>3 DEF WorkersInv
  <2>. QED
    BY <1>1, <2>1, <2>2, <2>3, <2>4, <2>5, <2>6, <2>7 DEF WorkersInv
<1>7. ResultsInv'
  <2>1. \A i \in reported : i < next'
    BY <1>1, <1>2 DEF ResultsInv
  <2>2. \A i \in 1 .. Len(suite) : i < next' =>
          i \in reported \/ \E v \in Worker : worker'[v].test = i
    <3> SUFFICES ASSUME NEW i \in 1 .. Len(suite), i < next', i \notin reported
                 PROVE  \E v \in Worker : worker'[v].test = i
      OBVIOUS
    <3>1. CASE i = next
      BY <1>3, <3>1
    <3>2. CASE i < next
      <4>1. PICK v \in Worker : worker[v].test = i
        BY <3>2 DEF ResultsInv
      <4>2. v # w
        <5>1. worker[w].test = 0
          BY <1>1 DEF WorkersInv
        <5>. QED
          BY <4>1, <5>1
      <4>3. worker'[v] = worker[v]
        BY <1>3, <4>2
      <4>. QED
        BY <4>1, <4>3, Zenon
    <3>3. i = next \/ i < next
      <4>1. i \in Nat /\ i < next + 1
        BY <1>1 DEF TypeInv
      <4>. QED
        BY <1>2, <4>1
    <3>. QED
      BY <3>1, <3>2, <3>3
  <2>. QED
    BY <1>1, <2>1, <2>2 DEF ResultsInv
<1>8. exit = NoExit
  BY <1>1 DEF ExitInv
<1>. QED
  BY <1>1, <1>4, <1>6, <1>7, <1>8 DEF ExitInv

LEMMA BeginKeeps ==
  ASSUME IInv, NEW w \in Worker, Begin(w)
  PROVE  IInv'
<1>. USE DEF IInv
<1>. DEFINE i == worker[w].test
            at == IF i > Len(suite) \/ interrupted THEN "gone"
                  ELSE IF suite[i].kind = "functions" THEN "build" ELSE "compile"
<1>1. /\ worker[w].at = "took"
      /\ worker' = [worker EXCEPT ![w].at = at]
      /\ UNCHANGED <<suite, next, results, reported, interrupted, exit>>
  BY DEF Begin
<1>2. at \in {"gone", "build", "compile"} /\ {"build", "compile"} \subseteq Working
  BY DEF Working
<1>3. /\ at = "gone" => i > Len(suite) \/ interrupted
      /\ at # "gone" => ~(i > Len(suite))
      /\ at = "build" => suite[i].kind = "functions"
      /\ at = "compile" => suite[i].kind # "functions"
  OBVIOUS
<1>. HIDE DEF at
<1>4. worker[w] \in [at : Working \cup {"idle", "took", "gone"},
                    test : Nat, out : Seq(VerdictType)]
  BY DEF TypeInv
<1>5. /\ worker' \in [Worker -> [at : Working \cup {"idle", "took", "gone"},
                                 test : Nat, out : Seq(VerdictType)]]
      /\ \A v \in Worker \ {w} : worker'[v] = worker[v]
      /\ worker'[w].at = at /\ worker'[w].test = i
      /\ worker'[w].out = worker[w].out
  <2>. DEFINE r == [worker[w] EXCEPT !.at = at]
  <2>1. worker' = [worker EXCEPT ![w] = r]
    BY <1>1, Zenon
  <2>2. /\ r \in [at : Working \cup {"idle", "took", "gone"},
                  test : Nat, out : Seq(VerdictType)]
        /\ r.at = at /\ r.test = i /\ r.out = worker[w].out
    BY <1>2, <1>4
  <2>. HIDE DEF r, i
  <2>. QED
    BY <2>1, <2>2 DEF TypeInv
<1>6. TypeInv'
  BY <1>1, <1>5 DEF TypeInv
<1>7. i # 0 /\ i \in Nat /\ worker[w].out = << >>
  BY <1>1, <1>4 DEF WorkersInv
<1>8. WorkersInv'
  <2>1. \A v \in Worker : worker'[v].at = "idle" <=> worker'[v].test = 0
    BY <1>2, <1>5, <1>7 DEF WorkersInv
  <2>2. \A v \in Worker : worker'[v].test = worker[v].test
    BY <1>5
  <2>3. at \in Working => i \in 1 .. Len(suite) /\ Underway(suite[i], at, << >>)
    <3>1. ASSUME at \in Working PROVE i \in 1 .. Len(suite)
      <4>1. "gone" \notin Working /\ Len(suite) \in Nat
        BY DEF Working, TypeInv
      <4>. QED
        BY <1>3, <1>7, <3>1, <4>1
    <3>2. at = "build" => Underway(suite[i], at, << >>)
      BY <1>3 DEF Underway
    <3>3. at = "compile" => Underway(suite[i], at, << >>)
      BY <1>3 DEF Underway
    <3>4. "gone" \notin Working
      BY DEF Working
    <3>. QED
      BY <1>2, <3>1, <3>2, <3>3, <3>4
  <2>4. \A v \in Worker : worker'[v].at \in Working =>
          /\ worker'[v].test \in 1 .. Len(suite)
          /\ Underway(suite[worker'[v].test], worker'[v].at, worker'[v].out)
    <3> SUFFICES ASSUME NEW v \in Worker, worker'[v].at \in Working
                 PROVE  /\ worker'[v].test \in 1 .. Len(suite)
                        /\ Underway(suite[worker'[v].test], worker'[v].at,
                                    worker'[v].out)
      OBVIOUS
    <3>1. CASE v = w
      BY <1>5, <1>7, <2>3, <3>1
    <3>2. CASE v # w
      BY <1>5, <3>2 DEF WorkersInv
    <3>. QED
      BY <3>1, <3>2
  <2>5. \A v \in Worker : worker'[v].at \in {"idle", "took"} =>
          worker'[v].out = << >>
    BY <1>5, <1>7 DEF WorkersInv
  <2>6. \A v \in Worker : worker'[v].at = "gone" =>
          interrupted \/ worker'[v].test > Len(suite)
    BY <1>3, <1>5 DEF WorkersInv
  <2>. QED
    BY <1>1, <2>1, <2>2, <2>4, <2>5, <2>6 DEF WorkersInv
<1>9. ResultsInv'
  <2>1. \A v \in Worker : worker'[v].test = worker[v].test
    BY <1>5
  <2>. QED
    BY <1>1, <2>1 DEF ResultsInv
<1>10. exit = NoExit
  BY <1>1 DEF ExitInv
<1>. QED
  BY <1>1, <1>6, <1>8, <1>9, <1>10 DEF ExitInv

(***************************************************************************)
(* Every step keeps the invariant.                                         *)
(***************************************************************************)
LEMMA SummariseKeeps == IInv /\ Summarise => IInv'
<1> SUFFICES ASSUME IInv, Summarise PROVE IInv'
  OBVIOUS
<1>. USE DEF IInv
<1>1. /\ \A w \in Worker : worker[w].at = "gone"
      /\ UNCHANGED <<suite, next, worker, results, reported, interrupted>>
  BY DEF Summarise
<1>2. SomeFailed' <=> SomeFailed
  BY <1>1 DEF SomeFailed
<1>3. exit' = IF interrupted THEN 130 ELSE IF SomeFailed THEN 1 ELSE 0
  BY DEF Summarise
<1>4. ASSUME ~interrupted
      PROVE  /\ reported = 1 .. Len(suite)
             /\ \A i \in 1 .. Len(suite) : Complete(suite[i], results[i])
  <2>1. Len(suite) \in Nat /\ next \in Nat
    BY DEF TypeInv
  <2>2. \A w \in Worker : worker[w].test > Len(suite) /\ worker[w].test < next
    BY <1>1, <1>4 DEF WorkersInv
  <2>3. PICK w \in Worker : TRUE
    BY WorkerAssumption
  <2>4. worker[w].test \in Nat
    BY DEF TypeInv
  <2>5. \A i \in 1 .. Len(suite) : i < next
    BY <2>1, <2>2, <2>3, <2>4
  <2>6. \A i \in 1 .. Len(suite) : i \in reported
    BY <2>1, <2>2, <2>5 DEF ResultsInv
  <2>. QED
    BY <1>4, <2>6 DEF TypeInv, ResultsInv
<1>5. exit' \in {NoExit, 0, 1, 130} /\ (exit' \in {0, 1} => ~interrupted)
  BY <1>3
<1>6. ExitInv'
  BY <1>1, <1>2, <1>3, <1>4, <1>5 DEF ExitInv
<1>7. TypeInv'
  BY <1>1, <1>5 DEF TypeInv
<1>8. WorkersInv' /\ ResultsInv'
  BY <1>1 DEF WorkersInv, ResultsInv
<1>. QED
  BY <1>6, <1>7, <1>8

LEMMA InterruptKeeps == IInv /\ Interrupt => IInv'
<1> SUFFICES ASSUME IInv, Interrupt PROVE IInv'
  OBVIOUS
<1>. USE DEF IInv
<1>1. /\ interrupted' = TRUE
      /\ UNCHANGED <<suite, next, worker, results, reported, exit>>
  BY DEF Interrupt
<1>2. interrupted' \in BOOLEAN
  BY <1>1, Zenon
<1>3. TypeInv'
  BY <1>1, <1>2 DEF TypeInv
<1>4. WorkersInv'
  BY <1>1 DEF WorkersInv
<1>5. ResultsInv'
  BY <1>1 DEF ResultsInv
<1>6. ExitInv'
  BY <1>1 DEF ExitInv, SomeFailed
<1>. QED
  BY <1>3, <1>4, <1>5, <1>6

LEMMA StepInv == IInv /\ [Next]_vars => IInv'
<1> SUFFICES ASSUME IInv, [Next]_vars PROVE IInv'
  OBVIOUS
<1>1. ASSUME NEW w \in Worker, Work(w) PROVE IInv'
  BY <1>1, TakeIndexKeeps, BeginKeeps, BuildKeeps, CasesKeeps, BodyKeeps,
     CompileKeeps, RunKeeps, FixKeeps, LockKeeps, AnalyseKeeps DEF Work
<1>2. CASE UNCHANGED vars
  BY <1>2 DEF vars, IInv, TypeInv, WorkersInv, ResultsInv, ExitInv, SomeFailed
<1>. QED
  BY <1>1, <1>2, SummariseKeeps, InterruptKeeps DEF Next

\* The inductive invariant holds in every reachable state of a test run.
THEOREM Invariance == Spec => []IInv
  BY InitInv, StepInv, PTL DEF Spec

\* No file is with two workers, nor with one again after its results are in
\* (TestRunner.cpp:464), for every number of threads and of files.
THEOREM EachTestOnceAlways == Spec => []EachTestOnce
<1>1. IInv => EachTestOnce
  <2> SUFFICES ASSUME IInv PROVE EachTestOnce
    OBVIOUS
  <2>1. \A w \in Worker : worker[w].test \notin reported
    BY DEF IInv, WorkersInv
  <2>2. \A v, w \in Worker :
          worker[v].test = worker[w].test /\ worker[v].test # 0 => v = w
    BY DEF IInv, WorkersInv
  <2>. QED
    BY <2>1, <2>2 DEF EachTestOnce
<1>. QED
  BY <1>1, Invariance, PTL

\* The exit status is true of the whole suite: 0 only when every test of every
\* file was run and passed, 1 only when one failed and no file was left out, 130
\* only after an interrupt (TestRunner.cpp:1055-1086).
THEOREM ExitIsAlwaysTrue == Spec => []ExitIsTruth
<1>1. IInv => ExitIsTruth
  <2> SUFFICES ASSUME IInv PROVE ExitIsTruth
    OBVIOUS
  <2>. USE DEF IInv
  <2>1. exit = 130 => interrupted
    BY DEF ExitInv, NoExit
  <2>2. exit = 1 => SomeFailed
    BY DEF ExitInv, NoExit
  <2>3. exit \in {0, 1} =>
          /\ reported = 1 .. Len(suite)
          /\ \A i \in 1 .. Len(suite) : Complete(suite[i], results[i])
    BY DEF ExitInv, NoExit
  <2>4. ASSUME exit = 0, NEW i \in 1 .. Len(suite)
        PROVE  /\ Len(results[i]) = Expected(suite[i])
               /\ \A j \in DOMAIN results[i] : results[i][j].pass
    <3>1. \A j \in DOMAIN results[i] : results[i][j].pass
      BY <2>4 DEF ExitInv, NoExit, SomeFailed
    <3>. QED
      BY <2>3, <2>4, <3>1 DEF Complete
  <2>. QED
    BY <2>1, <2>2, <2>3, <2>4 DEF ExitIsTruth, Complete
<1>. QED
  BY <1>1, Invariance, PTL

\* A test that passes deserved it, for every suite and every number of threads,
\* also where processes fail to start; but for the fail_*.tr files that pin
\* nothing, whose compiler or program was never started (TestRunner.cpp:715,
\* :731-744).
THEOREM PassAlwaysEarned == Spec => []PassIsEarned
<1>1. IInv => PassIsEarned
  <2> SUFFICES ASSUME IInv, NEW i \in 1 .. Len(suite),
                      NEW j \in DOMAIN results[i], results[i][j].pass
               PROVE  \/ results[i][j].earned
                      \/ /\ ~results[i][j].started
                         /\ suite[i].kind \in {"fail", "abort"} /\ ~suite[i].pins
    BY DEF PassIsEarned
  <2>1. results[i] \in Seq(Verdicts(suite[i]))
    BY DEF IInv, ResultsInv
  <2>2. results[i][j] \in Verdicts(suite[i])
    BY <2>1
  <2>. QED
    BY <2>2 DEF Verdicts
<1>. QED
  BY <1>1, Invariance, PTL
=============================================================================
