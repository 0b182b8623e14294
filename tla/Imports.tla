------------------------------- MODULE Imports -------------------------------
(***************************************************************************)
(* Loading a program's files (src/frontend/ParserModule.cpp, the two       *)
(* passes of src/driver/main.cpp and the analyses of                       *)
(* src/tooling/AnalysisFacade.cpp).  An import statement parses the file   *)
(* it names there and then, a file already parsed gives an empty body, one *)
(* still being parsed is a circular import, and an error in a file fails   *)
(* every import that was waiting for it.                                   *)
(*                                                                         *)
(* What a compile keeps across its files, and the list of its diagnostics, *)
(* are process-wide.  turfc analyses a patched program in the middle of    *)
(* the compile that raised the error to be fixed; a language server        *)
(* analyses on several threads, and a caller may start an analysis inside  *)
(* another.                                                                *)
(***************************************************************************)
EXTENDS Naturals, Sequences, SequencesExt

CONSTANTS
    File,       \* the files imports resolve to
    Main,       \* the entry file
    Prelude,    \* the name a text lists under what every file is given unasked
    Broken,     \* a declaration that does not parse
    Absent,     \* an import of a module that no search root holds
    Compiled,   \* the programs turfc is run on
    Analysed,   \* the programs analyses are asked for
    Thread,
    None

\* A program gives each file its text: of its declarations only the imports,
\* the broken ones and those of absent modules matter.  A file's own name is
\* never resolved to itself (CollectModuleCandidates, ParserModule.cpp:1052).
\* PreludeModuleNames is one list for all, but an installation may lack some.
Text == [File \cup {Prelude} -> Seq(File \cup {Broken, Absent})]

ASSUME ProgramAssumption ==
    /\ Main \in File /\ Prelude \notin File
    /\ Broken \notin File /\ Absent \notin File
    /\ Compiled \cup Analysed \subseteq Text
    /\ \A text \in Compiled \cup Analysed :
         /\ Range(text[Prelude]) \subseteq File \cup {Absent}
         /\ \A f \in File : \A i \in DOMAIN text[f] : text[f][i] # f
ASSUME NoneAssumption == None \notin Thread

VARIABLES
    compile,    \* what the running compile accumulates (Compile, DiagnosticEngine)
    saved,      \* the same of the compiles it interrupts, the outermost first
    tasks,      \* of each thread: the compile and the analyses it is in
    owner,      \* of AnalysisMutex
    waiting,    \* the threads at analyze()'s lock
    dead        \* report_fatal_error, or an error nothing recovers from

vars == <<compile, saved, tasks, owner, waiting, dead>>

(***************************************************************************)
(* A compile's state, as a process starts with it.                         *)
(***************************************************************************)
Fresh == [imported |-> {},      \* ImportedFiles
          stack |-> <<>>,       \* ImportStack
          errors |-> <<>>,      \* Diagnostics
          errorLines |-> {},    \* ErrorLines: of whatever file
          collectAll |-> FALSE]

\* Mutant: the files already parsed stay, as state that the scope forgets.
OpenedKeepingFiles(outer) ==
    [Fresh EXCEPT !.collectAll = TRUE, !.imported = outer.imported]

\* GlobalStateScope's constructor and analyze(): an analysis begins as a
\* process does, and wants every error.
Opened(outer) == [Fresh EXCEPT !.collectAll = TRUE]

\* A call of ParseFile, or the loop over the entry file: the file, its next
\* statement, the files whose declarations it has so far, and how many
\* diagnostics there were when its import was reached.
CallOf(file, count) == [file |-> file, next |-> 1, bodies |-> <<>>, count |-> count]

\* A compile or an analysis: where it is ("prelude", "entry", "over"), the
\* error being raised, and whether the statement at hand has failed.
Task(kind, text) ==
    [kind |-> kind, text |-> text, pass |-> 1, at |-> "prelude",
     calls |-> <<CallOf(Main, 0)>>, raised |-> None, failing |-> FALSE,
     asked |-> FALSE]

\* turfc compiles on one thread; all those of a server want an analysis.
MainThread == CHOOSE t \in Thread : TRUE

Init ==
    /\ compile = Fresh
    /\ saved = <<>>
    /\ owner = None
    /\ dead = FALSE
    /\ \/ /\ waiting = {}
          /\ \E text \in Compiled :
               tasks = [t \in Thread |->
                          IF t = MainThread THEN <<Task("turfc", text)>> ELSE <<>>]
       \/ /\ waiting = Thread
          /\ tasks = [t \in Thread |-> <<>>]

Top(t) == Last(tasks[t])
Call(t) == Last(Top(t).calls)
Outermost(t) == Len(Top(t).calls) = 1

Statements(t) ==
    Top(t).text[IF Outermost(t) /\ Top(t).at = "prelude" THEN Prelude ELSE Call(t).file]

WithTop(t, task) == [tasks EXCEPT ![t] = Append(Front(@), task)]
WithCall(t, call) == WithTop(t, [Top(t) EXCEPT !.calls = Append(Front(@), call)])
Skipped(call) == [call EXCEPT !.next = @ + 1]

Running(t) == ~dead /\ tasks[t] # <<>> /\ t \notin waiting

Parsing(t) ==
    /\ Running(t)
    /\ Top(t).at # "over" /\ Top(t).raised = None /\ ~Top(t).failing

AtStatement(t, S) ==
    /\ Parsing(t)
    /\ Call(t).next \in DOMAIN Statements(t)
    /\ Statements(t)[Call(t).next] \in S

AtEnd(t) == Parsing(t) /\ Call(t).next = Len(Statements(t)) + 1

Named(t) == Statements(t)[Call(t).next]

(***************************************************************************)
(* The statements.                                                         *)
(***************************************************************************)
Raise(t, kind, chain) ==
    tasks' = WithTop(t, [Top(t) EXCEPT
                 !.raised = [kind |-> kind, file |-> Call(t).file,
                             line |-> Call(t).next, chain |-> chain]])

\* LogErrorAt in a declaration, and ModuleNotFoundError in an import.
BreakOff(t) ==
    \/ /\ AtStatement(t, {Broken})
       /\ Raise(t, "syntax", <<>>)
       /\ UNCHANGED <<compile, saved, owner, waiting, dead>>
    \/ /\ AtStatement(t, {Absent})
       /\ Raise(t, "absent", <<>>)
       /\ UNCHANGED <<compile, saved, owner, waiting, dead>>

\* ParsePreludeImports: a prelude module that is the entry file itself.
SkipSelf(t) ==
    /\ AtStatement(t, {Main})
    /\ Outermost(t) /\ Top(t).at = "prelude"
    /\ tasks' = WithCall(t, Skipped(Call(t)))
    /\ UNCHANGED <<compile, saved, owner, waiting, dead>>

Resolved(t) == AtStatement(t, File) /\ (Outermost(t) /\ Top(t).at = "prelude" => Named(t) # Main)

\* BuildCircularImportChain: no file is on the stack twice.
Chain(stack, file) ==
    LET first == CHOOSE i \in DOMAIN stack : stack[i] = file
    IN  SubSeq(stack, first, Len(stack))

\* ParseFile: the file is being parsed, it was parsed, or its turn comes now.
Circular(t) ==
    /\ Resolved(t)
    /\ Named(t) \in Range(compile.stack)
    /\ Raise(t, "loop", Chain(compile.stack, Named(t)))
    /\ UNCHANGED <<compile, saved, owner, waiting, dead>>

AlreadyParsed(t) ==
    /\ Resolved(t)
    /\ Named(t) \notin Range(compile.stack)
    /\ Named(t) \in compile.imported
    /\ tasks' = WithCall(t, Skipped(Call(t)))
    /\ UNCHANGED <<compile, saved, owner, waiting, dead>>

Entered(c, file) == [c EXCEPT !.stack = Append(@, file)]

Enter(t) ==
    /\ Resolved(t)
    /\ Named(t) \notin Range(compile.stack) \cup compile.imported
    /\ compile' = Entered(compile, Named(t))
    /\ tasks' = WithTop(t, [Top(t) EXCEPT
                    !.calls = Append(@, CallOf(Named(t), Len(compile.errors)))])
    /\ UNCHANGED <<saved, owner, waiting, dead>>

\* A file's last statement: only now it is parsed, and its declarations are its
\* importer's.
Joined(importer, own) ==
    [importer EXCEPT !.next = @ + 1,
                     !.bodies = Append(@ \o own.bodies, own.file)]

Left(calls) == Append(Front(Front(calls)), Joined(Last(Front(calls)), Last(calls)))

FinishFile(t) ==
    /\ AtEnd(t) /\ ~Outermost(t)
    /\ compile' = [compile EXCEPT !.imported = @ \cup {Call(t).file},
                                  !.stack = Front(@)]
    /\ tasks' = WithTop(t, [Top(t) EXCEPT !.calls = Left(@)])
    /\ UNCHANGED <<saved, owner, waiting, dead>>
(***************************************************************************)
(* Errors.                                                                 *)
(***************************************************************************)
\* DiagnosticEngine::add: one error per line number, unless all are wanted.
Suppressed(error) == ~compile.collectAll /\ error.line \in compile.errorLines

Add(t) ==
    /\ Running(t) /\ Top(t).raised # None
    /\ LET error == Top(t).raised
       IN  compile' = IF Suppressed(error) THEN compile
                        ELSE [compile EXCEPT !.errors = Append(@, error),
                                             !.errorLines = @ \cup {error.line}]
    /\ tasks' = WithTop(t, [Top(t) EXCEPT !.raised = None, !.failing = TRUE])
    /\ UNCHANGED <<saved, owner, waiting, dead>>

\* The file fails, and its import with it; no diagnostic since the import was
\* reached means to ParseModuleImportByName that the file was not there.
FailFile(t) ==
    /\ Running(t) /\ Top(t).failing /\ ~Outermost(t)
    /\ compile' = [compile EXCEPT !.stack = Front(@)]
    /\ LET importer == Last(Front(Top(t).calls))
           missing == Len(compile.errors) = Call(t).count
       IN  tasks' = WithTop(t, [Top(t) EXCEPT
                        !.calls = Front(@),
                        !.failing = ~missing,
                        !.raised = IF missing
                                     THEN [kind |-> "absent", file |-> importer.file,
                                           line |-> importer.next, chain |-> <<>>]
                                     ELSE None])
    /\ UNCHANGED <<saved, owner, waiting, dead>>

\* SkipToNextTopLevelBoundary in the loop over the entry file.
Recover(t) ==
    /\ Running(t) /\ Top(t).failing /\ Outermost(t) /\ Top(t).at = "entry"
    /\ tasks' = WithTop(t, [Top(t) EXCEPT !.failing = FALSE,
                                          !.calls = <<Skipped(@[1])>>])
    /\ UNCHANGED <<compile, saved, owner, waiting, dead>>

PreludeFails(t) ==
    Running(t) /\ Top(t).failing /\ Outermost(t) /\ Top(t).at = "prelude"

\* parseEntryFile catches ModuleNotFoundError for a prelude module that is not
\* there, and goes on without what the prelude gave so far.
GoesOn(t) == Top(t).kind = "analysis" /\ Named(t) = Absent

\* ParsePreludeImports: a prelude module that is there and fails is
\* report_fatal_error; in turfc nothing catches that one is not there.
GiveUp(t) ==
    /\ PreludeFails(t) /\ ~GoesOn(t)
    /\ dead' = TRUE
    /\ UNCHANGED <<compile, saved, tasks, owner, waiting>>

\* What is dropped stays parsed: an import of it finds nothing.
Emptied(prelude, length) == [prelude EXCEPT !.next = length + 1, !.bodies = <<>>]

WithoutPrelude(t) ==
    /\ PreludeFails(t) /\ GoesOn(t)
    /\ tasks' = WithTop(t, [Top(t) EXCEPT
                    !.failing = FALSE,
                    !.calls = <<Emptied(@[1], Len(Statements(t)))>>])
    /\ UNCHANGED <<compile, saved, owner, waiting, dead>>

(***************************************************************************)
(* Passes.                                                                 *)
(***************************************************************************)
Claimed(c) == [c EXCEPT !.imported = @ \cup {Main}]
EntryCall(prelude) == [prelude EXCEPT !.next = 1, !.bodies = Append(@, Main)]

\* ClaimEntryFileImportSlot: the prelude's imports may have parsed it.
FinishPrelude(t) ==
    /\ AtEnd(t) /\ Outermost(t) /\ Top(t).at = "prelude"
    /\ IF Main \in compile.imported
         THEN /\ tasks' = WithTop(t, [Top(t) EXCEPT !.at = "over"])
              /\ UNCHANGED compile
         ELSE /\ compile' = Claimed(compile)
              /\ tasks' = WithTop(t, [Top(t) EXCEPT
                              !.at = "entry",
                              !.calls = <<EntryCall(@[1])>>])
    /\ UNCHANGED <<saved, owner, waiting, dead>>

FinishEntry(t) ==
    /\ AtEnd(t) /\ Outermost(t) /\ Top(t).at = "entry"
    /\ tasks' = WithTop(t, [Top(t) EXCEPT !.at = "over"])
    /\ UNCHANGED <<compile, saved, owner, waiting, dead>>

Over(t) == Running(t) /\ Top(t).at = "over"

\* Mutant: the main pass finds the files parsed that the pre-pass has parsed.
NextPassKeepsFiles(t) ==
    /\ Over(t) /\ Top(t).kind = "turfc" /\ Top(t).pass = 1
    /\ tasks' = WithTop(t, [Task("turfc", Top(t).text) EXCEPT !.pass = 2,
                                                             !.asked = Top(t).asked])
    /\ UNCHANGED <<compile, saved, owner, waiting, dead>>

\* ClearParsedTopLevelASTs, and the main pass after the pre-pass.
NextPass(t) ==
    /\ Over(t) /\ Top(t).kind = "turfc" /\ Top(t).pass = 1
    /\ compile' = [compile EXCEPT !.imported = {}, !.stack = <<>>]
    /\ tasks' = WithTop(t, [Task("turfc", Top(t).text) EXCEPT !.pass = 2,
                                                             !.asked = Top(t).asked])
    /\ UNCHANGED <<saved, owner, waiting, dead>>

\* A compile is over after its main pass, or where the resolver refused what
\* the pre-pass parsed.
Exit(t) ==
    /\ Over(t) /\ Top(t).kind = "turfc"
    /\ tasks' = [tasks EXCEPT ![t] = Front(@)]
    /\ UNCHANGED <<compile, saved, owner, waiting, dead>>

(***************************************************************************)
(* Analyses.                                                               *)
(***************************************************************************)
\* Inside a compile: DiagnosticEngine::add has a fix for its first error
\* analysed before it records the error.  Inside an analysis: its caller's
\* ShouldCancel.  At most one for each, and none inside that one.
Ask(t) ==
    /\ Running(t) /\ ~Top(t).asked /\ Len(tasks[t]) = 1
    /\ \/ Top(t).kind = "turfc" /\ Top(t).raised # None /\ ~Suppressed(Top(t).raised)
       \/ Top(t).kind = "analysis" /\ Top(t).at = "over"
    /\ tasks' = WithTop(t, [Top(t) EXCEPT !.asked = TRUE])
    /\ waiting' = waiting \cup {t}
    /\ UNCHANGED <<compile, saved, owner, dead>>

\* Mutant: a lock that its own thread waits for too.
PlainLock(t) == owner = None

\* AnalysisMutex, a std::recursive_mutex.
MayLock(t) == owner \in {None, t}

\* analyze(): the lock, the scope and the analysis's first token.
Begin(t) ==
    /\ ~dead /\ t \in waiting /\ MayLock(t)
    /\ owner' = t
    /\ waiting' = waiting \ {t}
    /\ saved' = Append(saved, compile)
    /\ compile' = Opened(compile)
    /\ \E text \in Analysed :
         tasks' = [tasks EXCEPT ![t] = Append(@, Task("analysis", text))]
    /\ UNCHANGED dead

Analyses(t) == {i \in DOMAIN tasks[t] : tasks[t][i].kind = "analysis"}

\* The scope puts back what it found, then the lock is given up.
Return(t) ==
    /\ Over(t) /\ Top(t).kind = "analysis"
    /\ tasks' = [tasks EXCEPT ![t] = Front(@)]
    /\ compile' = Last(saved)
    /\ saved' = Front(saved)
    /\ owner' = IF Analyses(t) = {Len(tasks[t])} THEN None ELSE owner
    /\ UNCHANGED <<waiting, dead>>

ParseStep(t) ==
    \/ BreakOff(t) \/ SkipSelf(t) \/ Circular(t) \/ AlreadyParsed(t)
    \/ Enter(t) \/ FinishFile(t)
    \/ Add(t) \/ FailFile(t) \/ Recover(t) \/ GiveUp(t) \/ WithoutPrelude(t)
    \/ FinishPrelude(t) \/ FinishEntry(t)

Next ==
    \E t \in Thread :
        ParseStep(t) \/ NextPass(t) \/ Exit(t) \/ Ask(t) \/ Begin(t) \/ Return(t)

Spec == Init /\ [][Next]_vars

\* A thread that can go on does, and one that waits for a free lock gets it.
FairSpec ==
    /\ Spec
    /\ \A t \in Thread :
         /\ WF_vars(ParseStep(t)) /\ WF_vars(NextPass(t) \/ Exit(t))
         /\ WF_vars(Begin(t)) /\ WF_vars(Return(t))

(***************************************************************************)
(* Properties.                                                             *)
(***************************************************************************)
\* The least set of files among kept that holds the roots and what a file of it
\* imports.
Downstream(text, kept, roots) ==
    {f \in kept : \A S \in SUBSET kept :
        (roots \cap kept \subseteq S /\ \A g \in S : Range(text[g]) \cap kept \subseteq S)
            => f \in S}

Reached(text) == Downstream(text, File, {Main} \cup Range(text[Prelude]))

\* No file imports itself, directly or through others; the entry file is left
\* out, which its imports may import back
\* (tests/22_prelude/entry_file_reimported_transitively.tr).
InNoCircle(text) ==
    LET modules == Reached(text) \ {Main}
    IN  \A f \in modules : f \notin Downstream(text, modules, Range(text[f]))

\* The types of what each of them holds.
Error == [kind : {"syntax", "absent", "loop"}, file : File, line : Nat, chain : Seq(File)]
CompileState == [imported : SUBSET File, stack : Seq(File), errors : Seq(Error),
                 errorLines : SUBSET Nat, collectAll : BOOLEAN]
CallState == [file : File, next : Nat, bodies : Seq(File), count : Nat]
TaskState == [kind : {"turfc", "analysis"}, text : Text, pass : {1, 2},
              at : {"prelude", "entry", "over"}, calls : Seq(CallState) \ {<<>>},
              raised : Error \cup {None}, failing : BOOLEAN, asked : BOOLEAN]

TypeOK ==
    /\ compile \in CompileState
    /\ saved \in Seq(CompileState)
    /\ tasks \in [Thread -> Seq(TaskState)]
    /\ owner \in Thread \cup {None}
    /\ waiting \subseteq Thread
    /\ dead \in BOOLEAN

\* What a compile accumulates is only ever one thread's: threads whose compile
\* or analysis is under way are one (AnalysisMutex, AnalysisFacade.cpp:159).
OneAtATime ==
    \A t, u \in Thread : tasks[t] # <<>> /\ tasks[u] # <<>> => t = u

\* No file's declarations come into a program twice, neither by an import nor as
\* the entry file and a module in one (ImportedFiles and ClaimEntryFileImportSlot,
\* ParserModule.cpp:405, 1468), and no file is parsed in the middle of itself.
NoBodyTwice ==
    \A t \in Thread : tasks[t] # <<>> =>
        /\ \A c \in DOMAIN Top(t).calls :
             LET bodies == Top(t).calls[c].bodies
             IN  \A i, j \in DOMAIN bodies : bodies[i] = bodies[j] => i = j
        /\ \A i, j \in DOMAIN compile.stack : compile.stack[i] = compile.stack[j] => i = j

\* Each file's declarations come into the program once, and if nothing is
\* reported those of all the files reached do, in either pass, and the modules
\* wait for each other in no circle.
EveryBodyOnce ==
    \A t \in Thread : Over(t) =>
        LET bodies == Call(t).bodies
        IN  /\ \A i, j \in DOMAIN bodies : bodies[i] = bodies[j] => i = j
            /\ compile.errors = <<>> =>
                 /\ Range(bodies) = Reached(Top(t).text)
                 /\ InNoCircle(Top(t).text)

\* Every compile and every analysis that was asked for ends, with a result or
\* with the process, also one started inside another.
LoadEnds == <>(dead \/ (waiting = {} /\ \A t \in Thread : tasks[t] = <<>>))
=============================================================================
