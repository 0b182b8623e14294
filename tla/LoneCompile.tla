---------------------------- MODULE LoneCompile ----------------------------
(***************************************************************************)
(* What loading a program comes to in a process that does nothing else,    *)
(* as a function of its text: a reference for module Imports, without its  *)
(* import stack, its process-wide state and its steps.                     *)
(***************************************************************************)
EXTENDS Imports

\* What is known so far: the files parsed, whose declarations there are, the
\* errors, and whether the file at hand still parses.
Start == [parsed |-> {}, bodies |-> <<>>, errors |-> <<>>, ok |-> TRUE]

Wrong(r, kind, file, line, chain) ==
    [r EXCEPT !.ok = FALSE,
              !.errors = Append(@, [kind |-> kind, file |-> file, line |-> line,
                                    chain |-> chain])]

\* From the first file of a path that is the one named, to the path's end.
From(path, file) ==
    LET first == CHOOSE i \in DOMAIN path : path[i] = file
    IN  [i \in 1 .. Len(path) - first + 1 |-> path[first + i - 1]]

RECURSIVE Loaded(_, _, _, _, _)

\* Statement s, at a line of a file that is reached by a path of imports.
After(text, path, r, s, file, line) ==
    LET inner == Loaded(text, Append(path, s), [r EXCEPT !.bodies = <<>>], s, 1)
    IN  CASE s = Broken -> Wrong(r, "syntax", file, line, <<>>)
          [] s = Absent -> Wrong(r, "absent", file, line, <<>>)
          [] s \in Range(path) -> Wrong(r, "loop", file, line, From(path, s))
          [] s \in r.parsed -> r
          [] OTHER ->
               IF inner.ok
                 THEN [inner EXCEPT !.bodies = r.bodies \o @ \o <<s>>,
                                    !.parsed = @ \cup {s}]
                 ELSE [inner EXCEPT !.bodies = r.bodies]

\* The statements of a file from a line on, as long as they parse.
Loaded(text, path, r, file, line) ==
    IF ~r.ok \/ line > Len(text[file]) THEN r
    ELSE Loaded(text, path, After(text, path, r, text[file][line], file, line),
                file, line + 1)

\* The first n of the prelude's modules.
Preluded(text, n) ==
    FoldLeft(LAMBDA r, i : IF ~r.ok \/ text[Prelude][i] = Main THEN r
                             ELSE After(text, <<>>, r, text[Prelude][i], Main, i),
             Start, [i \in 1 .. n |-> i])

\* One of them is not there, and those before it parse.
Lacking(text) ==
    \E i \in DOMAIN text[Prelude] : text[Prelude][i] = Absent /\ Preluded(text, i - 1).ok

\* The modules have to parse; where one is not there, an analysis does without
\* the declarations of any.
Begun(kind, text) ==
    LET r == Preluded(text, Len(text[Prelude]))
    IN  IF kind = "analysis" /\ Lacking(text) THEN [r EXCEPT !.ok = TRUE, !.bodies = <<>>]
        ELSE r

\* Then the entry file, each statement of which fails by itself.
Alone(kind, text) ==
    LET r0 == Begun(kind, text)
    IN  IF ~r0.ok \/ Main \in r0.parsed THEN r0
        ELSE FoldLeft(LAMBDA r, i :
                        [After(text, <<>>, r, text[Main][i], Main, i)
                           EXCEPT !.ok = TRUE],
                      [r0 EXCEPT !.parsed = @ \cup {Main},
                                 !.bodies = Append(@, Main)],
                      [i \in DOMAIN text[Main] |-> i])

\* Whatever was compiled, interrupted or analysed before or around it, on this
\* thread or another, a program that comes to a result comes to the one it has
\* alone, in each pass: the same declarations in the same order, and for an
\* analysis the same errors.  The process ends for no program that would not end
\* it alone (GlobalStateScope and AnalysisMutex, AnalysisFacade.cpp:63-160, 698;
\* what a failing prelude comes to is not at issue here).
SameAsAlone ==
    /\ \A t \in Thread : Over(t) =>
         LET alone == Alone(Top(t).kind, Top(t).text)
         IN  alone.ok =>
               /\ Call(t).bodies = alone.bodies
               /\ IF Top(t).kind = "analysis"
                    THEN compile.errors = alone.errors
                    ELSE (compile.errors = <<>>) = (alone.errors = <<>>)
    /\ dead => \E t \in Thread :
                 tasks[t] # <<>> /\ ~Alone(Top(t).kind, Top(t).text).ok
=============================================================================
