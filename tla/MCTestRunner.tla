---------------------------- MODULE MCTestRunner ----------------------------
EXTENDS TestRunner

File(kind, pins, fixes, cases, main) ==
    [kind |-> kind, pins |-> pins, fixes |-> fixes, cases |-> cases, main |-> main]

Plain == File("plain", TRUE, FALSE, <<>>, FALSE)
Abort == File("abort", FALSE, FALSE, <<>>, FALSE)
Rejected == File("fail", FALSE, TRUE, <<>>, FALSE)
\* The same two with what they expect to read pinned.
PinnedAbort == File("abort", TRUE, FALSE, <<>>, FALSE)
PinnedRejected == File("fail", TRUE, TRUE, <<>>, FALSE)
Functions == File("functions", FALSE, FALSE, <<"returns", "panic">>, FALSE)
WithMain == File("functions", FALSE, FALSE,
                 <<"compile_error", "exit", "error">>, TRUE)
\* `@test` at the start of a line of a comment.
Empty == File("functions", FALSE, FALSE, <<>>, FALSE)

\* Every two of five files, the pinned ones together, the empty one beside
\* another, and two suites with more files than workers.
MCSuites ==
    [1 .. 2 -> {Plain, Abort, Rejected, Functions, WithMain}]
      \cup {<<Plain, Rejected, Rejected>>, <<Abort, Plain, Plain>>,
            <<Empty, Rejected>>, <<PinnedAbort, PinnedRejected>>}
=============================================================================
