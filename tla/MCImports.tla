----------------------------- MODULE MCImports -----------------------------
EXTENDS LoneCompile

CONSTANTS e, p, a, b, bad, gone, pre

MCFile == {e, p, a, b}

UpToTwo(S) == {<<>>} \cup {<<x>> : x \in S} \cup {<<x, y>> : x, y \in S}

\* The entry file is itself one of the prelude's modules.
Program(given, entry, prelude, fa, fb) ==
    [f \in MCFile \cup {pre} |->
       CASE f = pre -> given [] f = e -> entry [] f = p -> prelude
         [] f = a -> fa [] f = b -> fb]

\* Every entry file of up to two statements over two modules that import each
\* other, the entry file, or fail, under preludes that import nothing, the
\* entry file or a module; and one that a prelude module is missing for.
MCCompiled ==
    {Program(<<e, p>>, entry, prelude, fa, fb) :
        entry \in UpToTwo({a, b, bad}), prelude \in {<<>>, <<e>>, <<a>>},
        fa \in UpToTwo({b, e, bad}), fb \in UpToTwo({a, e, gone})}
    \cup {Program(<<p, gone>>, <<a>>, <<>>, <<>>, <<>>)}

\* What a server, or the search for a fix, has analysed: a clean program, one
\* with a loop and a broken line, one whose prelude imports the entry file, one
\* whose prelude fails, and one that lacks a prelude module after another,
\* which the entry file imports.
MCAnalysed ==
    {Program(<<e, p>>, <<a, b>>, <<>>, <<b>>, <<e>>),
     Program(<<e, p>>, <<a, bad>>, <<>>, <<b, bad>>, <<a>>),
     Program(<<e, p>>, <<b, a>>, <<e>>, <<e>>, <<>>),
     Program(<<e, p>>, <<a>>, <<a>>, <<bad>>, <<>>),
     Program(<<p, gone, e>>, <<p, b>>, <<a>>, <<>>, <<>>)}
=============================================================================
