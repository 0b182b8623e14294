--------------------------- MODULE MCMonomorphize ---------------------------
(***************************************************************************)
(* Programs over one function f, one method m, one constructor c and one   *)
(* struct s: all bodies with at most one call from the lists below, and    *)
(* some with two.                                                          *)
(***************************************************************************)
EXTENDS Monomorphize

MCTemplate == {"f", "m", "c", "s"}
MCDeclared == <<"f", "m", "c", "s">>
MCKind == [f |-> "function", m |-> "method", c |-> "constructor", s |-> "struct"]

To(to, arg) == [to |-> to, arg |-> arg, built |-> NoType]
Building(arg, built) == [to |-> "c", arg |-> arg, built |-> built]

Widened == Building(IntType, DoubleType)

\* main: one or two calls.
MCMain ==
    {<<To("f", IntType)>>, <<Widened>>, <<To("s", IntType)>>} \cup
    {<<x, y>> : x \in {To("f", IntType), To("c", IntType), To("m", DoubleType)},
                y \in {To("m", IntType), Widened, To("s", IntType)}}

MCFunctionBody ==
    {<< >>, <<To("f", Boxed)>>, <<To("m", Own)>>, <<To("c", Own)>>,
     <<To("f", DoubleType), To("m", Boxed)>>,
     <<Building(IntType, Own)>>}

MCMethodBody ==
    {<< >>, <<To("f", Own)>>, <<To("m", Boxed), To("c", Boxed)>>,
     <<To("s", Own), Building(IntType, Own)>>, <<Widened, To("f", Boxed)>>}

MCConstructorBody ==
    {<< >>, <<To("m", Own)>>, <<To("f", DoubleType)>>,
     <<To("s", Boxed), To("m", Own)>>}

MCStructBody == {<< >>, <<To("s", Boxed)>>, <<To("s", DoubleType)>>}

MCPrograms ==
    [code : MCMain,
     body : [f : MCFunctionBody, m : MCMethodBody, c : MCConstructorBody,
             s : MCStructBody]]
=============================================================================
