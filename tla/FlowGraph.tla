------------------------------ MODULE FlowGraph ------------------------------
(***************************************************************************)
(* What the compiler's flow passes read (src/src/analysis/CFG.h and the    *)
(* statement walks of Analysis.cpp): a function as a graph of basic blocks *)
(* and, for one statement, what the passes take it to read, assign and     *)
(* narrow.  Block 1 is the entry and block 2 the exit.                     *)
(*                                                                         *)
(* An expression is an atom, the negation of one, or a conjunction or      *)
(* disjunction of two.  A statement is an expression (a condition is one   *)
(* too), an assignment, a declaration, a jump, or a deferred statement.    *)
(***************************************************************************)
EXTENDS Integers, Sequences

CONSTANTS Local,  \* locals declared without an initializer
          Ref     \* variables of type &?T

-----------------------------------------------------------------------------
(* Expressions and statements.                                             *)

Opaque     == [t |-> "opaque"]           \* says nothing about any variable
Literally  == [t |-> "true"]             \* the literal `true`
Use(x)     == [t |-> "use", v |-> x]     \* reads the value of x
Field(p)   == [t |-> "field", v |-> p]   \* reads p.val
IsNull(p)  == [t |-> "null", v |-> p]    \* p == null
NotNull(p) == [t |-> "nonnull", v |-> p] \* p != null
Not(a)     == [t |-> "not", l |-> a]
And(a, b)  == [t |-> "and", l |-> a, r |-> b]
Or(a, b)   == [t |-> "or", l |-> a, r |-> b]

Eval(e)     == [op |-> "eval", e |-> e]
Return(e)   == [op |-> "return", e |-> e]
Declare(x)  == [op |-> "decl", v |-> x]
Set(x)      == [op |-> "set", v |-> x]            \* x = 1
SetNull(p)  == [op |-> "setnull", v |-> p]        \* p = null
SetRef(p)   == [op |-> "setref", v |-> p]         \* p = &n
SetCall(p)  == [op |-> "setcall", v |-> p]        \* p = f()
Copy(p, q)  == [op |-> "copy", v |-> p, from |-> q]
Defer(s)    == [op |-> "defer", s |-> s]
Break       == [op |-> "break"]
Continue    == [op |-> "continue"]

Expressions(s) == IF s.op \in {"eval", "return"} THEN {s.e} ELSE {}

-----------------------------------------------------------------------------
(* Blocks, edges, the check for a missing return.                          *)

Entry == 1
Exit  == 2
EmptyBlock == [stmts |-> <<>>, succ |-> <<>>, term |-> "none", runs |-> <<>>]

HasExplicitTerminator(blk) == blk.term \in {"return", "break", "continue"}

\* The edges into b, as the block and the place in its successors.
EdgesInto(g, b) ==
  {e \in (1..Len(g)) \X (1..2) : e[2] <= Len(g[e[1]].succ) /\ g[e[1]].succ[e[2]] = b}

Reachable(g) ==
  LET upto[n \in 0..Len(g)] ==
        IF n = 0 THEN {Entry}
        ELSE LET r == upto[n - 1] IN r \cup UNION {{g[b].succ[i] : i \in 1..Len(g[b].succ)} : b \in r}
  IN upto[Len(g)]

\* Mutant: one returning path is taken for all of them.
SomePathReturns(g) ==
  \E e \in EdgesInto(g, Exit) : e[1] \in Reachable(g) /\ g[e[1]].term = "return"

AllPathsReturn(g) ==
  \A e \in EdgesInto(g, Exit) : e[1] \in Reachable(g) => g[e[1]].term = "return"

-----------------------------------------------------------------------------
(* DefiniteAssignmentPass: what a statement reads and defines.  A deferred *)
(* statement counts where it is written.                                   *)

Atoms(e) == CASE e.t \in {"and", "or"} -> {e.l, e.r}
              [] e.t = "not" -> {e.l}
              [] OTHER -> {e}

Written(s) == IF s.op = "defer" THEN s.s ELSE s
Defines(s) == IF Written(s).op = "set" THEN {Written(s).v} ELSE {}
Reads(s) == {a.v : a \in {b \in UNION {Atoms(e) : e \in Expressions(Written(s))} : b.t = "use"}}

AllBodyDeclared(g) ==
  {x \in Local : \E b \in 1..Len(g) : \E i \in 1..Len(g[b].stmts) : g[b].stmts[i] = Declare(x)}

-----------------------------------------------------------------------------
(* NullabilityPass: the variables proven non-null when an expression is    *)
(* true and when it is false, from those proven before it.                 *)

NarrowAtom(a, S) ==
  CASE a.t = "nonnull" -> [t |-> S \cup {a.v}, f |-> S \ {a.v}]
    [] a.t = "null"    -> [t |-> S \ {a.v}, f |-> S \cup {a.v}]
    [] OTHER           -> [t |-> S, f |-> S]

\* Mutant: a false conjunction narrows by its left part alone.
NarrowByLeft(e, S) ==
  CASE e.t = "and" -> LET l == NarrowAtom(e.l, S) IN [t |-> NarrowAtom(e.r, l.t).t, f |-> l.f]
    [] OTHER       -> NarrowAtom(e, S)

Narrow(e, S) ==
  CASE e.t = "and" -> LET l == NarrowAtom(e.l, S)
                          r == NarrowAtom(e.r, l.t)
                      IN [t |-> r.t, f |-> l.f \cap r.f]
    [] e.t = "or"  -> LET l == NarrowAtom(e.l, S)
                          r == NarrowAtom(e.r, l.f)
                      IN [t |-> l.t \cap r.t, f |-> r.f]
    [] OTHER       -> NarrowAtom(e, S)

UnprovenAtom(a, S) == a.t = "field" /\ a.v \notin S

\* Some dereference in the expression is not proven safe.
Unproven(e, S) ==
  CASE e.t = "and" -> UnprovenAtom(e.l, S) \/ UnprovenAtom(e.r, NarrowAtom(e.l, S).t)
    [] e.t = "or"  -> UnprovenAtom(e.l, S) \/ UnprovenAtom(e.r, NarrowAtom(e.l, S).f)
    [] e.t = "not" -> UnprovenAtom(e.l, S)
    [] OTHER       -> UnprovenAtom(e, S)

\* The sets after a statement; only an expression splits them.  A deferred
\* statement is not visited.
NarrowBy(s, S) ==
  LET one(T) == [t |-> T, f |-> T] IN
  CASE s.op = "eval" -> Narrow(s.e, S)
    [] s.op \in {"setnull", "setcall"} -> one(S \ {s.v})
    [] s.op = "setref" -> one(S \cup {s.v})
    [] s.op = "copy" -> one(IF s.from \in S THEN S \cup {s.v} ELSE S \ {s.v})
    [] OTHER -> one(S)

Mentions(s) == (IF "v" \in DOMAIN Written(s) THEN {Written(s).v} ELSE {})
                 \cup UNION {{a.v : a \in {b \in Atoms(e) : "v" \in DOMAIN b}} : e \in Expressions(Written(s))}
                 \cup (IF Written(s).op = "copy" THEN {Written(s).from} ELSE {})

\* The &?T variables the function touches.
Tracked(g) ==
  Ref \cap UNION {UNION {Mentions(g[b].stmts[i]) : i \in 1..Len(g[b].stmts)} : b \in 1..Len(g)}

=============================================================================
