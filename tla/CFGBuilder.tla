----------------------------- MODULE CFGBuilder -----------------------------
(***************************************************************************)
(* CFGBuilder (src/src/analysis/CFG.cpp): the graph of a function from its *)
(* body.  A body is a sequence of statements of FlowGraph and of the       *)
(* compound ones below; an optional part is a sequence of at most one.     *)
(***************************************************************************)
EXTENDS FlowGraph

BlockOf(body)         == [op |-> "block", body |-> body]
If(branches, other)   == [op |-> "if", branches |-> branches, other |-> other]
Branch(e, body)       == [e |-> e, body |-> body]
While(e, body)        == [op |-> "while", e |-> e, body |-> body]
DoWhile(body, e)      == [op |-> "dowhile", e |-> e, body |-> body]
For(body)             == [op |-> "for", body |-> body]
Compare(e, arms, other, exhaustive) ==
  [op |-> "compare", e |-> e, arms |-> arms, other |-> other, exhaustive |-> exhaustive]
Arm(guards, body)     == [guards |-> guards, body |-> body]  \* one header per guard
Recover(s, body)      == [op |-> "recover", s |-> s, body |-> body]

-----------------------------------------------------------------------------
(* The builder: the graph so far, the insertion point (0 for none), the    *)
(* open scopes' deferred statements, the innermost loop's targets with the *)
(* scopes open at its body, and whether an error was raised.               *)

NoLoop == [brk |-> 0, cont |-> 0, depth |-> 0]

Started == [g |-> <<EmptyBlock, EmptyBlock>>, cur |-> Entry, scopes |-> <<>>,
            loop |-> NoLoop, err |-> FALSE]

CanFall(c) == c.cur # 0 /\ ~HasExplicitTerminator(c.g[c.cur])
Newest(c) == Len(c.g)
CreateBlock(c) == [c EXCEPT !.g = Append(@, EmptyBlock)]
AddEdge(c, a, b) == [c EXCEPT !.g[a].succ = Append(@, b)]
SetTerminator(c, a, term) == [c EXCEPT !.g[a].term = term]
AddStatement(c, a, s) == [c EXCEPT !.g[a].stmts = Append(@, s)]
InsertAt(c, b) == [c EXCEPT !.cur = b]
FallTo(c, b) == IF CanFall(c) THEN AddEdge(c, c.cur, b) ELSE c
Fork(c, a, yes, no) == SetTerminator(AddEdge(AddEdge(c, a, yes), a, no), a, "branch")
Jump(c, a, b) == SetTerminator(AddEdge(c, a, b), a, "jump")

Backwards(s) == [i \in 1..Len(s) |-> s[Len(s) + 1 - i]]

\* What leaving the scopes above a depth runs: innermost first, each backwards.
DeferredRunsOuterFirst(scopes, depth) ==  \* Mutant: the outermost scope first.
  LET runs[n \in depth..Len(scopes)] == IF n = depth THEN <<>> ELSE runs[n - 1] \o Backwards(scopes[n])
  IN runs[Len(scopes)]

DeferredRuns(scopes, depth) ==
  LET runs[n \in depth..Len(scopes)] == IF n = depth THEN <<>> ELSE Backwards(scopes[n]) \o runs[n - 1]
  IN runs[Len(scopes)]

EmitDeferredRuns(c, depth) ==
  [c EXCEPT !.g[c.cur].runs = @ \o DeferredRuns(c.scopes, depth)]

\* return, break and continue: the block ends and nothing follows it.
Leave(c, term, target) ==
  InsertAt(AddEdge(SetTerminator(c, c.cur, term), c.cur, target), 0)

visitReturn(c, s) == Leave(EmitDeferredRuns(AddStatement(c, c.cur, s), 0), "return", Exit)

visitBreak(c, s) ==
  IF c.loop.brk = 0 THEN [c EXCEPT !.err = TRUE]
  ELSE Leave(AddStatement(EmitDeferredRuns(c, c.loop.depth), c.cur, s), "break", c.loop.brk)

visitContinue(c, s) ==
  IF c.loop.cont = 0 THEN [c EXCEPT !.err = TRUE]
  ELSE Leave(AddStatement(EmitDeferredRuns(c, c.loop.depth), c.cur, s), "continue", c.loop.cont)

visitDefer(c, s) == AddStatement([c EXCEPT !.scopes[Len(c.scopes)] = Append(@, s.s)], c.cur, s)

RECURSIVE visitExpr(_, _), visitAll(_, _), visitBranches(_, _, _, _, _, _), visitHeaders(_, _, _, _, _),
          visitArms(_, _, _, _, _)

visitAll(c, body) == IF body = <<>> THEN c ELSE visitAll(visitExpr(c, Head(body)), Tail(body))

visitBlock(c, body) ==
  LET d == visitAll([c EXCEPT !.scopes = Append(@, <<>>)], body)
      e == IF CanFall(d) THEN EmitDeferredRuns(d, Len(d.scopes) - 1) ELSE d
  IN [e EXCEPT !.scopes = SubSeq(@, 1, Len(@) - 1)]

\* Mutant: the two targets are swapped.
visitLoopBodySwapped(c, n, b, brk, cont) ==
  [visitBlock([InsertAt(c, b) EXCEPT !.loop = [brk |-> cont, cont |-> brk, depth |-> Len(c.scopes)]], n.body)
     EXCEPT !.loop = c.loop]

\* A body built under a loop's targets, which the caller's loop gets back.
visitLoopBody(c, n, b, brk, cont) ==
  [visitBlock([InsertAt(c, b) EXCEPT !.loop = [brk |-> brk, cont |-> cont, depth |-> Len(c.scopes)]], n.body)
     EXCEPT !.loop = c.loop]

\* if: each condition is the last statement of its block; without an else the
\* last one falls to the merge block.
visitBranches(c, branches, other, cond, merge, live) ==
  IF branches = <<>>
  THEN IF other = <<>> THEN InsertAt(c, merge)
       ELSE LET d == visitBlock(InsertAt(c, cond), other[1])
            IN InsertAt(FallTo(d, merge), IF live \/ CanFall(d) THEN merge ELSE 0)
  ELSE LET c1 == CreateBlock(c)
           then == Newest(c1)
           more == Len(branches) > 1 \/ other # <<>>
           c2 == IF more THEN CreateBlock(c1) ELSE c1
           next == IF more THEN Newest(c2) ELSE merge
           c3 == Fork(AddStatement(c2, cond, Eval(branches[1].e)), cond, then, next)
           d == visitBlock(InsertAt(c3, then), branches[1].body)
       IN visitBranches(FallTo(d, merge), Tail(branches), other, next, merge, live \/ CanFall(d))

visitIf(c, n) ==
  LET c1 == CreateBlock(c) IN visitBranches(c1, n.branches, n.other, c.cur, Newest(c1), FALSE)

\* compare: a chain of tests.  `prev` fails over to the next test; it becomes
\* a branch once it has a fail edge, unless it is the compare's own entry.
FailTo(c, prev, entry, b) ==
  IF prev = entry THEN AddEdge(c, prev, b) ELSE SetTerminator(AddEdge(c, prev, b), prev, "branch")

visitHeaders(c, guards, prev, entry, arm) ==
  IF guards = <<>> THEN [c |-> c, prev |-> prev]
  ELSE LET c1 == CreateBlock(c)
           test == Newest(c1)
           c2 == AddStatement(FailTo(c1, prev, entry, test), test, Eval(Opaque))
           c3 == IF guards[1] = <<>> THEN c2 ELSE AddStatement(c2, test, Eval(guards[1][1]))
       IN visitHeaders(Jump(c3, test, arm), Tail(guards), test, entry, arm)

visitArms(c, arms, prev, entry, merge) ==
  IF arms = <<>> THEN [c |-> c, prev |-> prev]
  ELSE LET c1 == CreateBlock(c)
           arm == Newest(c1)
           h == visitHeaders(c1, arms[1].guards, prev, entry, arm)
           d == visitBlock(InsertAt(h.c, arm), arms[1].body)
       IN visitArms(FallTo(d, merge), Tail(arms), h.prev, entry, merge)

\* The compare itself never ends the path, whatever its arms do.
visitCompare(c, n) ==
  LET entry == c.cur
      c1 == CreateBlock(c)
      merge == Newest(c1)
      a == visitArms(SetTerminator(AddStatement(c1, entry, Eval(n.e)), entry, "jump"),
                     n.arms, entry, entry, merge)
      o == CreateBlock(a.c)
      d == IF n.other # <<>>
             THEN FallTo(visitBlock(InsertAt(FailTo(o, a.prev, entry, Newest(o)), Newest(o)), n.other[1]), merge)
           ELSE IF n.exhaustive THEN a.c ELSE FailTo(a.c, a.prev, entry, merge)
  IN InsertAt(d, merge)

\* Where a loop's condition leads: `true` has no way out.
CondEdges(c, e, cond, body, exit) ==
  LET c1 == AddStatement(c, cond, Eval(e))
  IN IF e = Literally THEN Jump(c1, cond, body) ELSE Fork(c1, cond, body, exit)

visitWhile(c, n) ==
  LET c1 == CreateBlock(CreateBlock(CreateBlock(c)))
      cond == Newest(c) + 1
      body == Newest(c) + 2
      exit == Newest(c) + 3
      c2 == CondEdges(Jump(c1, c.cur, cond), n.e, cond, body, exit)
  IN InsertAt(FallTo(visitLoopBody(c2, n, body, exit, cond), cond), exit)

visitDoWhile(c, n) ==
  LET c1 == CreateBlock(CreateBlock(CreateBlock(c)))
      body == Newest(c) + 1
      cond == Newest(c) + 2
      exit == Newest(c) + 3
      c2 == FallTo(visitLoopBody(Jump(c1, c.cur, body), n, body, exit, cond), cond)
  IN InsertAt(CondEdges(c2, n.e, cond, body, exit), exit)

\* for and for-each: continue goes to the step.
visitFor(c, n) ==
  LET c1 == CreateBlock(CreateBlock(CreateBlock(CreateBlock(c))))
      cond == Newest(c) + 1
      body == Newest(c) + 2
      step == Newest(c) + 3
      exit == Newest(c) + 4
      c2 == Fork(AddStatement(Jump(c1, c.cur, cond), cond, Eval(Opaque)), cond, body, exit)
  IN InsertAt(Jump(FallTo(visitLoopBody(c2, n, body, exit, step), step), step, cond), exit)

\* A `recover run` block is a branch placed before its statement.
branchToRecoverBlocks(c, n) ==
  LET c1 == CreateBlock(CreateBlock(c))
      ok == Newest(c) + 1
      run == Newest(c) + 2
      c2 == AddEdge(AddEdge(c1, c.cur, ok), c.cur, run)
      d == FallTo(visitBlock(InsertAt(c2, run), n.body), ok)
  IN AddStatement(InsertAt(SetTerminator(d, c.cur, "jump"), ok), ok, n.s)

\* A statement after a jump is an error, reported where it is built.
visitExpr(c, n) ==
  IF ~CanFall(c) THEN [c EXCEPT !.err = TRUE]
  ELSE CASE n.op = "block"    -> visitBlock(c, n.body)
         [] n.op = "if"       -> visitIf(c, n)
         [] n.op = "while"    -> visitWhile(c, n)
         [] n.op = "dowhile"  -> visitDoWhile(c, n)
         [] n.op = "for"      -> visitFor(c, n)
         [] n.op = "compare"  -> visitCompare(c, n)
         [] n.op = "recover"  -> branchToRecoverBlocks(c, n)
         [] n.op = "return"   -> visitReturn(c, n)
         [] n.op = "break"    -> visitBreak(c, n)
         [] n.op = "continue" -> visitContinue(c, n)
         [] n.op = "defer"    -> visitDefer(c, n)
         [] OTHER             -> AddStatement(c, c.cur, n)

buildCFG(body) == LET d == visitBlock(Started, body) IN FallTo(d, Exit)
=============================================================================
