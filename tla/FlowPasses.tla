----------------------------- MODULE FlowPasses -----------------------------
(***************************************************************************)
(* DefiniteAssignmentPass and NullabilityPass (src/src/analysis/           *)
(* Analysis.cpp) over one function's graph.  Both are must-analyses of the *)
(* same shape: every block but the entry starts from all there is to prove,*)
(* sweeps over the blocks in order meet the predecessors' facts until one  *)
(* sweep changes nothing, and only then are the statements judged.         *)
(***************************************************************************)
EXTENDS FlowGraph, FiniteSets

ASSUME VariablesAssumption == IsFiniteSet(Local) /\ IsFiniteSet(Ref)

VARIABLES graph,    \* the function
          pass,     \* "assign", "null", or "done"
          universe, \* all the pass may prove
          at,       \* the next block of the sweep
          changed,  \* whether the sweep has changed a block
          in,       \* block -> facts that hold at its start
          out,      \* block -> facts that hold at its end: [t, f]
          rejected  \* whether a pass has reported an error

passVars == <<graph, pass, universe, at, changed, in, out, rejected>>

Blocks == 1..Len(graph)

-----------------------------------------------------------------------------
(* One block under one pass.                                               *)

Universe(g, p) == IF p = "assign" THEN AllBodyDeclared(g) ELSE Tracked(g)

After(p, s, S) == IF p = "assign" THEN [t |-> S \cup Defines(s), f |-> S \cup Defines(s)]
                  ELSE NarrowBy(s, S)

\* The facts after each statement of a block, by the true side.
Along(p, stmts, S) ==
  LET facts[n \in 0..Len(stmts)] ==
        IF n = 0 THEN [t |-> S, f |-> S]
        ELSE LET before == facts[n - 1].t IN After(p, stmts[n], before)
  IN facts

\* The false side exists only at a two-way branch.
ComputeOut(g, p, b, S) ==
  LET end == Along(p, g[b].stmts, S)[Len(g[b].stmts)]
      split == g[b].term = "branch" /\ Len(g[b].succ) = 2
  IN [t |-> end.t, f |-> IF split THEN end.f ELSE end.t]

\* Mutant: every block starts with nothing proven.
StartInEmpty(g, all) == [b \in 1..Len(g) |-> {}]

StartIn(g, all) == [b \in 1..Len(g) |-> IF b = Entry THEN {} ELSE all]
OutOf(g, p, I) == [b \in 1..Len(g) |-> ComputeOut(g, p, b, I[b])]

OnEdge(e) == IF e[2] = 1 THEN out[e[1]].t ELSE out[e[1]].f

NewIn(b) == {x \in universe : \A e \in EdgesInto(graph, b) : x \in OnEdge(e)}

\* A read the pass cannot prove.
Reported(p, s, S) ==
  IF p = "assign" THEN ~((Reads(s) \cap universe) \subseteq S)
  ELSE \E e \in Expressions(s) : Unproven(e, S)

Reports ==
  \E b \in Blocks : \E i \in 1..Len(graph[b].stmts) :
    Reported(pass, graph[b].stmts[i], Along(pass, graph[b].stmts, in[b])[i - 1].t)

-----------------------------------------------------------------------------
(* The sweeps.                                                             *)

Begin(p) ==
  /\ pass' = p
  /\ universe' = Universe(graph, p)
  /\ at' = 1
  /\ changed' = FALSE
  /\ in' = StartIn(graph, universe')
  /\ out' = OutOf(graph, p, in')

\* A function an earlier error stopped is not analysed.
PassInit(g, stopped) ==
  /\ graph = g
  /\ pass = IF stopped THEN "done" ELSE "assign"
  /\ universe = Universe(graph, "assign")
  /\ at = 1
  /\ changed = FALSE
  /\ in = StartIn(graph, universe)
  /\ out = OutOf(graph, "assign", in)
  /\ rejected = stopped

\* Mutant: every visit of a block with predecessors counts as a change.
VisitBlockAlways ==
  /\ pass # "done" /\ at \in Blocks
  /\ at' = at + 1
  /\ IF at = Entry \/ EdgesInto(graph, at) = {}
       THEN UNCHANGED <<changed, in, out>>
       ELSE /\ changed' = TRUE
            /\ in' = [in EXCEPT ![at] = NewIn(at)]
            /\ out' = [out EXCEPT ![at] = ComputeOut(graph, pass, at, NewIn(at))]
  /\ UNCHANGED <<graph, pass, universe, rejected>>

\* The entry, and a block nothing jumps to, keep what they have.
VisitBlock ==
  /\ pass # "done" /\ at \in Blocks
  /\ at' = at + 1
  /\ IF at = Entry \/ EdgesInto(graph, at) = {} \/ NewIn(at) = in[at]
       THEN UNCHANGED <<changed, in, out>>
       ELSE /\ changed' = TRUE
            /\ in' = [in EXCEPT ![at] = NewIn(at)]
            /\ out' = [out EXCEPT ![at] = ComputeOut(graph, pass, at, NewIn(at))]
  /\ UNCHANGED <<graph, pass, universe, rejected>>

SweepAgain ==
  /\ pass # "done" /\ at \notin Blocks /\ changed
  /\ at' = 1
  /\ changed' = FALSE
  /\ UNCHANGED <<graph, pass, universe, in, out, rejected>>

AtFixpoint == pass # "done" /\ at \notin Blocks /\ ~changed

\* An error stops the compilation; a function without a &?T skips its pass.
Report ==
  /\ AtFixpoint
  /\ rejected' = Reports
  /\ IF pass = "assign" /\ ~Reports /\ Tracked(graph) # {}
       THEN Begin("null")
       ELSE pass' = "done" /\ UNCHANGED <<universe, at, changed, in, out>>
  /\ UNCHANGED graph

PassStep == VisitBlock \/ SweepAgain \/ Report

PassSpec(g, stopped) == PassInit(g, stopped) /\ [][PassStep]_passVars

-----------------------------------------------------------------------------
(* When a pass judges, nothing is assumed at the entry, every block's      *)
(* facts are the meet of what its predecessors establish, and what it      *)
(* establishes is computed from them: no sweep may be the last one when a  *)
(* block was met from facts that changed after its visit (Analysis.cpp,    *)
(* runOnCFG and runNullabilityDataflow).                                   *)
Solved(b) == b = Entry \/ EdgesInto(graph, b) = {} \/ in[b] = NewIn(b)

JudgesAtFixpoint ==
  AtFixpoint => /\ in[Entry] = {}
                /\ \A b \in Blocks : Solved(b) /\ out[b] = ComputeOut(graph, pass, b, in[b])

-----------------------------------------------------------------------------
(* Ways.  A way ends at the start of a block b with the facts S that its   *)
(* own statements and branches prove; it begins with what its first block  *)
(* starts from, and leads on along the edges, but never back to the entry. *)

Sources(g) == {b \in 1..Len(g) : b = Entry \/ EdgesInto(g, b) = {}}

Starts(g, all) == {[b |-> b, S |-> StartIn(g, all)[b]] : b \in Sources(g)}

\* The facts a block's i-th edge leaves with.
Side(o, i) == IF i = 1 THEN o.t ELSE o.f

Onward(g, p, all, w) ==
  {v \in {[b |-> g[w.b].succ[i], S |-> all \cap Side(ComputeOut(g, p, w.b, w.S), i)] :
            i \in 1..Len(g[w.b].succ)} : v.b # Entry}

\* No way has to be followed for more steps than there are ends.
Ends(g, all) == [b : 1..Len(g), S : SUBSET all]
Further(g, p, all, found) == (UNION {Onward(g, p, all, w) : w \in found.new}) \ found.all

Ways(g, p, all) ==
  LET most == Cardinality(Ends(g, all))
      found[n \in 0..most] ==
        IF n = 0 THEN [new |-> Starts(g, all), all |-> Starts(g, all)]
        ELSE LET old == found[n - 1]
                 more == Further(g, p, all, old)
             IN [new |-> more, all |-> old.all \cup more]
  IN found[most].all

OnEveryWay(b, all, ways) == {x \in all : \A w \in ways : w.b = b => x \in w.S}

(* The passes lose nothing: when one judges, what it holds at a block is   *)
(* exactly what holds on every way to it (DefiniteAssignmentPass::runOnCFG *)
(* and runNullabilityDataflow).                                            *)
SolutionIsExact ==
  AtFixpoint => LET ways == Ways(graph, pass, universe)
                IN \A b \in Blocks : in[b] = OnEveryWay(b, universe, ways)

(* And a pass reports an error exactly when some way through the function  *)
(* reads what that way has not assigned, or dereferences what it has not   *)
(* checked (E008, E081).                                                   *)
VerdictIsExact ==
  AtFixpoint =>
    (Reports <=> \E w \in Ways(graph, pass, universe) : \E i \in 1..Len(graph[w.b].stmts) :
       Reported(pass, graph[w.b].stmts[i], Along(pass, graph[w.b].stmts, w.S)[i - 1].t))

(* The sweeps descend: a block never gets a fact back, and a sweep asks    *)
(* for another only after some block has lost one, which is why the loop   *)
(* while (Changed) ends.                                                   *)
SweepsDescend ==
  [][pass' = pass =>
       /\ \A b \in Blocks : in'[b] \subseteq in[b]
       /\ changed' /\ ~changed => \E b \in Blocks : in'[b] # in[b]]_passVars

\* A graph: every edge leads to a block, a block ends in at most two, and
\* every block is reached from the entry or from one nothing jumps to.
IsFlowGraph(g) ==
  LET upto[n \in 0..Len(g)] ==
        IF n = 0 THEN Sources(g)
        ELSE LET r == upto[n - 1] IN r \cup UNION {{g[b].succ[i] : i \in 1..Len(g[b].succ)} : b \in r}
  IN /\ Len(g) \in Nat /\ 1 <= Len(g)
     /\ \A b \in 1..Len(g) :
          /\ Len(g[b].stmts) \in Nat /\ Len(g[b].succ) \in 0..2
          /\ \A i \in 1..Len(g[b].succ) : g[b].succ[i] \in 1..Len(g)
     /\ upto[Len(g)] = 1..Len(g)
=============================================================================
