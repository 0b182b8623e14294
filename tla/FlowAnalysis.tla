---------------------------- MODULE FlowAnalysis ----------------------------
(***************************************************************************)
(* One function through the compiler and then as it runs.  Its body is     *)
(* built into a graph (CFGBuilder), the flow passes judge the graph        *)
(* (FlowPasses), and, if nothing was reported, the body runs as codegen    *)
(* lowers it (src/src/codegen/CodegenControlFlow.cpp, CodegenPattern.cpp): *)
(* a stack of open blocks and loops, each block with the statements its    *)
(* `defer`s have registered.                                               *)
(***************************************************************************)
EXTENDS FlowPasses, CFGBuilder, FiniteSets

CONSTANT Bodies   \* the function bodies

\* buildCFG makes graphs (TLC checks it of every body it is given).
ASSUME GraphsAssumption == \A b \in Bodies : IsFlowGraph(buildCFG(b).g)

VARIABLES body,     \* the function's body
          stack,    \* open blocks and loops, innermost first
          memory,   \* [assigned, promised, null, faults]
          flushed,  \* the deferred statements the last exit from a block ran
          status    \* "compiled", "running", "returned", or "fell" off the end

runVars == <<stack, memory, flushed, status>>
vars == <<passVars, body, runVars>>

-----------------------------------------------------------------------------
(* The TypeChecker's own check, before the passes: a deferred statement    *)
(* that dereferences a variable which a later statement of its block may   *)
(* set to null (TypeCheckerStmt.cpp, rejectDeferredNullableUse).           *)

RECURSIVE Inside(_)
Parts(n) ==  \* the bodies written inside a statement
  CASE n.op \in {"block", "while", "dowhile", "for", "recover"} -> {n.body}
    [] n.op = "if" -> {n.branches[i].body : i \in 1..Len(n.branches)} \cup {n.other[i] : i \in 1..Len(n.other)}
    [] n.op = "compare" -> {n.arms[i].body : i \in 1..Len(n.arms)} \cup {n.other[i] : i \in 1..Len(n.other)}
    [] OTHER -> {}

\* A statement and every statement written inside it.
Inside(n) ==
  {n} \cup (IF n.op \in {"defer", "recover"} THEN {n.s} ELSE {})
      \cup UNION {UNION {Inside(b[i]) : i \in 1..Len(b)} : b \in Parts(n)}

MayNull(n) == {m.v : m \in {k \in Inside(n) : k.op \in {"setnull", "setcall", "copy"}}}
DeferredUses(n) ==
  IF n.op # "defer" THEN {} ELSE {a.v : a \in {b \in UNION {Atoms(e) : e \in Expressions(n.s)} : b.t = "field"}}

RejectsDeferredUse(b) ==
  \E blk \in {b} \cup UNION {UNION {Parts(m) : m \in Inside(b[i])} : i \in 1..Len(b)} :
    \E i, j \in 1..Len(blk) : i < j /\ DeferredUses(blk[i]) \cap MayNull(blk[j]) # {}

-----------------------------------------------------------------------------
(* Evaluation.  An opaque expression may be true or false.  A local is     *)
(* promised once a `defer` that assigns it is registered, and assigned     *)
(* once it has a value.                                                    *)

AtomValue(a, m) ==
  CASE a.t = "true"    -> {TRUE}
    [] a.t = "null"    -> {a.v \in m.null}
    [] a.t = "nonnull" -> {a.v \notin m.null}
    [] OTHER           -> BOOLEAN

AtomFaults(a, m) ==
  CASE a.t = "use"   -> IF a.v \in m.assigned THEN {}
                        ELSE IF a.v \in m.promised THEN {"too early"} ELSE {"unassigned"}
    [] a.t = "field" -> IF a.v \in m.null THEN {"null"} ELSE {}
    [] OTHER         -> {}

Results(e, m) ==
  LET atom(a) == [val : AtomValue(a, m), faults : {AtomFaults(a, m)}]
      then(x, r) == {[val |-> y.val, faults |-> x.faults \cup y.faults] : y \in atom(r)}
  IN CASE e.t = "and" -> UNION {IF x.val THEN then(x, e.r) ELSE {x} : x \in atom(e.l)}
       [] e.t = "or"  -> UNION {IF x.val THEN {x} ELSE then(x, e.r) : x \in atom(e.l)}
       [] e.t = "not" -> {[x EXCEPT !.val = ~@] : x \in atom(e.l)}
       [] OTHER       -> atom(e)

\* The memories a statement may leave.
Executed(s, m) ==
  LET faulty == {[m EXCEPT !.faults = @ \cup x.faults] : x \in UNION {Results(e, m) : e \in Expressions(s)}}
  IN CASE s.op \in {"eval", "return"} -> faulty
       [] s.op = "set"     -> {[m EXCEPT !.assigned = @ \cup {s.v}]}
       [] s.op = "setnull" -> {[m EXCEPT !.null = @ \cup {s.v}]}
       [] s.op = "setref"  -> {[m EXCEPT !.null = @ \ {s.v}]}
       [] s.op = "setcall" -> {[m EXCEPT !.null = @ \ {s.v}], [m EXCEPT !.null = @ \cup {s.v}]}
       [] s.op = "copy"    -> {[m EXCEPT !.null = IF s.from \in @ THEN @ \cup {s.v} ELSE @ \ {s.v}]}
       [] OTHER            -> {m}

ExecutedAll(ss, m) ==
  LET after[n \in 0..Len(ss)] == IF n = 0 THEN {m} ELSE UNION {Executed(ss[n], k) : k \in after[n - 1]}
  IN after[Len(ss)]

-----------------------------------------------------------------------------
(* Execution.                                                              *)

BlockFrame(b) == [node |-> BlockOf(b), rest |-> b, defers |-> <<>>]
LoopFrame(n)  == [node |-> n, rest |-> <<>>, defers |-> <<>>]
IsLoop(f) == f.node.op \in {"while", "dowhile", "for"}

Top  == stack[1]
Next1 == Top.rest[1]
Running(op) == status = "running" /\ ~IsLoop(Top) /\ Top.rest # <<>> /\ Next1.op = op

Past == <<[Top EXCEPT !.rest = Tail(@)]>> \o Tail(stack)   \* the statement is done
Instead(n) == <<[Top EXCEPT !.rest = <<n>> \o Tail(@)]>> \o Tail(stack)
Open(b) == <<BlockFrame(b)>> \o Past

\* The frames above the innermost loop, or all of them; their defers in order.
Innermost == CHOOSE i \in 1..Len(stack) : IsLoop(stack[i]) /\ \A j \in 1..(i - 1) : ~IsLoop(stack[j])
Pending(n) == LET all[i \in 0..n] == IF i = 0 THEN <<>> ELSE all[i - 1] \o Backwards(stack[i].defers) IN all[n]

Flush(n, stk, st) ==
  /\ memory' \in ExecutedAll(Pending(n), memory)
  /\ flushed' = Pending(n)
  /\ stack' = stk
  /\ status' = st

Start ==
  /\ status = "compiled" /\ pass = "done" /\ ~rejected
  /\ status' = "running"
  /\ stack' = <<BlockFrame(body)>>
  /\ memory' \in [assigned : {{}}, promised : {{}}, null : SUBSET Tracked(graph), faults : {{}}]
  /\ UNCHANGED flushed

Simple ==
  /\ \E op \in {"eval", "set", "setnull", "setref", "setcall", "copy", "decl"} : Running(op)
  /\ memory' \in Executed(Next1, memory)
  /\ stack' = Past
  /\ UNCHANGED <<flushed, status>>

Register ==
  /\ Running("defer")
  /\ stack' = <<[Top EXCEPT !.rest = Tail(@), !.defers = Append(@, Next1.s)]>> \o Tail(stack)
  /\ memory' = [memory EXCEPT !.promised = @ \cup Defines(Next1.s)]
  /\ UNCHANGED <<flushed, status>>

EnterBlock ==
  /\ Running("block")
  /\ stack' = Open(Next1.body)
  /\ UNCHANGED <<memory, flushed, status>>

\* The branches in turn, then the else.
ChooseBranch ==
  /\ Running("if")
  /\ IF Next1.branches = <<>>
       THEN /\ stack' = IF Next1.other = <<>> THEN Past ELSE Open(Next1.other[1])
            /\ UNCHANGED memory
       ELSE \E x \in Results(Next1.branches[1].e, memory) :
              /\ memory' = [memory EXCEPT !.faults = @ \cup x.faults]
              /\ stack' = IF x.val THEN Open(Next1.branches[1].body)
                          ELSE Instead([Next1 EXCEPT !.branches = Tail(@)])
  /\ UNCHANGED <<flushed, status>>

\* The subject once, then the headers in source order: the pattern, then its
\* guard.  The last header of an exhaustive compare matches.
Subject ==
  /\ Running("compare")
  /\ memory' \in Executed(Eval(Next1.e), memory)
  /\ stack' = Instead([Next1 EXCEPT !.op = "headers"])
  /\ UNCHANGED <<flushed, status>>

TryHeader ==
  /\ Running("headers")
  /\ LET arm == Next1.arms[1]
         last == Next1.exhaustive /\ Len(Next1.arms) = 1 /\ Len(arm.guards) = 1
         nextArm == Instead([Next1 EXCEPT !.arms = Tail(@)])
         nextHeader == Instead([Next1 EXCEPT !.arms[1].guards = Tail(@)])
     IN \/ /\ Next1.arms = <<>>
           /\ stack' = IF Next1.other = <<>> THEN Past ELSE Open(Next1.other[1])
           /\ UNCHANGED memory
        \/ /\ Next1.arms # <<>> /\ arm.guards = <<>>
           /\ stack' = nextArm
           /\ UNCHANGED memory
        \/ /\ Next1.arms # <<>> /\ arm.guards # <<>>
           /\ \E match \in BOOLEAN :
                /\ last => match
                /\ IF match /\ arm.guards[1] # <<>>
                     THEN \E x \in Results(arm.guards[1][1], memory) :
                            /\ memory' = [memory EXCEPT !.faults = @ \cup x.faults]
                            /\ stack' = IF x.val THEN Open(arm.body) ELSE nextHeader
                     ELSE /\ stack' = IF match THEN Open(arm.body) ELSE nextHeader
                          /\ UNCHANGED memory
  /\ UNCHANGED <<flushed, status>>

\* The wrapped call fails, and the run block runs, or it succeeds.
TryRecover ==
  /\ Running("recover")
  /\ stack' \in {Instead(Next1.s), Open(Next1.body)}
  /\ UNCHANGED <<memory, flushed, status>>

\* A do-while's body is entered without a test.
EnterLoop ==
  /\ \E op \in {"while", "dowhile", "for"} : Running(op)
  /\ stack' = (IF Next1.op = "dowhile" THEN <<BlockFrame(Next1.body)>> ELSE <<>>) \o <<LoopFrame(Next1)>> \o Past
  /\ UNCHANGED <<memory, flushed, status>>

TestLoop ==
  /\ status = "running" /\ IsLoop(Top)
  /\ \E x \in Results(IF Top.node.op = "for" THEN Opaque ELSE Top.node.e, memory) :
       /\ memory' = [memory EXCEPT !.faults = @ \cup x.faults]
       /\ stack' = IF x.val THEN <<BlockFrame(Top.node.body)>> \o stack ELSE Tail(stack)
  /\ UNCHANGED <<flushed, status>>

EndBlock ==
  /\ status = "running" /\ ~IsLoop(Top) /\ Top.rest = <<>>
  /\ Flush(1, Tail(stack), IF Len(stack) = 1 THEN "fell" ELSE "running")

LeaveLoop ==
  \/ Running("break") /\ Flush(Innermost - 1, SubSeq(stack, Innermost + 1, Len(stack)), "running")
  \/ Running("continue") /\ Flush(Innermost - 1, SubSeq(stack, Innermost, Len(stack)), "running")

\* The value is computed before the deferred statements run.
Leaves ==
  /\ Running("return")
  /\ \E m \in Executed(Next1, memory) : memory' \in ExecutedAll(Pending(Len(stack)), m)
  /\ flushed' = Pending(Len(stack))
  /\ stack' = <<>>
  /\ status' = "returned"

RunStep == \/ Start \/ Simple \/ Register \/ EnterBlock \/ ChooseBranch \/ Subject \/ TryHeader
           \/ TryRecover \/ EnterLoop \/ TestLoop \/ EndBlock \/ LeaveLoop \/ Leaves

-----------------------------------------------------------------------------
Init ==
  /\ body \in Bodies
  /\ LET c == buildCFG(body) IN PassInit(c.g, c.err \/ RejectsDeferredUse(body))
  /\ stack = <<>>
  /\ memory = [assigned |-> {}, promised |-> {}, null |-> {}, faults |-> {}]
  /\ flushed = <<>>
  /\ status = "compiled"

Next == \/ PassStep /\ UNCHANGED <<body, runVars>>
        \/ RunStep /\ UNCHANGED <<passVars, body>>

Spec == Init /\ [][Next]_vars
FairSpec == Spec /\ WF_vars(PassStep /\ UNCHANGED <<body, runVars>>)

-----------------------------------------------------------------------------
(* Properties.                                                             *)

(* A function the passes accept never reads a local that no statement has  *)
(* assigned and no `defer` registered so far will assign, on any path its  *)
(* execution takes (DefiniteAssignmentPass, E008).  A read after the       *)
(* `defer` and before it runs is let through, because the pass counts a    *)
(* deferred assignment where it is registered (Analysis.cpp:171-174): this *)
(* property leaves it out, AcceptedRunsAreSafe does not ...                *)
ReadsAreAssigned == "unassigned" \notin memory.faults

(* ... and never dereferences a null &?T (NullabilityPass, E081).          *)
DereferencesAreChecked == "null" \notin memory.faults

(* What docs/reference/variables_and_types.md:123-124 ("no read sees a     *)
(* value nothing assigned") and docs/reference/memory_and_safety.md:607    *)
(* ("cannot be dereferenced without a null check") promise of a function   *)
(* that compiles.                                                          *)
AcceptedRunsAreSafe == memory.faults = {}

(* Execution runs off the end of the body only where the builder left a    *)
(* reachable edge into the exit that is not a return, which is what        *)
(* reportFlowDiagnostics rejects in a function that returns a value.       *)
FallingOffIsSeen == status = "fell" => ~AllPathsReturn(graph)

(* What an exit from a block runs is what the builder recorded for some    *)
(* block of the graph, in that order: EscapePass and LivenessAnalysisPass  *)
(* read the record, codegen flushes its own stack.                         *)
DeferredRunsAgree ==
  flushed = <<>> \/ \E b \in Blocks : \E i \in 1..Len(graph[b].runs) :
                      /\ i + Len(flushed) - 1 <= Len(graph[b].runs)
                      /\ SubSeq(graph[b].runs, i, i + Len(flushed) - 1) = flushed

(* The iteration ends, whatever the graph.                                 *)
PassesEnd == <>(pass = "done")
=============================================================================
