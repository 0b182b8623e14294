------------------------------- MODULE MCFlow -------------------------------
(* Instances of FlowAnalysis: every body of a given size from a vocabulary *)
(* of statements, conditions and compound forms.                           *)
EXTENDS FlowAnalysis, TLC

CONSTANTS x, p, p2

RECURSIVE BodiesOf(_, _, _), StatementsOf(_, _, _)

\* The bodies of size n; `break` and `continue` occur in loops, and a jump
\* ends its body.
BodiesOf(v, n, loop) ==
  IF n = 0 THEN {<<>>}
  ELSE UNION {UNION {IF s.op \in {"return", "break", "continue"} /\ m < n THEN {}
                     ELSE {<<s>> \o rest : rest \in BodiesOf(v, n - m, loop)} : s \in StatementsOf(v, m, loop)} :
              m \in 1..n}

StatementsOf(v, n, loop) ==
  IF n = 1 THEN v.simple \cup (IF loop THEN v.jumps ELSE {})
  ELSE LET b == BodiesOf(v, n - 1, loop)
           lb == BodiesOf(v, n - 1, TRUE)
           two == UNION {BodiesOf(v, m, loop) \X BodiesOf(v, n - 1 - m, loop) : m \in 1..(n - 2)}
           whole == "exhaustive" \in v.kinds
       IN UNION {
            IF "block" \in v.kinds THEN {BlockOf(q) : q \in b} ELSE {},
            IF "if" \in v.kinds
              THEN {If(<<Branch(e, q)>>, <<>>) : e \in v.conds, q \in b}
                     \cup {If(<<Branch(e, q[1])>>, <<q[2]>>) : e \in v.conds, q \in two}
              ELSE {},
            IF "elseif" \in v.kinds
              THEN {If(<<Branch(e, q[1]), Branch(d, q[2])>>, <<>>) : e \in v.conds, d \in v.conds, q \in two}
              ELSE {},
            IF "while" \in v.kinds
              THEN {While(e, q) : e \in v.conds \cup {Literally}, q \in lb} ELSE {},
            IF "dowhile" \in v.kinds THEN {DoWhile(q, e) : e \in v.conds \cup {Literally}, q \in lb} ELSE {},
            IF "for" \in v.kinds THEN {For(q) : q \in lb} ELSE {},
            IF "compare" \in v.kinds
              THEN {Compare(e, <<Arm(<<gd>>, q)>>, <<>>, FALSE) : e \in v.subjects, gd \in v.guards, q \in b}
                     \cup {Compare(e, <<Arm(<<gd>>, q[1])>>, <<q[2]>>, FALSE) :
                             e \in v.subjects, gd \in v.guards, q \in two}
              ELSE {},
            IF whole
              THEN {Compare(e, <<Arm(<<gd, <<>>>>, q)>>, <<>>, TRUE) : e \in v.subjects, gd \in v.guards, q \in b}
                     \cup {Compare(e, <<Arm(<<gd>>, q[1]), Arm(<<<<>>>>, q[2])>>, <<>>, TRUE) :
                             e \in v.subjects, gd \in v.guards, q \in two}
              ELSE {},
            IF "recover" \in v.kinds
              THEN {Recover(s, q) : s \in v.wrapped, q \in {r \in b : r[Len(r)].op \in {"return", "break", "continue"}}}
              ELSE {}}

Kinds == {"block", "if", "elseif", "while", "dowhile", "for", "compare", "exhaustive", "recover"}
Jumps == {Break, Continue}

\* Locals: assigned and read on every path, or not, now or when a block ends.
Assigning == [simple |-> {Set(x), Eval(Use(x)), Return(Use(x)), Defer(Set(x)), Defer(Eval(Use(x)))}, jumps |-> Jumps, conds |-> {Opaque},
              subjects |-> {Opaque}, guards |-> {<<>>}, wrapped |-> {Set(x)}, kinds |-> Kinds]

\* &?T variables: compared with null, reassigned, dereferenced.
Narrowing == [simple |-> {SetNull(p), SetRef(p), Eval(Field(p)), Return(Opaque)}, jumps |-> Jumps,
              conds |-> {NotNull(p), IsNull(p)}, subjects |-> {Opaque}, guards |-> {<<>>, <<Opaque>>},
              wrapped |-> {SetCall(p)}, kinds |-> Kinds \ {"elseif", "recover"}]

\* Conditions of two parts.
Joining == [simple |-> {SetCall(p), Eval(Field(p))}, jumps |-> {}, guards |-> {},
            conds |-> {And(NotNull(p), Field(p)), And(Field(p), NotNull(p)), Or(IsNull(p), Field(p)),
                       Or(NotNull(p), Opaque), And(IsNull(p), Opaque), Not(NotNull(p))},
            wrapped |-> {}, kinds |-> {"if", "while", "dowhile"}]

\* One &?T assigned to another.
Copying == [simple |-> {SetCall(p), Copy(p2, p), Eval(Field(p2))}, jumps |-> {}, guards |-> {},
            conds |-> {NotNull(p)}, wrapped |-> {}, kinds |-> {"if", "while"}]

\* Longer bodies of loops and branches.
Looping == [simple |-> {SetNull(p), Eval(Field(p))}, jumps |-> {Break}, conds |-> {NotNull(p)},
            guards |-> {}, wrapped |-> {}, kinds |-> {"if", "while"}]

\* Deferred statements under every way out of a block.
Deferring == [simple |-> {Defer(Eval(Opaque)), Defer(Eval(Literally)), Return(Opaque)}, jumps |-> Jumps,
              conds |-> {Opaque}, guards |-> {}, wrapped |-> {Eval(Opaque)},
              kinds |-> {"block", "if", "while", "recover"}]

\* A compare of, or guarded by, a comparison with null; a deferred dereference.
\* (A bool's compare has to list both values.)
Comparing == [simple |-> {Eval(Field(p)), Eval(Opaque), Return(Opaque)}]
ComparesNull == BodiesOf(Comparing @@ [kinds |-> {"exhaustive"}, guards |-> {<<>>},
                                       subjects |-> {NotNull(p), IsNull(p)}], 3, FALSE)
GuardsByNull == BodiesOf(Comparing @@ [kinds |-> {"compare"}, guards |-> {<<NotNull(p)>>, <<IsNull(p)>>},
                                       subjects |-> {Opaque}], 3, FALSE)
DefersUse == BodiesOf([simple |-> {Defer(Eval(Field(p))), SetNull(p), SetRef(p), Eval(Opaque)},
                       kinds |-> {"block"}], 3, FALSE)
WithX(bs) == {<<Declare(x)>> \o b : b \in bs}

\* A local read between the `defer` that assigns it and the end of the block.
DefersAssign == WithX(BodiesOf([simple |-> {Defer(Set(x)), Eval(Use(x)), Return(Use(x))},
                                kinds |-> {"block"}], 3, FALSE))
UnsafeBodies == ComparesNull \cup GuardsByNull \cup DefersUse \cup DefersAssign

MCBodies == UNION {WithX(BodiesOf(Assigning, 3, FALSE)), BodiesOf(Narrowing, 3, FALSE),
                   BodiesOf(Joining, 3, FALSE), BodiesOf(Copying, 4, FALSE),
                   BodiesOf(Looping, 4, FALSE), BodiesOf(Deferring, 4, FALSE)}
=============================================================================
