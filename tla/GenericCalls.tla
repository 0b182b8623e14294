---------------------------- MODULE GenericCalls ----------------------------
(***************************************************************************)
(* The programs that monomorphization works on, and what instance of a     *)
(* generic declaration each of their calls asks for.                       *)
(*                                                                         *)
(* A program is a record: code, the calls of its ordinary functions, and   *)
(* body, for each template the calls of its body (for a struct the types   *)
(* its fields name, each as a call of that struct).  A call is a record:   *)
(*   to     the template it names                                          *)
(*   arg    the type its argument has                                      *)
(*   built  the type of what it is to build, if it is a constructor call   *)
(*          whose value goes to a declared place, and NoType otherwise     *)
(* where a type of a body may be Own, its type parameter, or Boxed, a      *)
(* generic struct around it.                                               *)
(***************************************************************************)
EXTENDS Integers, Sequences, FiniteSets, SequencesExt

CONSTANTS
    Template,   \* the generic functions, methods, constructors and structs
    Declared,   \* the same, in the order the program declares them
    Programs    \* bound: the programs that may be compiled

\* The types: int, double, and a box around a type.
IntType == 0
DoubleType == 1
BoxOf(type) == type + 2
Own == -1
Boxed == -2
NoType == -3

Type == Nat
Call == [to : Template, arg : {IntType, DoubleType, Own, Boxed},
         built : {NoType, IntType, DoubleType, Own, Boxed}]
Request == [to : Template, type : Type]

\* substituteConcreteTypes: a type of a body, in the instance for `own`.
Substituted(type, own) ==
    CASE type = Own -> own
      [] type = Boxed -> BoxOf(own)
      [] OTHER -> type

\* The instance a call is taken for from its argument's type, and the one it
\* has when the type of what it builds is known too: an int is widened to a
\* double, and what is neither is an error of the body.
Inferred(call, own) == [to |-> call.to, type |-> Substituted(call.arg, own)]

Widens(call, own) ==
    /\ call.built # NoType
    /\ Substituted(call.arg, own) = IntType
    /\ Substituted(call.built, own) = DoubleType

Needed(call, own) ==
    IF Widens(call, own)
      THEN [to |-> call.to, type |-> DoubleType]
      ELSE Inferred(call, own)

Wrong(call, own) ==
    /\ call.built # NoType
    /\ Substituted(call.arg, own) # Substituted(call.built, own)
    /\ ~Widens(call, own)

\* isFullyConcreteType: a template's body is checked as it stands too, and what
\* it calls is instantiated then unless it names the type parameter.
IsOpen(type) == type \in {Own, Boxed}

Concrete(calls) ==
    LET closed == SelectSeq(calls, LAMBDA call : ~IsOpen(call.arg))
    IN  [k \in DOMAIN closed |->
           [closed[k] EXCEPT !.built = IF IsOpen(@) THEN NoType ELSE @]]

OrdinaryCalls(p) ==
    FlattenSeq(<<p.code>> \o
               [k \in DOMAIN Declared |-> Concrete(p.body[Declared[k]])])

ASSUME ProgramAssumption ==
    \A p \in Programs :
      /\ OrdinaryCalls(p) \in Seq(Call)
      /\ \A template \in Template : p.body[template] \in Seq(Call)

CallsOf(calls) == {calls[k] : k \in DOMAIN calls}
=============================================================================
