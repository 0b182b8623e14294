----------------------------- MODULE Instances -----------------------------
(***************************************************************************)
(* What monomorphization promises: from the calls that ordinary code makes *)
(* it makes the instances of generic declarations that are called, those   *)
(* that the made ones call, and no other; it ends when none is missing, or *)
(* fails because the code of one is wrong or because there is no end to    *)
(* them.                                                                   *)
(***************************************************************************)
EXTENDS GenericCalls

CONSTANT Plenty   \* so many instances asked for may be too many

VARIABLES
    program,   \* what is compiled
    made,      \* the instances made
    verdict    \* "open", "done", "failed"

instanceVars == <<program, made, verdict>>

\* What code calls that is ordinary or made.
Called(what(_, _)) ==
    {what(call, IntType) : call \in CallsOf(OrdinaryCalls(program))} \cup
    UNION {{what(call, i.type) : call \in CallsOf(program.body[i.to])} : i \in made}

Init ==
    /\ program \in Programs
    /\ made = {}
    /\ verdict = "open"

Make ==
    /\ verdict = "open"
    /\ \E i \in Called(Needed) \ made : made' = made \cup {i}
    /\ UNCHANGED <<program, verdict>>

Finish ==
    /\ verdict = "open"
    /\ Called(Needed) \subseteq made
    /\ verdict' = "done"
    /\ UNCHANGED <<program, made>>

\* The body of an instance that is called is wrong.
Reject ==
    /\ verdict = "open"
    /\ \E i \in Called(Needed) :
         \E call \in CallsOf(program.body[i.to]) : Wrong(call, i.type)
    /\ verdict' = "failed"
    /\ UNCHANGED <<program, made>>

GiveUp ==
    /\ verdict = "open"
    /\ Cardinality(Called(Needed) \cup Called(Inferred)) > Plenty
    /\ verdict' = "failed"
    /\ UNCHANGED <<program, made>>

Next == Make \/ Finish \/ Reject \/ GiveUp

Spec == Init /\ [][Next]_instanceVars
=============================================================================
