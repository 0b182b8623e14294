---------------------------- MODULE PlainSequence ----------------------------
(***************************************************************************)
(* What docs/reference/stdlib/collections.md promises of List, Stack and   *)
(* Queue, with no buffer: a sequence of elements.  TurfSequences           *)
(* implements it.                                                          *)
(***************************************************************************)
EXTENDS Integers, Sequences

CONSTANTS Elem, Rank, Obj, MaxLen

VARIABLES
    kind,   \* "list", "stack" or "queue"
    items,  \* the elements of each, first to last
    panic   \* the program took from an empty one

Init ==
    /\ kind \in [Obj -> {"list", "stack", "queue"}]
    /\ items = [o \in Obj |-> <<>>]
    /\ panic = FALSE

Becomes(o, s) == items' = [items EXCEPT ![o] = s] /\ UNCHANGED panic

Insert(o, x) == Len(items[o]) < MaxLen /\ Becomes(o, Append(items[o], x))

\* pop takes the last element, dequeue the first.
Take(o) ==
    LET n == Len(items[o])
    IN  IF n = 0 THEN panic' = TRUE /\ UNCHANGED items
        ELSE Becomes(o, IF kind[o] = "queue" THEN Tail(items[o])
                        ELSE SubSeq(items[o], 1, n - 1))

Set(o, i, x) ==
    /\ kind[o] = "list" /\ i \in DOMAIN items[o]
    /\ Becomes(o, [items[o] EXCEPT ![i] = x])

\* In ascending rank, elements of one rank in the order they had.
Sort(o) ==
    LET s == items[o]
        Before(i, j) == Rank[s[i]] < Rank[s[j]] \/ (Rank[s[i]] = Rank[s[j]] /\ i < j)
    IN  /\ kind[o] = "list"
        /\ \E p \in [DOMAIN s -> DOMAIN s] :
              /\ \A i, j \in DOMAIN s : i < j => Before(p[i], p[j])
              /\ Becomes(o, [k \in DOMAIN s |-> s[p[k]]])

Copy(o, p) == kind[o] = kind[p] /\ Becomes(p, items[o])

Next ==
    /\ ~panic
    /\ \E o \in Obj :
          \/ \E x \in Elem : Insert(o, x) \/ \E i \in 1 .. MaxLen : Set(o, i, x)
          \/ Take(o) \/ Sort(o)
          \/ \E p \in Obj : Copy(o, p)
    /\ UNCHANGED kind

Spec == Init /\ [][Next]_<<kind, items, panic>>
=============================================================================
