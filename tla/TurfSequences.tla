---------------------------- MODULE TurfSequences ----------------------------
(***************************************************************************)
(* lib/std/collections/list.tr, stack.tr and queue.tr: a header over a     *)
(* buffer that doubles.  h.data holds the cells of the buffer written so   *)
(* far; the live ones are the h.len from h.head on, counting from 0 as in  *)
(* the code, and head stays 0 in a list or a stack.  Cells outside them    *)
(* keep what they held.                                                    *)
(***************************************************************************)
EXTENDS Integers, Sequences

CONSTANTS
    Elem,
    Rank,    \* what List.sort's comparator compares
    First,   \* the first capacity: 8
    Obj,     \* the headers of the program
    MaxLen   \* bound: elements of one collection

ASSUME RankAssumption == Rank \in [Elem -> Int]
ASSUME FirstAssumption == First \in Nat \ {0}
ASSUME MaxLenAssumption == MaxLen \in Nat

VARIABLES
    kind,   \* which of the three each is: it never changes
    store,  \* the header of each
    panic   \* the program took from an empty collection

vars == <<kind, store, panic>>

New == [data |-> <<>>, len |-> 0, cap |-> 0, head |-> 0]

\* data[i] = x, of a cell already written or of the next one.
Written(data, i, x) ==
    IF i = Len(data) THEN Append(data, x) ELSE [data EXCEPT ![i + 1] = x]

Doubled(cap) == IF cap = 0 THEN First ELSE cap * 2

\* List.push and Stack.push.
Push(h, x) ==
    [h EXCEPT !.cap = IF h.len = @ THEN Doubled(@) ELSE @,
              !.data = Written(@, h.len, x),
              !.len = @ + 1]

\* Mutant: the elements move to the front one by one from the last.
AtFrontFromLast(h) ==
    LET moved[i \in 0 .. h.len] ==
            IF i = 0 THEN h.data
            ELSE LET k == h.len + 1 - i
                 IN  [moved[i - 1] EXCEPT ![k] = moved[i - 1][h.head + k]]
    IN  [h EXCEPT !.data = moved[h.len], !.head = 0]

\* Queue.enqueue, when it meets the end of the buffer: the live elements move to
\* the front if there is room before them, one by one from the first; else the
\* buffer doubles.
AtFront(h) ==
    LET moved[i \in 0 .. h.len] ==
            IF i = 0 THEN h.data
            ELSE [moved[i - 1] EXCEPT ![i] = moved[i - 1][h.head + i]]
    IN  [h EXCEPT !.data = moved[h.len], !.head = 0]

\* Mutant: the test for a full buffer is List.push's.
WithRoomIgnoringHead(h) ==
    IF h.len # h.cap THEN h
    ELSE IF h.head > 0 THEN AtFront(h)
    ELSE [h EXCEPT !.cap = Doubled(@)]

\* Mutant: the buffer doubles whenever its end is met.
WithRoomNeverCompacts(h) ==
    IF h.head + h.len # h.cap THEN h ELSE [h EXCEPT !.cap = Doubled(@)]

WithRoom(h) ==
    IF h.head + h.len # h.cap THEN h
    ELSE IF h.head > 0 THEN AtFront(h)
    ELSE [h EXCEPT !.cap = Doubled(@)]

Enqueue(h, x) ==
    LET g == WithRoom(h)
    IN  [g EXCEPT !.data = Written(@, g.head + g.len, x), !.len = @ + 1]

\* List.sort: insertion sort by rank.  j is the last position, counting from 1,
\* not to be shifted for the key taken from position i.
Sorted(h) ==
    LET Inserted(d, i) ==
            LET stop == {j \in 1 .. i - 1 : Rank[d[j]] <= Rank[d[i]]}
                j == IF stop = {} THEN 0
                     ELSE CHOOSE m \in stop : \A n \in stop : n <= m
            IN  [k \in DOMAIN d |-> CASE k = j + 1 -> d[i]
                                      [] k \in j + 2 .. i -> d[k - 1]
                                      [] OTHER -> d[k]]
        pass[i \in 0 .. h.len] ==
            IF i < 2 THEN h.data ELSE Inserted(pass[i - 1], i)
    IN  [h EXCEPT !.data = pass[h.len]]

\* Mutant: the search gives up one element early.
BinarySearchStopsEarly(h, x) ==
    LET find[w \in (0 .. h.len) \X (-1 .. h.len - 1)] ==
            LET lo == w[1]
                hi == w[2]
                mid == lo + (hi - lo) \div 2
                c == Rank[h.data[mid + 1]] - Rank[x]
            IN  IF lo >= hi THEN -1
                ELSE IF c = 0 THEN mid
                ELSE IF c < 0 THEN find[<<mid + 1, hi>>]
                ELSE find[<<lo, mid - 1>>]
    IN  find[<<0, h.len - 1>>]

\* List.binary_search.
BinarySearch(h, x) ==
    LET find[w \in (0 .. h.len) \X (-1 .. h.len - 1)] ==
            LET lo == w[1]
                hi == w[2]
                mid == lo + (hi - lo) \div 2
                c == Rank[h.data[mid + 1]] - Rank[x]
            IN  IF lo > hi THEN -1
                ELSE IF c = 0 THEN mid
                ELSE IF c < 0 THEN find[<<mid + 1, hi>>]
                ELSE find[<<lo, mid - 1>>]
    IN  find[<<0, h.len - 1>>]

\* List.copy, Stack.copy, Queue.copy: the live elements into a new header.
Copied(k, h) ==
    LET out[i \in 0 .. h.len] ==
            IF i = 0 THEN New
            ELSE LET x == h.data[h.head + i]
                 IN  IF k = "queue" THEN Enqueue(out[i - 1], x) ELSE Push(out[i - 1], x)
    IN  out[h.len]
-----------------------------------------------------------------------------
Init ==
    /\ kind \in [Obj -> {"list", "stack", "queue"}]
    /\ store = [o \in Obj |-> New]
    /\ panic = FALSE

Becomes(o, h) == store' = [store EXCEPT ![o] = h] /\ UNCHANGED panic

Insert(o, x) ==
    /\ store[o].len < MaxLen
    /\ Becomes(o, IF kind[o] = "queue" THEN Enqueue(store[o], x)
                  ELSE Push(store[o], x))

\* pop and dequeue; of an empty collection both panic.
Take(o) ==
    LET h == store[o]
    IN  \/ h.len = 0 /\ panic' = TRUE /\ UNCHANGED store
        \/ /\ h.len > 0
           /\ Becomes(o, [h EXCEPT !.len = @ - 1,
                                   !.head = IF kind[o] = "queue" THEN @ + 1 ELSE @])

\* List.set and List's []=, at an index in range.
Set(o, i, x) ==
    /\ kind[o] = "list" /\ i \in 0 .. store[o].len - 1
    /\ Becomes(o, [store[o] EXCEPT !.data[i + 1] = x])

Sort(o) == kind[o] = "list" /\ Becomes(o, Sorted(store[o]))

Copy(o, p) == kind[o] = kind[p] /\ Becomes(p, Copied(kind[o], store[o]))

Next ==
    /\ ~panic
    /\ \E o \in Obj :
          \/ \E x \in Elem : Insert(o, x) \/ \E i \in 0 .. MaxLen - 1 : Set(o, i, x)
          \/ Take(o) \/ Sort(o)
          \/ \E p \in Obj : Copy(o, p)
    /\ UNCHANGED kind

Spec == Init /\ [][Next]_vars
-----------------------------------------------------------------------------
Items(o) == SubSeq(store[o].data, store[o].head + 1, store[o].head + store[o].len)

\* No operation leaves an element outside the buffer, or a live element in a
\* cell that was never written: what a read of data[head + i] relies on without
\* a check of its own, across dequeues, compactions and doublings.
BufferHoldsItems ==
    \A o \in Obj : LET h == store[o]
                   IN  h.head + h.len <= Len(h.data) /\ Len(h.data) <= h.cap

\* collections.md:639: a queue "reuses the space of elements already dequeued
\* before it asks for more", so the storage of a collection grows only for a
\* length it could not hold: never by filling and draining alone.
SpaceIsReused ==
    [][\A o \in Obj :
          store'[o].cap > store[o].cap => store'[o].len > store[o].cap]_vars

\* In an ascending list, binary_search finds an element of the rank asked for
\* if and only if there is one.
SearchFinds ==
    \A o \in {p \in Obj : kind[p] = "list"} :
        LET s == Items(o)
            Ascending == \A i \in 1 .. Len(s) - 1 : Rank[s[i]] <= Rank[s[i + 1]]
        IN  Ascending =>
            \A x \in Elem :
                LET at == {i - 1 : i \in {j \in DOMAIN s : Rank[s[j]] = Rank[x]}}
                    found == BinarySearch(store[o], x)
                IN  IF at = {} THEN found = -1 ELSE found \in at

\* collections.md's List, Stack and Queue: what is in them is what was put in,
\* last in first out or first in first out, through every compaction and
\* doubling; sort is stable (list.tr:214); a copy has the same elements.
Plain == INSTANCE PlainSequence WITH items <- [o \in Obj |-> Items(o)]
IsPlainSequence == Plain!Spec
=============================================================================
