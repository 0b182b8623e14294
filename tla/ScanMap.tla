------------------------------ MODULE ScanMap ------------------------------
(***************************************************************************)
(* What docs/reference/stdlib/collections.md promises of Map and Set, with *)
(* no index: entries in dense order, found by scanning for an equal key.   *)
(* HashCollections implements it.                                          *)
(***************************************************************************)
EXTENDS Integers, Sequences

CONSTANTS
    Key, Value,
    Odd,     \* the keys that are not equal to themselves: NaN
    Obj,     \* the collections of the program
    MaxLen   \* bound: entries of one collection

VARIABLES
    kind,  \* "map" or "set"
    maps   \* the entries of each, <<key, value>> or <<key>>, in dense order

\* Where k is: nowhere for a key that equals nothing.
At(m, k) == {i \in DOMAIN m : m[i][1] = k /\ k \notin Odd}

Init ==
    /\ kind \in [Obj -> {"map", "set"}]
    /\ maps = [o \in Obj |-> <<>>]

Entered(o, e) ==
    Len(maps[o]) < MaxLen /\ maps' = [maps EXCEPT ![o] = Append(@, e)]

\* A map's put replaces the value of a key already there.
Put(o, k, v) ==
    /\ kind[o] = "map"
    /\ IF At(maps[o], k) = {} THEN Entered(o, <<k, v>>)
       ELSE maps' = [maps EXCEPT ![o] =
                        [i \in DOMAIN @ |-> IF i \in At(@, k) THEN <<k, v>> ELSE @[i]]]

\* A set's add leaves an item already there as it is.
Add(o, k) == kind[o] = "set" /\ At(maps[o], k) = {} /\ Entered(o, <<k>>)

\* The last entry fills the hole.
Remove(o, k) ==
    \E i \in At(maps[o], k) :
        LET n == Len(maps[o])
        IN  maps' = [maps EXCEPT ![o] = [j \in 1 .. n - 1 |->
                                            IF j = i THEN @[n] ELSE @[j]]]

Copy(o, p) == kind[o] = kind[p] /\ maps' = [maps EXCEPT ![p] = maps[o]]

Next ==
    /\ \/ \E o \in Obj, k \in Key, v \in Value : Put(o, k, v)
       \/ \E o \in Obj, k \in Key : Add(o, k) \/ Remove(o, k)
       \/ \E o, p \in Obj : Copy(o, p)
    /\ UNCHANGED kind

Spec == Init /\ [][Next]_<<kind, maps>>
=============================================================================
