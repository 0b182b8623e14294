--------------------------- MODULE HashCollections ---------------------------
(***************************************************************************)
(* lib/std/collections/map.tr and set.tr.  A Map or Set value is a handle  *)
(* to one header; store holds the headers of the program's collections, a  *)
(* map's values being the array parallel to its keys.  A set is a map with *)
(* that array dropped.                                                     *)
(***************************************************************************)
EXTENDS HashIndex, FiniteSets

CONSTANTS
    Value,
    Obj,     \* the headers of the program
    MaxLen   \* bound: entries of one collection

VARIABLES
    kind,   \* which of the two each is: it never changes
    store   \* the header of each

vars == <<kind, store>>

Header(h, values) ==
    [keys |-> h.keys, len |-> h.len, cap |-> h.cap, bcap |-> h.bcap,
     tombs |-> h.tombs, buckets |-> h.buckets, values |-> values]

\* Map::default(), Set::default().
New == Header(NoIndex, <<>>)

Init ==
    /\ kind \in [Obj -> {"map", "set"}]
    /\ store = [o \in Obj |-> New]

\* Map.put: a key found has its value replaced, another is entered.
Put(h, k, v) ==
    LET found == BucketFind(h, k)
    IN  IF found # {}
        THEN [h EXCEPT !.values[h.buckets[CHOOSE s \in found : TRUE] + 1] = v]
        ELSE [Entered(h, k) EXCEPT !.values = Stored(@, h.len, v)]

\* Mutant: the value stays behind when the last key fills the hole.
RemoveKeepsValue(h, k) ==
    LET found == BucketFind(h, k)
        b == CHOOSE s \in found : TRUE
    IN  IF found = {} THEN h ELSE Forgotten(h, b)

\* Map.remove.
Remove(h, k) ==
    LET found == BucketFind(h, k)
        b == CHOOSE s \in found : TRUE
    IN  IF found = {} THEN h
        ELSE [Forgotten(h, b) EXCEPT !.values[h.buckets[b] + 1] = h.values[h.len]]

\* Map.copy: the live entries put into a new map in dense order.
Copied(h) ==
    LET out[i \in 0 .. h.len] ==
            IF i = 0 THEN New ELSE Put(out[i - 1], h.keys[i], h.values[i])
    IN  out[h.len]

\* Set.add, Set.remove and Set.copy.
Add(h, k) == IF BucketFind(h, k) # {} THEN h ELSE Entered(h, k)

Discard(h, k) ==
    LET found == BucketFind(h, k)
    IN  IF found = {} THEN h ELSE Forgotten(h, CHOOSE s \in found : TRUE)

SetCopied(h) ==
    LET out[i \in 0 .. h.len] ==
            IF i = 0 THEN New ELSE Add(out[i - 1], h.keys[i])
    IN  out[h.len]

Roomy(o, k) == store[o].len < MaxLen \/ BucketFind(store[o], k) # {}

MapCalls ==
    \E o \in {x \in Obj : kind[x] = "map"} :
        \/ \E k \in Key, v \in Value :
              Roomy(o, k) /\ store' = [store EXCEPT ![o] = Put(@, k, v)]
        \/ \E k \in Key : store' = [store EXCEPT ![o] = Remove(@, k)]
        \/ \E p \in Obj :
              kind[p] = "map" /\ store' = [store EXCEPT ![p] = Copied(store[o])]

SetCalls ==
    \E o \in {x \in Obj : kind[x] = "set"} :
        \/ \E k \in Key :
              Roomy(o, k) /\ store' = [store EXCEPT ![o] = Add(@, k)]
        \/ \E k \in Key : store' = [store EXCEPT ![o] = Discard(@, k)]
        \/ \E p \in Obj :
              kind[p] = "set" /\ store' = [store EXCEPT ![p] = SetCopied(store[o])]

Next == (MapCalls \/ SetCalls) /\ UNCHANGED kind

Spec == Init /\ [][Next]_vars
-----------------------------------------------------------------------------
\* What can be read in dense order: Map.keys() and Map.values(), Set's [].
Entries(o) ==
    LET h == store[o]
    IN  [i \in 1 .. h.len |->
            IF kind[o] = "map" THEN <<h.keys[i], h.values[i]>> ELSE <<h.keys[i]>>]

\* Every index keeps an empty bucket for searches to end at, leads to every
\* live entry, and counts its tombstones: after any mix of puts, removals and
\* rebuilds, or a probe would go round for nothing or lose an entry.
IndexIsSound ==
    \A o \in Obj :
        /\ IndexShape(store[o])
        /\ store[o].tombs =
              Cardinality({s \in DOMAIN store[o].buckets :
                              store[o].buckets[s] = TOMB})

\* docs/reference/stdlib/collections.md:743: index_of is "the position of key
\* among keys(), or -1 if absent", for every key, whatever was put, removed and
\* rehashed before.
IndexOfIsPosition ==
    \A o \in Obj, k \in Key :
        LET at == {i \in 1 .. store[o].len : Same(store[o].keys[i], k)}
        IN  IF at = {} THEN IndexOf(store[o], k) = -1
            ELSE at = {IndexOf(store[o], k) + 1}

\* map.tr's header: the hash index is "purely an accelerator" over the dense
\* arrays.  They evolve as if every key were looked for by scanning them, also
\* after a copy has put them into a fresh index.
Scan == INSTANCE ScanMap WITH maps <- [o \in Obj |-> Entries(o)]
IsAccelerator == Scan!Spec
=============================================================================
