------------------------------ MODULE HashIndex ------------------------------
(***************************************************************************)
(* The open-addressing index that lib/std/collections/map.tr lays over its *)
(* dense array of keys, and set.tr, in the same words, over its array of   *)
(* items: buckets of Map[s] and Set[s] hold a dense index, EMPTY (-1) or   *)
(* TOMB (-2).                                                              *)
(*                                                                         *)
(* h is the header: keys (the cells of the array written so far, of which  *)
(* the first h.len are live; a cell past them keeps what it held), bcap,   *)
(* buckets and tombs.  Dense indices count from 0, as in the code.         *)
(***************************************************************************)
EXTENDS Integers, Sequences

CONSTANTS
    Key,      \* the values keys are taken from
    Hash,     \* hashing::hash of each
    Odd,      \* the keys that are not equal to themselves: NaN
    First     \* the first capacity of the array and of the index: 8

ASSUME HashAssumption == Hash \in [Key -> Nat]
ASSUME OddAssumption == Odd \subseteq Key
ASSUME FirstAssumption ==
    First \in Nat \ {0, 1} /\ \E k \in 1 .. 31 : First = 2 ^ k

EMPTY == -1
TOMB == -2

\* The language's == on two keys.
Same(k, j) == k = j /\ k \notin Odd

NoIndex == [keys |-> <<>>, len |-> 0, cap |-> 0, bcap |-> 0, tombs |-> 0,
            buckets |-> <<>>]

\* The i-th bucket of k's probe chain; hash & (bcap - 1), bcap a power of two.
Chain(h, k, i) == (Hash[k] + i) % h.bcap

\* The first of a set of steps along the chain, as a set.
Earliest(I) == {i \in I : \A j \in I : i <= j}

\* Mutant: a tombstone ends the search like an empty bucket.
BucketFindStopsAtTomb(h, k) ==
    LET At(i) == h.buckets[Chain(h, k, i)]
        stops == {i \in 0 .. h.bcap - 1 :
                     At(i) < 0 \/ Same(h.keys[At(i) + 1], k)}
    IN  {Chain(h, k, i) : i \in {j \in Earliest(stops) : At(j) >= 0}}

\* bucket_find: the bucket that holds k's dense index, or none.  The search ends
\* at an EMPTY bucket or when it has been round.
BucketFind(h, k) ==
    LET At(i) == h.buckets[Chain(h, k, i)]
        stops == {i \in 0 .. h.bcap - 1 :
                     \/ At(i) = EMPTY
                     \/ At(i) # TOMB /\ Same(h.keys[At(i) + 1], k)}
    IN  {Chain(h, k, i) : i \in {j \in Earliest(stops) : At(j) # EMPTY}}

\* bucket_insert_slot: the first tombstone before the first EMPTY bucket, else
\* that bucket; none if there is neither.
BucketInsertSlot(h, k) ==
    LET At(i) == h.buckets[Chain(h, k, i)]
        empties == Earliest({i \in 0 .. h.bcap - 1 : At(i) = EMPTY})
        tombs == {i \in 0 .. h.bcap - 1 :
                     At(i) = TOMB /\ \A e \in empties : i < e}
    IN  {Chain(h, k, i) : i \in IF tombs # {} THEN Earliest(tombs) ELSE empties}

\* Mutant: the tombstone count survives the rebuild it was the reason for.
BucketRehashKeepsTombs(h, n) ==
    LET bare == [h EXCEPT !.bcap = n, !.buckets = [s \in 0 .. n - 1 |-> EMPTY]]
        entered[i \in 0 .. h.len] ==
            IF i = 0 THEN bare
            ELSE LET g == entered[i - 1]
                     s == CHOOSE t \in BucketInsertSlot(g, h.keys[i]) : TRUE
                 IN  [g EXCEPT !.buckets[s] = i - 1]
    IN  entered[h.len]

\* bucket_rehash: n fresh buckets, every live entry probed into them in turn.
BucketRehash(h, n) ==
    LET bare == [h EXCEPT !.bcap = n, !.tombs = 0,
                          !.buckets = [s \in 0 .. n - 1 |-> EMPTY]]
        entered[i \in 0 .. h.len] ==
            IF i = 0 THEN bare
            ELSE LET g == entered[i - 1]
                     s == CHOOSE t \in BucketInsertSlot(g, h.keys[i]) : TRUE
                 IN  [g EXCEPT !.buckets[s] = i - 1]
    IN  entered[h.len]

\* Mutant: the load counts live entries only, as map.tr did at first.
GrowWhenLive(h) ==
    IF h.bcap = 0 THEN BucketRehash(h, First)
    ELSE IF (h.len + 1) * 10 < h.bcap * 7 THEN h
    ELSE BucketRehash(h, h.bcap * 2)

\* bucket_maybe_grow: at 70% of live entries and tombstones, twice the size if
\* live entries alone fill 35%, else the same size to be rid of tombstones.
BucketMaybeGrow(h) ==
    IF h.bcap = 0 THEN BucketRehash(h, First)
    ELSE IF (h.len + h.tombs + 1) * 10 < h.bcap * 7 THEN h
    ELSE IF (h.len + 1) * 20 >= h.bcap * 7 THEN BucketRehash(h, h.bcap * 2)
    ELSE BucketRehash(h, h.bcap)

\* index_of: the dense index of k, or -1.
IndexOf(h, k) ==
    IF BucketFind(h, k) = {} THEN -1
    ELSE h.buckets[CHOOSE s \in BucketFind(h, k) : TRUE]

\* The start of put and add for a new key: the array doubles when it is full,
\* then the index is seen to.
WithRoom(h) ==
    BucketMaybeGrow(
        IF h.len < h.cap THEN h
        ELSE [h EXCEPT !.cap = IF @ = 0 THEN First ELSE @ * 2])

\* What an array of cells is after x is stored at index i: the next one to be
\* written, or one already written.
Stored(cells, i, x) ==
    IF i = Len(cells) THEN Append(cells, x) ELSE [cells EXCEPT ![i + 1] = x]

\* The rest of put and add: k takes the bucket it is given and the next dense
\* index.
Entered(h, k) ==
    LET g == WithRoom(h)
        s == CHOOSE t \in BucketInsertSlot(g, k) : TRUE
    IN  [g EXCEPT !.tombs = IF g.buckets[s] = TOMB THEN @ - 1 ELSE @,
                  !.buckets[s] = g.len,
                  !.keys = Stored(@, g.len, k),
                  !.len = @ + 1]

\* Mutant: the key moved into the hole keeps its old dense index.
ForgottenStale(h, b) ==
    LET i == h.buckets[b]
        n == h.len - 1
    IN  [h EXCEPT !.buckets[b] = TOMB, !.tombs = @ + 1, !.len = n,
                  !.keys[i + 1] = h.keys[n + 1]]

\* remove: the bucket b becomes a tombstone; the last entry fills the hole, and
\* its own bucket, looked up by key, is pointed at its new place.
Forgotten(h, b) ==
    LET i == h.buckets[b]
        n == h.len - 1
        g == [h EXCEPT !.buckets[b] = TOMB, !.tombs = @ + 1, !.len = n]
        moved == IF i = n THEN {} ELSE BucketFind(g, h.keys[n + 1])
    IN  [g EXCEPT !.buckets = [s \in DOMAIN @ |-> IF s \in moved THEN i ELSE @[s]],
                  !.keys[i + 1] = h.keys[n + 1]]
-----------------------------------------------------------------------------
\* What every operation leaves behind: an EMPTY bucket in every index, the
\* tombstones counted, and room for the entries.
IndexShape(h) ==
    /\ h.len <= h.cap
    /\ h.bcap = 0 => h.len = 0
    /\ h.bcap > 0 =>
          /\ \E s \in DOMAIN h.buckets : h.buckets[s] = EMPTY
          /\ \A i \in 0 .. h.len - 1 :
                \E s \in DOMAIN h.buckets : h.buckets[s] = i
=============================================================================
