------------------------ MODULE HashCollections_proofs ------------------------
(***************************************************************************)
(* What TLAPS proves of HashCollections: for any keys that equal           *)
(* themselves, any hash, values, first capacity, number of collections and *)
(* bound on their lengths, the bucket index leads to every entry and the   *)
(* collections behave as the scanned entries of ScanMap.                   *)
(***************************************************************************)
EXTENDS HashCollections, FiniteSetTheorems, SequenceTheorems, TLAPS

\* A set of naturals that is not empty has a least element.
LEMMA Least ==
  ASSUME NEW T \in SUBSET Nat, T # {}
  PROVE  \E x \in T : \A y \in T : x <= y
<1> DEFINE R == OpToRel(<, Nat)
<1>1. IsWellFoundedOn(R, Nat)
  BY NatLessThanWellFounded
<1>2. \A x, y \in Nat : y < x => <<y, x>> \in R
  BY DEF OpToRel
<1>. HIDE DEF R
<1>3. \E x \in T : \A y \in T : ~(<<y, x>> \in R)
  BY <1>1, WFMin
<1>4. PICK x \in T : \A y \in T : ~(<<y, x>> \in R)
  BY <1>3
<1>5. ASSUME NEW y \in T PROVE x <= y
  <2>1. x \in Nat /\ y \in Nat
    OBVIOUS
  <2>2. ~(y < x)
    BY <1>2, <1>4, <2>1
  <2>. QED
    BY <2>1, <2>2
<1>. QED
  BY <1>5

\* Induction over the naturals, for a set.
LEMMA Upwards ==
  ASSUME NEW T \in SUBSET Nat, 0 \in T, \A n \in T : n + 1 \in T
  PROVE  \A n \in Nat : n \in T
<1> SUFFICES ASSUME Nat \ T # {} PROVE FALSE
  OBVIOUS
<1>1. PICK x \in Nat \ T : \A y \in Nat \ T : x <= y
  BY Least
<1>2. x # 0 /\ x - 1 \in Nat
  BY <1>1
<1>3. x - 1 \in T
  BY <1>1, <1>2
<1>. QED
  BY <1>1, <1>2, <1>3

\* A function on 0 .. n that begins with base and goes on by step.
Iterates(f, n, S, base, step) ==
    /\ f \in [0 .. n -> S]
    /\ f[0] = base /\ \A i \in 1 .. n : f[i] = step[i][f[i - 1]]

LEMMA Iteration ==
  ASSUME NEW n \in Nat, NEW S, NEW base \in S, NEW step \in [1 .. n -> [S -> S]]
  PROVE  \E f : Iterates(f, n, S, base, step)
<1> DEFINE Good(m, f) == /\ f \in [0 .. m -> S] /\ f[0] = base
                         /\ \A i \in 1 .. m : f[i] = step[i][f[i - 1]]
           T == {m \in Nat : m <= n => \E f \in [0 .. m -> S] : Good(m, f)}
<1>1. 0 \in T
  <2> DEFINE f == [i \in 0 .. 0 |-> base]
  <2>1. f \in [0 .. 0 -> S] /\ f[0] = base
    OBVIOUS
  <2>2. Good(0, f)
    BY <2>1
  <2>. HIDE DEF f
  <2>. QED
    BY <2>1, <2>2
<1>2. ASSUME NEW m \in T PROVE m + 1 \in T
  <2> SUFFICES ASSUME m + 1 <= n PROVE \E f \in [0 .. m + 1 -> S] : Good(m + 1, f)
    OBVIOUS
  <2>1. PICK g \in [0 .. m -> S] : Good(m, g)
    OBVIOUS
  <2> DEFINE x == step[m + 1][g[m]]
             f == [i \in 0 .. m + 1 |-> IF i = m + 1 THEN x ELSE g[i]]
  <2>2. m \in 0 .. m /\ m + 1 \in 1 .. n
    OBVIOUS
  <2>3. x \in S
    BY <2>2
  <2>. HIDE DEF x
  <2>4. f \in [0 .. m + 1 -> S] /\ f[m + 1] = x /\ \A i \in 0 .. m : f[i] = g[i]
    BY <2>3
  <2>. HIDE DEF f
  <2>5. f[0] = base
    BY <2>1, <2>4
  <2>6. ASSUME NEW i \in 1 .. m + 1 PROVE f[i] = step[i][f[i - 1]]
    <3>1. CASE i = m + 1
      BY <3>1, <2>2, <2>4 DEF x
    <3>2. CASE i # m + 1
      <4>1. i \in 1 .. m /\ i \in 0 .. m /\ i - 1 \in 0 .. m
        BY <3>2
      <4>. QED
        BY <4>1, <2>1, <2>4
    <3>. QED
      BY <3>1, <3>2
  <2>. QED
    BY <2>4, <2>5, <2>6
<1>3. n \in T
  <2>. HIDE DEF T
  <2>1. T \in SUBSET Nat
    BY DEF T
  <2>. QED
    BY <1>1, <1>2, <2>1, Upwards
<1>4. PICK f \in [0 .. n -> S] : Good(n, f)
  BY <1>3
<1>. QED
  BY <1>4 DEF Iterates

\* What holds at the beginning and from each place to the next holds to the end.
LEMMA Along ==
  ASSUME NEW n \in Nat, NEW T \in SUBSET Nat, 0 \in T,
         \A i \in 1 .. n : i - 1 \in T => i \in T
  PROVE  \A i \in 0 .. n : i \in T
<1> DEFINE U == {i \in Nat : i <= n => i \in T}
<1>1. 0 \in U
  OBVIOUS
<1>2. ASSUME NEW i \in U PROVE i + 1 \in U
  <2> SUFFICES ASSUME i + 1 <= n PROVE i + 1 \in T
    OBVIOUS
  <2>1. i + 1 \in 1 .. n /\ (i + 1) - 1 = i /\ i \in T
    OBVIOUS
  <2>. QED
    BY <2>1
<1>3. U \in SUBSET Nat
  OBVIOUS
<1>. HIDE DEF U
<1>4. \A i \in Nat : i \in U
  BY <1>1, <1>2, <1>3, Upwards
<1>. QED
  BY <1>4 DEF U

\* Remainders: among n consecutive numbers every remainder occurs.
LEMMA ModType ==
  ASSUME NEW a \in Int, NEW n \in Nat \ {0}
  PROVE  a % n \in 0 .. n - 1
OBVIOUS

LEMMA ModUnique ==
  ASSUME NEW n \in Nat \ {0}, NEW q \in Int, NEW r \in 0 .. n - 1
  PROVE  (n * q + r) % n = r
<1> DEFINE a == n * q + r
           p == a \div n
           t == a % n
<1>1. a \in Int /\ p \in Int /\ t \in 0 .. n - 1 /\ a = n * p + t
  OBVIOUS
<1>. HIDE DEF a, p, t
<1>2. \A d \in Nat \ {0} : n * d >= n
  OBVIOUS
<1>3. n * (q - p) = n * q - n * p /\ n * (p - q) = n * p - n * q
  BY <1>1
<1>4. n * q + r = n * p + t
  BY <1>1 DEF a
<1>5. CASE q - p >= 1
  <2>1. n * (q - p) >= n
    BY <1>1, <1>2, <1>5
  <2>. QED
    BY <1>1, <1>3, <1>4, <2>1
<1>6. CASE p - q >= 1
  <2>1. n * (p - q) >= n
    BY <1>1, <1>2, <1>6
  <2>. QED
    BY <1>1, <1>3, <1>4, <2>1
<1>7. CASE p = q
  BY <1>1, <1>4, <1>7 DEF a, t
<1>. QED
  BY <1>1, <1>5, <1>6, <1>7

LEMMA ModReach ==
  ASSUME NEW a \in Nat, NEW n \in Nat \ {0}, NEW s \in 0 .. n - 1
  PROVE  \E i \in 0 .. n - 1 : (a + i) % n = s
<1> DEFINE r == a % n
           p == a \div n
           i == IF s >= r THEN s - r ELSE s - r + n
           q == IF s >= r THEN p ELSE p + 1
<1>1. r \in 0 .. n - 1 /\ a = n * p + r /\ p \in Int
  OBVIOUS
<1>. HIDE DEF r, p
<1>2. i \in 0 .. n - 1 /\ q \in Int
  BY <1>1
<1>3. a + i = n * q + s
  <2>1. CASE s >= r
    BY <1>1, <2>1
  <2>2. CASE ~(s >= r)
    <3>1. n * (p + 1) = n * p + n
      BY <1>1
    <3>. QED
      BY <1>1, <2>2, <3>1
  <2>. QED
    BY <2>1, <2>2
<1>. HIDE DEF i, q
<1>4. (a + i) % n = s
  BY <1>2, <1>3, ModUnique
<1>. QED
  BY <1>2, <1>4

\* The earliest of a set of steps.
LEMMA EarliestFacts ==
  ASSUME NEW I \in SUBSET Nat
  PROVE  /\ I = {} => Earliest(I) = {}
         /\ I # {} => \E e \in I : Earliest(I) = {e} /\ \A j \in I : e <= j
<1>1. CASE I = {}
  BY <1>1 DEF Earliest
<1>2. CASE I # {}
  <2>1. PICK e \in I : \A j \in I : e <= j
    BY <1>2, Least
  <2>2. Earliest(I) = {e}
    <3>1. e \in Earliest(I)
      BY <2>1 DEF Earliest
    <3>2. ASSUME NEW i \in Earliest(I) PROVE i = e
      <4>1. i \in Nat /\ e \in Nat /\ i <= e /\ e <= i
        BY <2>1 DEF Earliest
      <4>. QED
        BY <4>1
    <3>. QED
      BY <3>1, <3>2
  <2>. QED
    BY <1>2, <2>1, <2>2
<1>. QED
  BY <1>1, <1>2

(***************************************************************************)
(* Indexes.  n buckets b lead to the dense indices in D: each has one      *)
(* bucket, on the probe chain of its key, with no EMPTY one before it.     *)
(***************************************************************************)
Home(k, n, i) == (Hash[k] + i) % n

Reaches(b, n, k, s) ==
    \E d \in 0 .. n - 1 :
        /\ Home(k, n, d) = s
        /\ \A e \in 0 .. n - 1 : e < d => b[Home(k, n, e)] # EMPTY

Leads(keys, n, b, D) ==
    /\ b \in [0 .. n - 1 -> {EMPTY, TOMB} \cup D]
    /\ \A i \in D : \E s \in 0 .. n - 1 : b[s] = i /\ Reaches(b, n, keys[i + 1], s)
    /\ \A s, t \in 0 .. n - 1 : b[s] = b[t] /\ b[s] \in D => s = t

Distinct(keys, D) == \A i, j \in D : keys[i + 1] = keys[j + 1] => i = j

\* Cells are of keys as far as D goes.
Holds(keys, D) == \A i \in D : keys[i + 1] \in Key

\* A step of a probe chain ends at a bucket, and every bucket is on the chain.
LEMMA HomeFacts ==
  ASSUME NEW k \in Key, NEW n \in Nat \ {0}
  PROVE  /\ \A i \in 0 .. n - 1 : Home(k, n, i) \in 0 .. n - 1
         /\ \A s \in 0 .. n - 1 : \E i \in 0 .. n - 1 : Home(k, n, i) = s
<1>1. Hash[k] \in Nat
  BY HashAssumption
<1>2. ASSUME NEW i \in 0 .. n - 1 PROVE Home(k, n, i) \in 0 .. n - 1
  <2>1. Hash[k] + i \in Int
    BY <1>1
  <2>. QED
    BY <2>1, ModType DEF Home
<1>3. ASSUME NEW s \in 0 .. n - 1 PROVE \E i \in 0 .. n - 1 : Home(k, n, i) = s
  BY <1>1, ModReach DEF Home
<1>. QED
  BY <1>2, <1>3

\* bucket_find finds bucket s for the key k, and the dense index in it is i.
FoundAt(h, k, s, i) ==
    s \in 0 .. h.bcap - 1 /\ BucketFind(h, k) = {s} /\ h.buckets[s] = i

\* bucket_find of a key that is there: its bucket.
LEMMA FoundFacts ==
  ASSUME Odd = {}, NEW h, h.bcap \in Nat, NEW D \in SUBSET Nat,
         Leads(h.keys, h.bcap, h.buckets, D),
         Distinct(h.keys, D), Holds(h.keys, D), NEW j \in D
  PROVE  \E s : FoundAt(h, h.keys[j + 1], s, j)
<1> DEFINE n == h.bcap
           k == h.keys[j + 1]
           b == h.buckets
           stops == {i \in 0 .. n - 1 :
                        \/ b[Home(k, n, i)] = EMPTY
                        \/ /\ b[Home(k, n, i)] # TOMB
                           /\ Same(h.keys[b[Home(k, n, i)] + 1], k)}
<1>1. k \in Key /\ j \in Nat
  BY DEF Holds
<1>2. PICK s \in 0 .. n - 1 : b[s] = j /\ Reaches(b, n, k, s)
  BY DEF Leads
<1>3. PICK d \in 0 .. n - 1 :
          /\ Home(k, n, d) = s
          /\ \A e \in 0 .. n - 1 : e < d => b[Home(k, n, e)] # EMPTY
  BY <1>2 DEF Reaches
<1>4. n \in Nat \ {0}
  BY <1>2
<1>5. BucketFind(h, k) = {Home(k, n, i) : i \in {e \in Earliest(stops) : b[Home(k, n, e)] # EMPTY}}
  BY DEF BucketFind, Chain, Home
<1>6. d \in stops
  BY <1>1, <1>2, <1>3 DEF Same, EMPTY, TOMB
<1>7. PICK e \in stops : Earliest(stops) = {e} /\ \A i \in stops : e <= i
  <2>1. stops \in SUBSET Nat /\ stops # {}
    BY <1>6
  <2>. HIDE DEF stops
  <2>. QED
    BY <2>1, EarliestFacts
<1>8. b[Home(k, n, e)] # EMPTY
  <2>1. CASE e < d
    BY <1>3, <1>7, <2>1
  <2>2. CASE e = d
    BY <1>1, <1>2, <1>3, <2>2 DEF EMPTY
  <2>. QED
    BY <1>6, <1>7, <2>1, <2>2
<1>9. Home(k, n, e) \in 0 .. n - 1
  BY <1>1, <1>4, HomeFacts
<1>10. b[Home(k, n, e)] = j
  <2>1. b[Home(k, n, e)] \in {EMPTY, TOMB} \cup D
    BY <1>9 DEF Leads
  <2>2. b[Home(k, n, e)] # TOMB /\ h.keys[b[Home(k, n, e)] + 1] = k
    BY <1>7, <1>8 DEF Same
  <2>3. b[Home(k, n, e)] \in D
    BY <1>8, <2>1, <2>2
  <2>. QED
    BY <2>2, <2>3 DEF Distinct
<1>11. BucketFind(h, k) = {Home(k, n, e)}
  BY <1>5, <1>7, <1>8
<1>. QED
  BY <1>9, <1>10, <1>11 DEF FoundAt

\* bucket_find of a key that is not there.
LEMMA NotFoundFacts ==
  ASSUME NEW h, NEW n \in Nat, NEW D \in SUBSET Nat,
         h.bcap = n, Leads(h.keys, n, h.buckets, D),
         NEW k \in Key, \A i \in D : ~Same(h.keys[i + 1], k)
  PROVE  BucketFind(h, k) = {}
<1> DEFINE b == h.buckets
           stops == {i \in 0 .. n - 1 :
                        \/ b[Home(k, n, i)] = EMPTY
                        \/ /\ b[Home(k, n, i)] # TOMB
                           /\ Same(h.keys[b[Home(k, n, i)] + 1], k)}
<1>1. BucketFind(h, k) = {Home(k, n, i) : i \in {e \in Earliest(stops) : b[Home(k, n, e)] # EMPTY}}
  BY DEF BucketFind, Chain, Home
<1>2. ASSUME NEW e \in Earliest(stops) PROVE b[Home(k, n, e)] = EMPTY
  <2>1. e \in stops /\ e \in 0 .. n - 1
    BY DEF Earliest
  <2>2. n \in Nat \ {0}
    BY <2>1
  <2>3. Home(k, n, e) \in 0 .. n - 1
    BY <2>1, <2>2, HomeFacts
  <2>4. b[Home(k, n, e)] \in {EMPTY, TOMB} \cup D
    BY <2>3 DEF Leads
  <2>. QED
    BY <2>1, <2>4
<1>. QED
  BY <1>1, <1>2

\* A chain is not broken by filling buckets or leaving tombstones.
LEMMA ReachesStill ==
  ASSUME NEW n \in Nat \ {0}, NEW b, NEW c, NEW k \in Key, NEW s \in 0 .. n - 1,
         Reaches(b, n, k, s), \A t \in 0 .. n - 1 : c[t] = EMPTY => b[t] = EMPTY
  PROVE  Reaches(c, n, k, s)
BY HomeFacts DEF Reaches

\* bucket_insert_slot: a free bucket that the key's chain reaches.
LEMMA SlotFacts ==
  ASSUME NEW h, NEW n \in Nat \ {0}, h.bcap = n, NEW k \in Key,
         \E t \in 0 .. n - 1 : h.buckets[t] = EMPTY
  PROVE  \E s \in 0 .. n - 1 : /\ BucketInsertSlot(h, k) = {s}
                               /\ h.buckets[s] \in {EMPTY, TOMB}
                               /\ Reaches(h.buckets, n, k, s)
<1> DEFINE b == h.buckets
           free == {i \in 0 .. n - 1 : b[Home(k, n, i)] = EMPTY}
           tombs == {i \in 0 .. n - 1 :
                        b[Home(k, n, i)] = TOMB /\ \A e \in Earliest(free) : i < e}
           first == IF tombs # {} THEN Earliest(tombs) ELSE Earliest(free)
<1>1. BucketInsertSlot(h, k) = {Home(k, n, i) : i \in first}
  BY DEF BucketInsertSlot, Chain, Home
<1>2. PICK e \in free : Earliest(free) = {e} /\ \A i \in free : e <= i
  <2>1. free \in SUBSET Nat /\ free # {}
    BY HomeFacts
  <2>. HIDE DEF free
  <2>. QED
    BY <2>1, EarliestFacts
<1>3. \E i \in 0 .. n - 1 : /\ first = {i} /\ i <= e
                            /\ b[Home(k, n, i)] \in {EMPTY, TOMB}
  <2>1. CASE tombs = {}
    BY <1>2, <2>1
  <2>2. CASE tombs # {}
    <3>1. tombs \in SUBSET Nat
      OBVIOUS
    <3>2. PICK i \in tombs : Earliest(tombs) = {i}
      <4>. HIDE DEF tombs
      <4>. QED
        BY <2>2, <3>1, EarliestFacts
    <3>3. i < e
      BY <1>2
    <3>. QED
      BY <1>2, <2>2, <3>2, <3>3
  <2>. QED
    BY <2>1, <2>2
<1>4. PICK i \in 0 .. n - 1 : /\ first = {i} /\ i <= e
                              /\ b[Home(k, n, i)] \in {EMPTY, TOMB}
  BY <1>3
<1>5. Home(k, n, i) \in 0 .. n - 1
  BY HomeFacts
<1>6. \A d \in 0 .. n - 1 : d < i => b[Home(k, n, d)] # EMPTY
  BY <1>2, <1>4
<1>7. Reaches(b, n, k, Home(k, n, i))
  BY <1>6 DEF Reaches
<1>8. BucketInsertSlot(h, k) = {Home(k, n, i)}
  <2>. HIDE DEF first
  <2>. QED
    BY <1>1, <1>4
<1>. QED
  BY <1>4, <1>5, <1>7, <1>8

\* A key takes a free bucket on its chain.
LEMMA Filled ==
  ASSUME NEW n \in Nat \ {0}, NEW D \in SUBSET Nat, NEW keys, NEW b,
         Leads(keys, n, b, D), NEW x \in Nat \ D, NEW s \in 0 .. n - 1,
         b[s] \in {EMPTY, TOMB}, NEW cells,
         \A i \in D : cells[i + 1] = keys[i + 1] /\ keys[i + 1] \in Key,
         cells[x + 1] \in Key, Reaches(b, n, cells[x + 1], s)
  PROVE  Leads(cells, n, [b EXCEPT ![s] = x], D \cup {x})
<1> DEFINE c == [b EXCEPT ![s] = x]
<1>1. b \in [0 .. n - 1 -> {EMPTY, TOMB} \cup D]
  BY DEF Leads
<1>2. c \in [0 .. n - 1 -> {EMPTY, TOMB} \cup (D \cup {x})]
      /\ c[s] = x /\ \A t \in 0 .. n - 1 : t # s => c[t] = b[t]
  BY <1>1
<1>3. b[s] \notin D /\ x \notin {EMPTY, TOMB}
  BY DEF EMPTY, TOMB
<1>. HIDE DEF c
<1>4. \A t \in 0 .. n - 1 : c[t] = EMPTY => b[t] = EMPTY
  BY <1>2, <1>3
<1>5. ASSUME NEW i \in D \cup {x}
      PROVE  \E t \in 0 .. n - 1 : c[t] = i /\ Reaches(c, n, cells[i + 1], t)
  <2>1. CASE i = x
    <3>1. Reaches(c, n, cells[x + 1], s)
      BY <1>4, ReachesStill
    <3>. QED
      BY <1>2, <2>1, <3>1
  <2>2. CASE i \in D
    <3>1. PICK t \in 0 .. n - 1 : b[t] = i /\ Reaches(b, n, keys[i + 1], t)
      BY <2>2 DEF Leads
    <3>2. Reaches(c, n, cells[i + 1], t)
      BY <1>4, <2>2, <3>1, ReachesStill
    <3>3. t # s
      BY <1>3, <2>2, <3>1
    <3>. QED
      BY <1>2, <3>1, <3>2, <3>3
  <2>. QED
    BY <2>1, <2>2
<1>6. ASSUME NEW t \in 0 .. n - 1, NEW u \in 0 .. n - 1, c[t] = c[u], c[t] \in D \cup {x}
      PROVE  t = u
  <2>1. \A v \in 0 .. n - 1 : b[v] # x
    BY <1>1, <1>3
  <2>2. CASE t # s /\ u # s
    <3>1. b[t] = b[u] /\ b[t] \in D
      BY <1>2, <1>6, <2>1, <2>2
    <3>. QED
      BY <3>1 DEF Leads
  <2>3. CASE t = s \/ u = s
    BY <1>2, <1>6, <2>1, <2>3
  <2>. QED
    BY <2>2, <2>3
<1>. QED
  BY <1>2, <1>5, <1>6 DEF Leads, c

\* A bucket becomes a tombstone.
LEMMA Dropped ==
  ASSUME NEW n \in Nat \ {0}, NEW D \in SUBSET Nat, NEW keys, NEW b,
         Leads(keys, n, b, D), Holds(keys, D), NEW s \in 0 .. n - 1, b[s] \in D
  PROVE  Leads(keys, n, [b EXCEPT ![s] = TOMB], D \ {b[s]})
<1> DEFINE c == [b EXCEPT ![s] = TOMB]
           E == D \ {b[s]}
<1>1. b \in [0 .. n - 1 -> {EMPTY, TOMB} \cup D]
      /\ \A t, u \in 0 .. n - 1 : b[t] = b[u] /\ b[t] \in D => t = u
  BY DEF Leads
<1>2. c[s] = TOMB /\ \A t \in 0 .. n - 1 : t # s => c[t] = b[t]
  BY <1>1
<1>3. c \in [0 .. n - 1 -> {EMPTY, TOMB} \cup E]
  <2>1. \A t \in 0 .. n - 1 : t # s => b[t] # b[s]
    BY <1>1
  <2>. QED
    BY <1>1, <2>1
<1>4. EMPTY # TOMB /\ TOMB \notin D
  BY DEF EMPTY, TOMB
<1>. HIDE DEF c
<1>5. \A t \in 0 .. n - 1 : c[t] = EMPTY => b[t] = EMPTY
  BY <1>2, <1>4
<1>6. ASSUME NEW i \in E
      PROVE  \E t \in 0 .. n - 1 : c[t] = i /\ Reaches(c, n, keys[i + 1], t)
  <2>1. PICK t \in 0 .. n - 1 : b[t] = i /\ Reaches(b, n, keys[i + 1], t)
    BY DEF Leads
  <2>2. t # s /\ keys[i + 1] \in Key
    BY <2>1 DEF Holds
  <2>3. Reaches(c, n, keys[i + 1], t)
    BY <1>5, <2>1, <2>2, ReachesStill
  <2>. QED
    BY <1>2, <2>1, <2>2, <2>3
<1>7. ASSUME NEW t \in 0 .. n - 1, NEW u \in 0 .. n - 1, c[t] = c[u], c[t] \in E
      PROVE  t = u
  <2>1. t # s /\ u # s
    BY <1>2, <1>4, <1>7
  <2>. QED
    BY <1>1, <1>2, <1>7, <2>1
<1>. QED
  BY <1>3, <1>6, <1>7 DEF Leads, c

\* The buckets that hold a tombstone.
Tombs(n, b) == {s \in 0 .. n - 1 : b[s] = TOMB}

LEMMA TombsType ==
  ASSUME NEW n \in Nat, NEW b
  PROVE  IsFiniteSet(Tombs(n, b)) /\ Cardinality(Tombs(n, b)) \in Nat
<1>1. IsFiniteSet(0 .. n - 1)
  BY FS_Interval
<1>2. Tombs(n, b) \in SUBSET (0 .. n - 1)
  BY DEF Tombs
<1>3. IsFiniteSet(Tombs(n, b))
  BY <1>1, <1>2, FS_Subset
<1>. QED
  BY <1>3, FS_CardinalityType

LEMMA TombsChange ==
  ASSUME NEW n \in Nat, NEW b, NEW c, NEW s \in 0 .. n - 1,
         \A t \in 0 .. n - 1 : t # s => c[t] = b[t]
  PROVE  /\ b[s] = TOMB /\ c[s] # TOMB
              => Cardinality(Tombs(n, c)) = Cardinality(Tombs(n, b)) - 1
         /\ b[s] # TOMB /\ c[s] = TOMB
              => Cardinality(Tombs(n, c)) = Cardinality(Tombs(n, b)) + 1
         /\ b[s] # TOMB /\ c[s] # TOMB
              => Cardinality(Tombs(n, c)) = Cardinality(Tombs(n, b))
<1>1. IsFiniteSet(Tombs(n, b))
  BY TombsType
<1>2. CASE b[s] = TOMB /\ c[s] # TOMB
  <2>1. Tombs(n, c) = Tombs(n, b) \ {s} /\ s \in Tombs(n, b)
    BY <1>2 DEF Tombs
  <2>. QED
    BY <1>1, <1>2, <2>1, FS_RemoveElement
<1>3. CASE b[s] # TOMB /\ c[s] = TOMB
  <2>1. Tombs(n, c) = Tombs(n, b) \cup {s} /\ s \notin Tombs(n, b)
    BY <1>3 DEF Tombs
  <2>. QED
    BY <1>1, <1>3, <2>1, FS_AddElement
<1>4. CASE b[s] # TOMB /\ c[s] # TOMB
  <2>1. Tombs(n, c) = Tombs(n, b)
    BY <1>4 DEF Tombs
  <2>. QED
    BY <1>4, <2>1
<1>5. CASE b[s] = TOMB /\ c[s] = TOMB
  BY <1>5
<1>. QED
  BY <1>2, <1>3, <1>4, <1>5

\* An index under its load limit has an EMPTY bucket.
LEMMA EmptyBucket ==
  ASSUME NEW n \in Nat \ {0}, NEW m \in Nat, NEW keys, NEW b,
         Leads(keys, n, b, 0 .. m - 1), m + Cardinality(Tombs(n, b)) < n
  PROVE  \E t \in 0 .. n - 1 : b[t] = EMPTY
<1> SUFFICES ASSUME \A t \in 0 .. n - 1 : b[t] # EMPTY PROVE FALSE
  OBVIOUS
<1> DEFINE live == {s \in 0 .. n - 1 : b[s] \in 0 .. m - 1}
           f == [s \in live |-> b[s]]
<1>1. b \in [0 .. n - 1 -> {EMPTY, TOMB} \cup (0 .. m - 1)]
      /\ \A t, u \in 0 .. n - 1 : b[t] = b[u] /\ b[t] \in 0 .. m - 1 => t = u
  BY DEF Leads
<1>2. 0 .. n - 1 = live \cup Tombs(n, b)
  BY <1>1 DEF Tombs
<1>3. f \in Injection(live, 0 .. m - 1)
  <2>1. f \in [live -> 0 .. m - 1]
    OBVIOUS
  <2>2. \A t, u \in live : f[t] = f[u] => t = u
    BY <1>1
  <2>. QED
    BY <2>1, <2>2 DEF Injection, IsInjective
<1>4. IsFiniteSet(0 .. m - 1) /\ Cardinality(0 .. m - 1) = m
      /\ IsFiniteSet(0 .. n - 1) /\ Cardinality(0 .. n - 1) = n
  <2>1. \A i \in Nat : IsFiniteSet(0 .. i - 1) /\ Cardinality(0 .. i - 1) = i
    <3> SUFFICES ASSUME NEW i \in Nat
                 PROVE  IsFiniteSet(0 .. i - 1) /\ Cardinality(0 .. i - 1) = i
      OBVIOUS
    <3>1. 0 \in Int /\ i - 1 \in Int /\ (i - 1) - 0 + 1 = i /\ (0 > i - 1 <=> i = 0)
      OBVIOUS
    <3>2. /\ IsFiniteSet(0 .. i - 1)
          /\ Cardinality(0 .. i - 1) = IF 0 > i - 1 THEN 0 ELSE (i - 1) - 0 + 1
      BY <3>1, FS_Interval
    <3>. QED
      BY <3>1, <3>2
  <2>. QED
    BY <2>1
<1>5. IsFiniteSet(live) /\ Cardinality(live) <= m
  <2>. HIDE DEF live, f
  <2>. QED
    BY <1>3, <1>4, FS_Injection
<1>6. IsFiniteSet(Tombs(n, b)) /\ Cardinality(Tombs(n, b)) \in Nat
  BY TombsType
<1>7. Cardinality(live) \in Nat
  BY <1>5, FS_CardinalityType
<1>. HIDE DEF live
<1>8. Cardinality(live \cap Tombs(n, b)) \in Nat
  BY <1>5, FS_Intersection, FS_CardinalityType
<1>9. n = Cardinality(live) + Cardinality(Tombs(n, b)) - Cardinality(live \cap Tombs(n, b))
  BY <1>2, <1>4, <1>5, <1>6, FS_Union
<1>. QED
  BY <1>5, <1>6, <1>7, <1>8, <1>9

(***************************************************************************)
(* Headers.                                                                *)
(***************************************************************************)
Headers == [keys : Seq(Key), len : Nat, cap : Nat, bcap : Nat, tombs : Nat,
            buckets : UNION {[0 .. n - 1 -> Int] : n \in Nat}, values : Seq(Value)]

\* The dense indices in use.
Dense(h) == 0 .. h.len - 1

\* The index leads to the entries, and has not come to its load limit.
Indexing(h) ==
    /\ Leads(h.keys, h.bcap, h.buckets, Dense(h))
    /\ h.tombs = Cardinality(Tombs(h.bcap, h.buckets))
    /\ h.bcap = 0 \/ h.len + h.tombs < h.bcap

Sound(h) ==
    /\ h \in Headers
    /\ h.len <= Len(h.keys) /\ h.len <= h.cap
    /\ Distinct(h.keys, Dense(h))
    /\ Indexing(h)

\* What a rebuild keeps.
SameEntries(g, h) ==
    g.keys = h.keys /\ g.len = h.len /\ g.values = h.values

\* The cells in use are of keys.
LEMMA DenseFacts ==
  ASSUME NEW h \in Headers, h.len <= Len(h.keys)
  PROVE  /\ Dense(h) \in SUBSET Nat /\ Holds(h.keys, Dense(h))
         /\ \A i \in 1 .. h.len : h.keys[i] \in Key /\ i - 1 \in Dense(h)
         /\ \A i \in Dense(h) : i + 1 \in 1 .. h.len
<1>1. h.keys \in Seq(Key) /\ h.len \in Nat
  BY DEF Headers
<1>. QED
  BY <1>1 DEF Dense, Holds

\* bucket_rehash.
LEMMA Rehashed ==
  ASSUME NEW h \in Headers, h.len <= Len(h.keys), Distinct(h.keys, Dense(h)),
         NEW n \in Nat \ {0}, h.len < n
  PROVE  LET r == BucketRehash(h, n)
         IN  /\ r \in Headers /\ SameEntries(r, h) /\ r.cap = h.cap
             /\ r.bcap = n /\ r.tombs = 0 /\ Indexing(r)
<1> DEFINE bare == [h EXCEPT !.bcap = n, !.tombs = 0,
                             !.buckets = [s \in 0 .. n - 1 |-> EMPTY]]
           m == h.len
           With(c) == [h EXCEPT !.bcap = n, !.tombs = 0, !.buckets = c]
           S == {With(c) : c \in [0 .. n - 1 -> Int]}
           Write(g, s, x) == [g EXCEPT !.buckets[s] = x]
           Step(g, i) == Write(g, CHOOSE t \in BucketInsertSlot(g, h.keys[i]) : TRUE, i - 1)
           step == [i \in 1 .. m |-> [g \in S |-> Step(g, i)]]
           R(f) == f = [i \in 0 .. m |->
                          IF i = 0 THEN bare
                          ELSE LET g == f[i - 1]
                                   s == CHOOSE t \in BucketInsertSlot(g, h.keys[i]) : TRUE
                               IN  [g EXCEPT !.buckets[s] = i - 1]]
<1>1. m \in Nat /\ h.keys \in Seq(Key)
  BY DEF Headers
<1>2. [s \in 0 .. n - 1 |-> EMPTY] \in [0 .. n - 1 -> Int]
      /\ \A c \in [0 .. n - 1 -> Int] : \A s, x :
            x \in Int => [c EXCEPT ![s] = x] \in [0 .. n - 1 -> Int]
  BY DEF EMPTY
<1>3. bare = With([s \in 0 .. n - 1 |-> EMPTY])
  OBVIOUS
<1>4. \A c \in [0 .. n - 1 -> Int] :
        /\ With(c) \in Headers /\ SameEntries(With(c), h) /\ With(c).cap = h.cap
        /\ With(c).bcap = n /\ With(c).tombs = 0 /\ With(c).buckets = c
        /\ With(c).keys = h.keys /\ With(c).len = m /\ With(c) \in S
  BY DEF Headers, SameEntries
<1>a. ASSUME NEW c \in [0 .. n - 1 -> Int], NEW s, NEW x
      PROVE  Write(With(c), s, x) = With([c EXCEPT ![s] = x])
  BY DEF Headers
<1>. HIDE DEF With, Write
<1>5. ASSUME NEW i \in 1 .. m, NEW g \in S, NEW s
      PROVE  Write(g, s, i - 1) \in S
  <2>1. PICK c \in [0 .. n - 1 -> Int] : g = With(c)
    OBVIOUS
  <2>2. Write(g, s, i - 1) = With([c EXCEPT ![s] = i - 1])
    BY <1>a, <2>1
  <2>3. i - 1 \in Int
    BY <1>1
  <2>4. [c EXCEPT ![s] = i - 1] \in [0 .. n - 1 -> Int]
    BY <1>2, <2>3
  <2>. QED
    BY <1>4, <2>2, <2>4
<1>0. bare \in S
  BY <1>2, <1>3, <1>4
<1>6. step \in [1 .. m -> [S -> S]]
  <2>. HIDE DEF S
  <2>. QED
    BY <1>5
<1>7. \E f : Iterates(f, m, S, bare, step)
  <2>. HIDE DEF S, step, bare
  <2>. QED
    BY <1>0, <1>1, <1>6, Iteration
<1>8. ASSUME NEW f, Iterates(f, m, S, bare, step) PROVE R(f)
  <2>. HIDE DEF S, bare
  <2>1. f \in [0 .. m -> S] /\ f[0] = bare /\ \A i \in 1 .. m : f[i] = step[i][f[i - 1]]
    BY <1>8 DEF Iterates
  <2>2. ASSUME NEW i \in 0 .. m, i # 0
        PROVE  f[i] = Step(f[i - 1], i)
    <3>1. i \in 1 .. m /\ i - 1 \in 0 .. m
      BY <1>1, <2>2
    <3>2. f[i - 1] \in S
      BY <2>1, <3>1
    <3>. QED
      BY <2>1, <3>1, <3>2
  <2>3. f = [i \in 0 .. m |-> IF i = 0 THEN bare ELSE Step(f[i - 1], i)]
    BY <2>1, <2>2
  <2>. QED
    BY <2>3 DEF Write
<1> DEFINE p == CHOOSE f : R(f)
<1>9. R(p)
  <2>. HIDE DEF S, bare, step, R
  <2>. QED
    BY <1>7, <1>8
<1>10. BucketRehash(h, n) = p[m]
  BY DEF BucketRehash

<1>11. p[0] = bare /\ \A i \in 1 .. m : p[i] = Step(p[i - 1], i)
  <2>. HIDE DEF p, bare
  <2>1. p = [i \in 0 .. m |-> IF i = 0 THEN bare ELSE Step(p[i - 1], i)]
    BY <1>9 DEF Write
  <2>2. 0 \in 0 .. m /\ \A i \in 1 .. m : i \in 0 .. m /\ i # 0
    BY <1>1
  <2>. QED
    BY <2>1, <2>2
<1>. HIDE DEF p, R, step
<1> DEFINE Good(g, i) == /\ g \in S /\ Leads(h.keys, n, g.buckets, 0 .. i - 1)
                         /\ Tombs(n, g.buckets) = {}
           T == {i \in 0 .. m : Good(p[i], i)}
<1>12. 0 \in T
  <2> DEFINE c == [s \in 0 .. n - 1 |-> EMPTY]
  <2>1. p[0] = With(c) /\ p[0].buckets = c
    BY <1>2, <1>3, <1>4, <1>11
  <2>2. 0 .. 0 - 1 = {} /\ \A s \in 0 .. n - 1 : c[s] = EMPTY
    OBVIOUS
  <2>3. Leads(h.keys, n, c, 0 .. 0 - 1)
    <3>1. c \in [0 .. n - 1 -> {EMPTY, TOMB} \cup (0 .. 0 - 1)]
      OBVIOUS
    <3>. QED
      BY <2>2, <3>1 DEF Leads
  <2>4. Tombs(n, c) = {}
    BY <2>2 DEF Tombs, EMPTY, TOMB
  <2>. QED
    <3>1. Good(p[0], 0)
      BY <1>0, <1>11, <2>1, <2>3, <2>4
    <3>. QED
      BY <1>1, <3>1
<1>13. ASSUME NEW i \in 1 .. m, i - 1 \in T PROVE i \in T
  <2> DEFINE g == p[i - 1]
             b == g.buckets
             s == CHOOSE t \in BucketInsertSlot(g, h.keys[i]) : TRUE
  <2>1. g \in S /\ Leads(h.keys, n, b, 0 .. (i - 1) - 1) /\ Tombs(n, b) = {}
        /\ i - 1 \in 0 .. m /\ i \in 0 .. m /\ i - 1 \in Nat
    BY <1>1, <1>13
  <2>2. p[i] = Write(g, s, i - 1)
    BY <1>11
  <2>. HIDE DEF g
  <2>3. /\ b \in [0 .. n - 1 -> Int] /\ g = With(b) /\ g.bcap = n
        /\ Write(g, s, i - 1) = With([b EXCEPT ![s] = i - 1])
    <3>1. PICK c \in [0 .. n - 1 -> Int] : g = With(c)
      BY <2>1
    <3>2. Write(g, s, i - 1) = With([c EXCEPT ![s] = i - 1])
      BY <1>a, <3>1
    <3>3. b = c /\ g.bcap = n
      BY <1>4, <3>1
    <3>. QED
      BY <3>1, <3>2, <3>3
  <2>4. \A j \in 1 .. m : h.keys[j] \in Key
    BY DenseFacts
  <2>5. Cardinality(Tombs(n, b)) = 0
    BY <2>1, FS_EmptySet
  <2>6. \E t \in 0 .. n - 1 : b[t] = EMPTY
    <3>1. PICK q \in Nat : q = i - 1
      BY <2>1
    <3>2. Leads(h.keys, n, b, 0 .. q - 1)
      BY <2>1, <3>1
    <3>3. q + Cardinality(Tombs(n, b)) < n
      BY <1>1, <2>5, <3>1
    <3>. QED
      BY <3>2, <3>3, EmptyBucket
  <2>7. PICK t \in 0 .. n - 1 : /\ BucketInsertSlot(g, h.keys[i]) = {t}
                                /\ b[t] \in {EMPTY, TOMB}
                                /\ Reaches(b, n, h.keys[i], t)
    BY <2>3, <2>4, <2>6, SlotFacts
  <2>8. s = t
    BY <2>7
  <2>. HIDE DEF s
  <2> DEFINE c == [b EXCEPT ![t] = i - 1]
  <2>9. Leads(h.keys, n, c, (0 .. (i - 1) - 1) \cup {i - 1})
    <3>1. 0 .. (i - 1) - 1 \in SUBSET Nat /\ i - 1 \notin 0 .. (i - 1) - 1
          /\ (i - 1) + 1 = i /\ \A j \in 0 .. (i - 1) - 1 : j + 1 \in 1 .. m
      BY <1>1
    <3>. QED
      BY <2>1, <2>4, <2>7, <3>1, Filled
  <2>10. (0 .. (i - 1) - 1) \cup {i - 1} = 0 .. i - 1
    BY <1>1
  <2>11. c \in [0 .. n - 1 -> Int] /\ \A u \in 0 .. n - 1 : u # t => c[u] = b[u]
    BY <2>3
  <2>12. c[t] = i - 1 /\ i - 1 # TOMB
    BY <2>3 DEF TOMB
  <2>13. Tombs(n, c) = {}
    <3>. HIDE DEF c
    <3>. QED
      BY <2>1, <2>11, <2>12 DEF Tombs
  <2>14. p[i] = With(c)
    BY <2>2, <2>3, <2>8
  <2>. HIDE DEF c
  <2>15. p[i] \in S /\ p[i].buckets = c
    BY <1>4, <2>11, <2>14
  <2>. QED
    BY <2>1, <2>9, <2>10, <2>13, <2>15
<1>14. m \in T
  <2>. HIDE DEF T
  <2>1. T \in SUBSET Nat
    <3>1. T \subseteq 0 .. m
      BY Zenon DEF T
    <3>. QED
      BY <1>1, <3>1
  <2>2. \A i \in 0 .. m : i \in T
    BY <1>1, <1>12, <1>13, <2>1, Along
  <2>. QED
    BY <1>1, <2>2
<1>15. PICK c \in [0 .. n - 1 -> Int] : p[m] = With(c)
  BY <1>14
<1>16. Leads(h.keys, n, c, 0 .. m - 1) /\ Tombs(n, c) = {}
  BY <1>4, <1>14, <1>15
<1>17. With(c).len = m
  BY <1>4, <1>1 DEF SameEntries
<1>18. Indexing(With(c))
  <2> DEFINE r == With(c)
  <2>1. r.keys = h.keys /\ r.bcap = n /\ r.buckets = c /\ r.tombs = 0 /\ r.len = m
    BY <1>4, <1>17
  <2>2. Cardinality(Tombs(n, c)) = 0
    BY <1>16, FS_EmptySet
  <2>. HIDE DEF r
  <2>3. Leads(r.keys, r.bcap, r.buckets, Dense(r))
    BY <1>16, <2>1 DEF Dense
  <2>4. r.tombs = Cardinality(Tombs(r.bcap, r.buckets)) /\ r.len + r.tombs < r.bcap
    BY <1>1, <2>1, <2>2
  <2>. QED
    BY <2>3, <2>4 DEF Indexing, r
<1>. QED
  BY <1>4, <1>10, <1>15, <1>18

\* put's and add's growth: the array has a free cell, and the index stays under
\* its limit with one entry more.
LEMMA GrownIndex ==
  ASSUME NEW h \in Headers, h.len <= Len(h.keys), Distinct(h.keys, Dense(h)),
         Indexing(h)
  PROVE  LET g == BucketMaybeGrow(h)
         IN  /\ g \in Headers /\ SameEntries(g, h) /\ g.cap = h.cap
             /\ Indexing(g) /\ g.bcap # 0 /\ g.len + 1 + g.tombs < g.bcap
<1> DEFINE Good(g) == /\ g \in Headers /\ SameEntries(g, h) /\ g.cap = h.cap
                      /\ Indexing(g) /\ g.bcap # 0 /\ g.len + 1 + g.tombs < g.bcap
<1>1. h.len \in Nat /\ h.tombs \in Nat /\ h.bcap \in Nat /\ First \in Nat /\ First > 1
  BY FirstAssumption DEF Headers
<1>2. ASSUME NEW n \in Nat \ {0}, h.len + 1 < n PROVE Good(BucketRehash(h, n))
  <2>1. h.len < n
    BY <1>1, <1>2
  <2> DEFINE r == BucketRehash(h, n)
  <2>2. /\ r \in Headers /\ SameEntries(r, h) /\ r.cap = h.cap
        /\ r.bcap = n /\ r.tombs = 0 /\ Indexing(r)
    BY <2>1, Rehashed
  <2>. HIDE DEF r
  <2>3. r.len = h.len
    BY <2>2 DEF SameEntries
  <2>4. r.len + 1 + r.tombs < r.bcap
    BY <1>1, <1>2, <2>2, <2>3
  <2>. QED
    BY <2>2, <2>4 DEF r
<1>3. CASE h.bcap = 0
  <2>1. h.len = 0
    <3>1. ASSUME h.len # 0 PROVE FALSE
      <4>1. 0 \in Dense(h)
        BY <1>1, <3>1 DEF Dense
      <4>2. \E s \in 0 .. h.bcap - 1 : TRUE
        BY <4>1 DEF Indexing, Leads
      <4>. QED
        BY <1>3, <4>2
    <3>. QED
      BY <3>1
  <2>2. Good(BucketRehash(h, First))
    BY <1>1, <1>2, <2>1
  <2>. QED
    BY <1>3, <2>2 DEF BucketMaybeGrow
<1>4. CASE h.bcap # 0
  <2>1. h.len + h.tombs < h.bcap
    BY <1>4 DEF Indexing
  <2>2. CASE (h.len + h.tombs + 1) * 10 < h.bcap * 7
    <3>1. h.len + 1 + h.tombs < h.bcap
      BY <1>1, <2>2
    <3>2. Good(h)
      BY <1>4, <3>1 DEF SameEntries
    <3>. QED
      BY <1>4, <2>2, <3>2 DEF BucketMaybeGrow
  <2>3. CASE ~((h.len + h.tombs + 1) * 10 < h.bcap * 7) /\ (h.len + 1) * 20 >= h.bcap * 7
    <3>1. h.bcap * 2 \in Nat \ {0} /\ h.len + 1 < h.bcap * 2
      BY <1>1, <1>4, <2>1
    <3>2. Good(BucketRehash(h, h.bcap * 2))
      BY <1>2, <3>1
    <3>. QED
      BY <1>4, <2>3, <3>2 DEF BucketMaybeGrow
  <2>4. CASE ~((h.len + h.tombs + 1) * 10 < h.bcap * 7) /\ ~((h.len + 1) * 20 >= h.bcap * 7)
    <3>1. h.bcap \in Nat \ {0} /\ h.len + 1 < h.bcap
      BY <1>1, <1>4, <2>4
    <3>2. Good(BucketRehash(h, h.bcap))
      BY <1>2, <3>1
    <3>. QED
      BY <1>4, <2>4, <3>2 DEF BucketMaybeGrow
  <2>. QED
    BY <2>2, <2>3, <2>4
<1>. QED
  BY <1>3, <1>4

LEMMA Roomier ==
  ASSUME NEW h, Sound(h)
  PROVE  LET g == WithRoom(h)
         IN  /\ g \in Headers /\ SameEntries(g, h) /\ g.len < g.cap
             /\ Indexing(g) /\ g.bcap # 0 /\ g.len + 1 + g.tombs < g.bcap
<1> DEFINE f == IF h.len < h.cap THEN h
                ELSE [h EXCEPT !.cap = IF @ = 0 THEN First ELSE @ * 2]
           g == BucketMaybeGrow(f)
<1>1. h \in Headers /\ h.len \in Nat /\ h.cap \in Nat /\ h.len <= h.cap
      /\ First \in Nat /\ First > 1
  BY FirstAssumption DEF Sound, Headers
<1>2. /\ f \in Headers /\ SameEntries(f, h) /\ f.len < f.cap
      /\ f.bcap = h.bcap /\ f.tombs = h.tombs /\ f.buckets = h.buckets
  <2>1. CASE h.len < h.cap
    BY <1>1, <2>1 DEF SameEntries
  <2>2. CASE ~(h.len < h.cap)
    <3> DEFINE c == IF h.cap = 0 THEN First ELSE h.cap * 2
    <3>1. c \in Nat /\ h.len < c
      BY <1>1, <2>2
    <3>2. f = [h EXCEPT !.cap = c]
      BY <2>2
    <3>. HIDE DEF c
    <3>. QED
      BY <1>1, <3>1, <3>2 DEF Headers, SameEntries
  <2>. QED
    BY <2>1, <2>2
<1>. HIDE DEF f
<1>3. f.len <= Len(f.keys) /\ Distinct(f.keys, Dense(f)) /\ Indexing(f)
  BY <1>2 DEF Sound, SameEntries, Dense, Indexing
<1>4. /\ g \in Headers /\ SameEntries(g, f) /\ g.cap = f.cap
      /\ Indexing(g) /\ g.bcap # 0 /\ g.len + 1 + g.tombs < g.bcap
  BY <1>2, <1>3, GrownIndex
<1>5. WithRoom(h) = g
  BY DEF WithRoom, f
<1>. HIDE DEF g
<1>. QED
  BY <1>2, <1>4, <1>5 DEF SameEntries

\* A write of the next cell, or of one already written.
LEMMA StoredFacts ==
  ASSUME NEW S, NEW cells \in Seq(S), NEW i \in Nat, i <= Len(cells), NEW x \in S
  PROVE  /\ Stored(cells, i, x) \in Seq(S)
         /\ Len(Stored(cells, i, x)) = IF i = Len(cells) THEN i + 1 ELSE Len(cells)
         /\ Stored(cells, i, x)[i + 1] = x
         /\ \A j \in 1 .. i : Stored(cells, i, x)[j] = cells[j]
<1>1. CASE i = Len(cells)
  BY <1>1 DEF Stored
<1>2. CASE i # Len(cells)
  BY <1>2 DEF Stored
<1>. QED
  BY <1>1, <1>2

\* put and add of a key that is not there.
LEMMA EnteredFacts ==
  ASSUME NEW h, Sound(h), NEW k \in Key, \A i \in 1 .. h.len : h.keys[i] # k
  PROVE  LET e == Entered(h, k)
         IN  /\ Sound(e) /\ e.len = h.len + 1
             /\ e.keys = Stored(h.keys, h.len, k) /\ e.values = h.values
<1> DEFINE g == WithRoom(h)
           n == g.bcap
           b == g.buckets
           m == h.len
           x == Cardinality(Tombs(n, b))
           keys == Stored(h.keys, m, k)
<1>0. h.keys \in Seq(Key) /\ m \in Nat /\ m <= Len(h.keys) /\ Len(h.keys) \in Nat
  BY DEF Sound, Headers
<1>. HIDE DEF m
<1>1. /\ g \in Headers /\ g.keys = h.keys /\ g.len = m /\ g.values = h.values
      /\ m < g.cap /\ Leads(h.keys, n, b, 0 .. m - 1) /\ g.tombs = x
      /\ n # 0 /\ m + 1 + x < n
  BY Roomier DEF SameEntries, Indexing, Dense, m
<1>2. /\ h.keys \in Seq(Key) /\ m \in Nat /\ m <= Len(h.keys)
      /\ Distinct(h.keys, 0 .. m - 1)
      /\ \A i \in 0 .. m - 1 : i + 1 \in 1 .. m /\ h.keys[i + 1] \in Key
  BY <1>0, DenseFacts DEF Sound, Headers, Dense, Holds, m
<1>3. n \in Nat \ {0} /\ b \in [0 .. n - 1 -> Int] /\ g.cap \in Nat /\ x \in Nat
  <2>1. n \in Nat /\ g.cap \in Nat
    BY <1>1 DEF Headers
  <2>2. b \in [0 .. n - 1 -> {EMPTY, TOMB} \cup (0 .. m - 1)]
    BY <1>1 DEF Leads
  <2>3. {EMPTY, TOMB} \cup (0 .. m - 1) \subseteq Int
    BY DEF EMPTY, TOMB
  <2>4. x \in Nat
    BY <2>1, TombsType
  <2>. QED
    BY <1>1, <2>1, <2>2, <2>3, <2>4
<1>4. /\ keys \in Seq(Key) /\ m + 1 <= Len(keys) /\ keys[m + 1] = k
      /\ \A i \in 1 .. m : keys[i] = h.keys[i]
  <2>1. Len(h.keys) \in Nat /\ Len(keys) = IF m = Len(h.keys) THEN m + 1 ELSE Len(h.keys)
    BY <1>0, StoredFacts
  <2>2. m + 1 <= Len(keys)
    <3>. HIDE DEF keys
    <3>. QED
      BY <1>0, <2>1
  <2>3. keys \in Seq(Key) /\ keys[m + 1] = k
    BY <1>0, StoredFacts
  <2>4. \A i \in 1 .. m : keys[i] = h.keys[i]
    <3>1. CASE m = Len(h.keys)
      BY <1>0, <3>1 DEF Stored
    <3>2. CASE m # Len(h.keys)
      BY <1>0, <3>2 DEF Stored
    <3>. QED
      BY <3>1, <3>2
  <2>. QED
    BY <2>2, <2>3, <2>4
<1>. HIDE DEF g, keys
<1>5. \E t \in 0 .. n - 1 : b[t] = EMPTY
  <2>. HIDE DEF n, b, x
  <2>1. m + x < n
    BY <1>1, <1>2, <1>3
  <2>2. m + Cardinality(Tombs(n, b)) < n
    BY <2>1 DEF x
  <2>. QED
    BY <1>1, <1>2, <1>3, <2>2, EmptyBucket
<1>6. PICK s \in 0 .. n - 1 : /\ BucketInsertSlot(g, k) = {s}
                              /\ b[s] \in {EMPTY, TOMB}
                              /\ Reaches(b, n, k, s)
  BY <1>3, <1>5, SlotFacts
<1> DEFINE c == [b EXCEPT ![s] = m]
           z == IF b[s] = TOMB THEN x - 1 ELSE x
           e == [g EXCEPT !.tombs = z, !.buckets = c, !.keys = keys, !.len = m + 1]
<1>7. Entered(h, k) = e
  <2>1. (CHOOSE t \in BucketInsertSlot(g, k) : TRUE) = s
    BY <1>6
  <2>. QED
    BY <1>1, <2>1 DEF Entered, g, keys
<1>8. Leads(keys, n, c, 0 .. m)
  <2>1. 0 .. m - 1 \in SUBSET Nat /\ m \in Nat \ (0 .. m - 1) /\ (0 .. m - 1) \cup {m} = 0 .. m
    BY <1>2
  <2>2. \A i \in 0 .. m - 1 : keys[i + 1] = h.keys[i + 1] /\ h.keys[i + 1] \in Key
    BY <1>2, <1>4
  <2>3. Leads(keys, n, c, (0 .. m - 1) \cup {m})
    BY <1>1, <1>3, <1>4, <1>6, <2>1, <2>2, Filled
  <2>. QED
    BY <2>1, <2>3
<1>9. c \in [0 .. n - 1 -> Int] /\ m # TOMB
  BY <1>2, <1>3 DEF TOMB
<1>10. z = Cardinality(Tombs(n, c)) /\ z \in Nat /\ z <= x
  <2>1. Cardinality(Tombs(n, c)) = z
    <3>1. /\ n \in Nat /\ c[s] # TOMB /\ x = Cardinality(Tombs(n, b))
          /\ \A t \in 0 .. n - 1 : t # s => c[t] = b[t]
      BY <1>3, <1>9
    <3>. HIDE DEF n, b, c, x
    <3>2. CASE b[s] = TOMB
      BY <3>1, <3>2, TombsChange
    <3>3. CASE b[s] # TOMB
      BY <3>1, <3>3, TombsChange
    <3>. QED
      BY <3>2, <3>3
  <2>2. Cardinality(Tombs(n, c)) \in Nat
    BY <1>3, TombsType
  <2>. QED
    BY <1>3, <2>1, <2>2
<1>. HIDE DEF c, z, n, b, x
<1>b. c \in UNION {[0 .. i - 1 -> Int] : i \in Nat} /\ m + 1 \in Nat
  <2>1. n \in Nat /\ m + 1 \in Nat
    BY <1>0, <1>3
  <2>2. c \in [0 .. n - 1 -> Int]
    BY <1>9
  <2>. HIDE DEF n
  <2>. QED
    BY <2>1, <2>2
<1>11. /\ e \in Headers /\ e.len = m + 1 /\ e.keys = keys /\ e.values = h.values
       /\ e.cap = g.cap /\ e.bcap = n /\ e.tombs = z /\ e.buckets = c
  BY <1>1, <1>4, <1>10, <1>b DEF Headers, n
<1>. HIDE DEF e
<1>12. Dense(e) = 0 .. m
  BY <1>2, <1>11 DEF Dense
<1>13. Distinct(keys, 0 .. m)
  <2> SUFFICES ASSUME NEW i \in 0 .. m, NEW j \in 0 .. m, keys[i + 1] = keys[j + 1]
               PROVE  i = j
    BY DEF Distinct
  <2>1. CASE i = m /\ j = m
    BY <2>1
  <2>2. CASE i # m /\ j # m
    <3>1. i \in 0 .. m - 1 /\ j \in 0 .. m - 1
      BY <1>2, <2>2
    <3>2. keys[i + 1] = h.keys[i + 1] /\ keys[j + 1] = h.keys[j + 1]
      BY <1>2, <1>4, <3>1
    <3>. QED
      BY <1>2, <3>1, <3>2 DEF Distinct
  <2>3. CASE i = m /\ j # m
    <3>1. j + 1 \in 1 .. m
      BY <1>2, <2>3
    <3>. QED
      BY <1>4, <2>3, <3>1 DEF m
  <2>4. CASE i # m /\ j = m
    <3>1. i + 1 \in 1 .. m
      BY <1>2, <2>4
    <3>. QED
      BY <1>4, <2>4, <3>1 DEF m
  <2>. QED
    BY <2>1, <2>2, <2>3, <2>4
<1>14. Indexing(e)
  <2>1. m + 1 + z < n
    BY <1>1, <1>2, <1>3, <1>10
  <2>. QED
    BY <1>8, <1>10, <1>11, <1>12, <2>1 DEF Indexing
<1>15. Sound(e)
  <2>1. e.len <= Len(e.keys) /\ e.len <= e.cap
    BY <1>1, <1>2, <1>3, <1>4, <1>11
  <2>. QED
    BY <1>11, <1>12, <1>13, <1>14, <2>1 DEF Sound
<1>. QED
  BY <1>7, <1>11, <1>15 DEF keys, m

\* A bucket is pointed at another place of its key.
LEMMA Retargeted ==
  ASSUME NEW n \in Nat \ {0}, NEW D \in SUBSET Nat, NEW keys, NEW b,
         Leads(keys, n, b, D), Holds(keys, D), NEW s \in 0 .. n - 1, b[s] \in D,
         NEW x \in Nat \ D, NEW cells, cells[x + 1] = keys[b[s] + 1],
         \A i \in D \ {b[s]} : cells[i + 1] = keys[i + 1]
  PROVE  Leads(cells, n, [b EXCEPT ![s] = x], (D \ {b[s]}) \cup {x})
<1> DEFINE y == b[s]
           c == [b EXCEPT ![s] = TOMB]
           E == D \ {y}
<1>1. b \in [0 .. n - 1 -> {EMPTY, TOMB} \cup D]
      /\ \A t, u \in 0 .. n - 1 : b[t] = b[u] /\ b[t] \in D => t = u
  BY DEF Leads
<1>2. Leads(keys, n, c, E)
  BY Dropped
<1>3. c[s] = TOMB /\ [c EXCEPT ![s] = x] = [b EXCEPT ![s] = x]
      /\ \A t \in 0 .. n - 1 : t # s => c[t] = b[t]
  BY <1>1
<1>4. Reaches(b, n, keys[y + 1], s) /\ keys[y + 1] \in Key
  <2>1. PICK t \in 0 .. n - 1 : b[t] = y /\ Reaches(b, n, keys[y + 1], t)
    BY DEF Leads
  <2>. QED
    BY <1>1, <2>1 DEF Holds
<1>5. Reaches(c, n, cells[x + 1], s)
  <2>1. \A t \in 0 .. n - 1 : c[t] = EMPTY => b[t] = EMPTY
    BY <1>3 DEF EMPTY, TOMB
  <2>2. Reaches(c, n, keys[y + 1], s)
    <3>. HIDE DEF y, c
    <3>. QED
      BY <1>4, <2>1, ReachesStill
  <2>. QED
    BY <2>2
<1>6. \A i \in E : cells[i + 1] = keys[i + 1] /\ keys[i + 1] \in Key
  BY DEF Holds
<1>7. E \in SUBSET Nat /\ x \in Nat \ E /\ cells[x + 1] \in Key
  BY <1>4
<1>8. c[s] \in {EMPTY, TOMB}
  BY <1>3
<1>. HIDE DEF c, E
<1>9. Leads(cells, n, [c EXCEPT ![s] = x], E \cup {x})
  BY <1>2, <1>5, <1>6, <1>7, <1>8, Filled
<1>. QED
  BY <1>3, <1>9 DEF E

\* The entry at q moves to the free place j: its bucket, found by key, is
\* pointed there.
MovesTo(g, cells, D, q, j, u) ==
    /\ u \in 0 .. g.bcap - 1
    /\ BucketFind(g, g.keys[q + 1]) = {u}
    /\ Leads(cells, g.bcap, [g.buckets EXCEPT ![u] = j], (D \ {q}) \cup {j})
    /\ Tombs(g.bcap, [g.buckets EXCEPT ![u] = j]) = Tombs(g.bcap, g.buckets)

LEMMA Moved ==
  ASSUME Odd = {}, NEW g, g.bcap \in Nat \ {0}, NEW D \in SUBSET Nat,
         Leads(g.keys, g.bcap, g.buckets, D), Distinct(g.keys, D), Holds(g.keys, D),
         NEW q \in D, NEW j \in Nat \ D, NEW cells, cells[j + 1] = g.keys[q + 1],
         \A i \in D \ {q} : cells[i + 1] = g.keys[i + 1]
  PROVE  \E u : MovesTo(g, cells, D, q, j, u)
<1> DEFINE n == g.bcap
<1>0. n \in Nat /\ q \in Nat
  OBVIOUS
<1>1. PICK u \in 0 .. n - 1 : BucketFind(g, g.keys[q + 1]) = {u} /\ g.buckets[u] = q
  <2>1. PICK u : FoundAt(g, g.keys[q + 1], u, q)
    BY <1>0, FoundFacts
  <2>. QED
    BY <2>1 DEF FoundAt
<1>2. Leads(cells, n, [g.buckets EXCEPT ![u] = j], (D \ {q}) \cup {j})
  <2> DEFINE b == g.buckets
  <2>1. b[u] \in D /\ cells[j + 1] = g.keys[b[u] + 1]
        /\ \A i \in D \ {b[u]} : cells[i + 1] = g.keys[i + 1]
    BY <1>1
  <2>2. Leads(g.keys, n, b, D)
    OBVIOUS
  <2>3. b[u] = q
    BY <1>1
  <2>. HIDE DEF b
  <2>4. Leads(cells, n, [b EXCEPT ![u] = j], (D \ {b[u]}) \cup {j})
    BY <2>1, <2>2, Retargeted
  <2>. QED
    BY <2>3, <2>4 DEF b
<1>3. Tombs(n, [g.buckets EXCEPT ![u] = j]) = Tombs(n, g.buckets)
  <2>1. /\ g.buckets \in [0 .. n - 1 -> {EMPTY, TOMB} \cup D]
        /\ g.buckets[u] # TOMB /\ j # TOMB
    BY <1>0, <1>1 DEF TOMB, Leads
  <2>. QED
    BY <2>1 DEF Tombs
<1>. QED
  BY <1>1, <1>2, <1>3 DEF MovesTo

\* remove and discard of the key at j, whose bucket is s.
LEMMA ForgottenFacts ==
  ASSUME Odd = {}, NEW h, Sound(h), NEW j \in Dense(h),
         NEW s \in 0 .. h.bcap - 1, h.buckets[s] = j
  PROVE  LET f == Forgotten(h, s)
         IN  /\ Sound(f) /\ f.len = h.len - 1
             /\ f.keys = [h.keys EXCEPT ![j + 1] = h.keys[h.len]]
             /\ f.values = h.values
<1> DEFINE n == h.bcap
           m == h.len
           b == h.buckets
           c == [b EXCEPT ![s] = TOMB]
           g == [h EXCEPT !.buckets[s] = TOMB, !.tombs = @ + 1, !.len = m - 1]
           D == (0 .. m - 1) \ {j}
           keys == [h.keys EXCEPT ![j + 1] = h.keys[m]]
           moved == IF j = m - 1 THEN {} ELSE BucketFind(g, h.keys[(m - 1) + 1])
           d == [t \in DOMAIN c |-> IF t \in moved THEN j ELSE c[t]]
           f == [g EXCEPT !.buckets = d, !.keys = keys]
<1>1. /\ h \in Headers /\ h.keys \in Seq(Key) /\ m \in Nat /\ h.cap \in Nat /\ h.tombs \in Nat
      /\ m <= Len(h.keys) /\ m <= h.cap /\ n \in Nat \ {0} /\ Len(h.keys) \in Nat
      /\ j \in 0 .. m - 1 /\ m # 0
  <2>1. h \in Headers /\ m <= Len(h.keys) /\ m <= h.cap /\ j \in 0 .. m - 1
    BY DEF Sound, Dense
  <2>2. h.keys \in Seq(Key) /\ m \in Nat /\ n \in Nat /\ h.cap \in Nat /\ h.tombs \in Nat
    BY <2>1 DEF Headers
  <2>3. n # 0
    BY <2>2
  <2>. QED
    BY <2>1, <2>2, <2>3
<1>2. /\ Leads(h.keys, n, b, 0 .. m - 1) /\ h.tombs = Cardinality(Tombs(n, b))
      /\ Distinct(h.keys, 0 .. m - 1) /\ m + h.tombs < n
  BY <1>1 DEF Sound, Indexing, Dense
<1>3. /\ 0 .. m - 1 \in SUBSET Nat /\ Holds(h.keys, 0 .. m - 1)
      /\ \A i \in 1 .. m : h.keys[i] \in Key
  BY <1>1, DenseFacts DEF Dense
<1>4. b \in [0 .. n - 1 -> {EMPTY, TOMB} \cup (0 .. m - 1)]
  BY <1>2 DEF Leads
<1>5. b \in [0 .. n - 1 -> Int]
  <2>1. {EMPTY, TOMB} \cup (0 .. m - 1) \subseteq Int
    BY DEF EMPTY, TOMB
  <2>. QED
    BY <1>4, <2>1
<1>6. c \in [0 .. n - 1 -> Int] /\ DOMAIN c = 0 .. n - 1
  BY <1>5 DEF TOMB
<1>7. Leads(h.keys, n, c, D)
  BY <1>1, <1>2, <1>3, Dropped
<1>8. Cardinality(Tombs(n, c)) = h.tombs + 1
  <2>1. /\ b[s] # TOMB /\ c[s] = TOMB /\ n \in Nat
        /\ \A t \in 0 .. n - 1 : t # s => c[t] = b[t]
    BY <1>1, <1>5 DEF TOMB
  <2>. HIDE DEF n, b, c
  <2>2. s \in 0 .. n - 1
    BY DEF n
  <2>3. Cardinality(Tombs(n, c)) = Cardinality(Tombs(n, b)) + 1
    BY <2>1, <2>2, TombsChange
  <2>4. h.tombs = Cardinality(Tombs(n, b))
    BY <1>2
  <2>. QED
    BY <2>3, <2>4
<1>9. /\ g.bcap = n /\ g.keys = h.keys /\ g.buckets = c
  BY <1>1 DEF Headers
<1>10. keys \in Seq(Key) /\ Len(keys) = Len(h.keys)
       /\ keys[j + 1] = h.keys[m] /\ \A i \in 1 .. m : i # j + 1 => keys[i] = h.keys[i]
  <2>1. h.keys[m] \in Key /\ j + 1 \in 1 .. Len(h.keys)
    BY <1>1, <1>3
  <2>. QED
    BY <1>1, <2>1
<1>11. Forgotten(h, s) = f
  <2>1. Forgotten(h, s)
        = [g EXCEPT !.buckets = [t \in DOMAIN g.buckets |->
                                    IF t \in moved THEN j ELSE g.buckets[t]],
                    !.keys = [g.keys EXCEPT ![j + 1] = h.keys[(m - 1) + 1]]]
    BY Zenon DEF Forgotten
  <2>2. (m - 1) + 1 = m
    BY <1>1
  <2>. HIDE DEF g, c, moved
  <2>. QED
    BY <1>9, <2>1, <2>2
<1>12. (m - 1) + 1 = m /\ m - 1 \in 0 .. m - 1 /\ m - 1 \in Nat
  BY <1>1
<1>. HIDE DEF n, m, b, c, keys, moved
<1>13. DOMAIN d = 0 .. n - 1 /\ \A t \in 0 .. n - 1 : d[t] = IF t \in moved THEN j ELSE c[t]
  BY <1>6
<1>14. /\ Leads(keys, n, d, 0 .. (m - 1) - 1) /\ d \in [0 .. n - 1 -> Int]
       /\ Cardinality(Tombs(n, d)) = h.tombs + 1
  <2>1. CASE j = m - 1
    <3>1. moved = {}
      BY <2>1 DEF moved
    <3>2. d = c
      BY <1>6, <3>1
    <3>. HIDE DEF d
    <3>3. D = 0 .. (m - 1) - 1 /\ \A i \in D : i + 1 \in 1 .. m /\ i + 1 # j + 1
      BY <1>1, <2>1
    <3>4. \A i \in D : keys[i + 1] = h.keys[i + 1]
      BY <1>10, <3>3
    <3>5. Leads(keys, n, c, D)
      <4>. HIDE DEF D
      <4>. QED
        BY <1>7, <3>4 DEF Leads
    <3>. QED
      BY <1>6, <1>8, <3>2, <3>3, <3>5
  <2>2. CASE j # m - 1
    <3>1. D \in SUBSET Nat /\ m - 1 \in D /\ j \in Nat \ D
          /\ (D \ {m - 1}) \cup {j} = 0 .. (m - 1) - 1
      BY <1>1, <1>12, <2>2
    <3>2. Distinct(h.keys, D) /\ Holds(h.keys, D)
      BY <1>2, <1>3 DEF Distinct, Holds
    <3>. HIDE DEF g, D
    <3>3. PICK q \in D : q = m - 1
      BY <3>1
    <3>4. \A i \in D \ {q} : keys[i + 1] = g.keys[i + 1]
      <4>1. \A i \in D : i + 1 \in 1 .. m /\ i + 1 # j + 1
        BY <1>1 DEF D
      <4>. QED
        BY <1>9, <1>10, <4>1
    <3>5. keys[j + 1] = g.keys[q + 1] /\ j \in Nat \ D /\ g.bcap \in Nat \ {0}
      BY <1>1, <1>9, <1>10, <1>12, <3>1, <3>3
    <3>6. /\ D \in SUBSET Nat /\ Leads(g.keys, g.bcap, g.buckets, D)
          /\ Distinct(g.keys, D) /\ Holds(g.keys, D)
      BY <1>6, <1>7, <1>9, <3>1, <3>2
    <3>. HIDE DEF d
    <3>7. PICK u : MovesTo(g, keys, D, q, j, u)
      BY <3>4, <3>5, <3>6, Moved
    <3>8. moved = {u}
      BY <1>9, <2>2, <3>3, <3>7 DEF moved, MovesTo
    <3>9. d = [c EXCEPT ![u] = j]
      BY <1>6, <3>8 DEF d
    <3>10. d \in [0 .. n - 1 -> Int]
      <4>1. j \in Int
        BY <3>5
      <4>. QED
        BY <1>6, <3>9, <4>1
    <3>11. Leads(keys, n, d, 0 .. (m - 1) - 1)
      BY <1>9, <3>1, <3>3, <3>7, <3>9 DEF MovesTo
    <3>12. Cardinality(Tombs(n, d)) = h.tombs + 1
      BY <1>8, <1>9, <3>7, <3>9 DEF MovesTo
    <3>. QED
      BY <3>10, <3>11, <3>12
  <2>. QED
    BY <2>1, <2>2
<1>. HIDE DEF d, D
<1>15. /\ f \in Headers /\ f.len = m - 1 /\ f.keys = keys /\ f.values = h.values
       /\ f.cap = h.cap /\ f.bcap = n /\ f.tombs = h.tombs + 1 /\ f.buckets = d
  <2>1. m - 1 \in Nat /\ h.tombs + 1 \in Nat /\ n \in Nat
    BY <1>1, <1>12
  <2>2. d \in UNION {[0 .. i - 1 -> Int] : i \in Nat}
    BY <1>14, <2>1
  <2>3. h.bcap = n
    BY DEF n
  <2>. QED
    BY <1>1, <1>10, <2>1, <2>2, <2>3 DEF Headers, g
<1>. HIDE DEF f
<1>16. Dense(f) = 0 .. (m - 1) - 1
  BY <1>15 DEF Dense
<1>17. Distinct(keys, 0 .. (m - 1) - 1)
  <2> SUFFICES ASSUME NEW i \in 0 .. (m - 1) - 1, NEW k \in 0 .. (m - 1) - 1,
                      keys[i + 1] = keys[k + 1]
               PROVE  i = k
    BY DEF Distinct
  <2> DEFINE Was(x) == IF x = j THEN m - 1 ELSE x
  <2>1. ASSUME NEW x \in 0 .. (m - 1) - 1
        PROVE  Was(x) \in 0 .. m - 1 /\ keys[x + 1] = h.keys[Was(x) + 1]
    <3>1. x + 1 \in 1 .. m /\ x \in 0 .. m - 1 /\ (x + 1 = j + 1 => x = j)
      BY <1>1
    <3>2. CASE x = j
      BY <1>10, <1>12, <3>2
    <3>3. CASE x # j
      BY <1>10, <3>1, <3>3
    <3>. QED
      BY <3>2, <3>3
  <2>2. Was(i) = Was(k)
    <3>. HIDE DEF Was
    <3>. QED
      BY <1>2, <2>1 DEF Distinct
  <2>. QED
    BY <1>1, <2>2
<1>18. Indexing(f)
  <2>1. (m - 1) + (h.tombs + 1) < n
    BY <1>1, <1>2
  <2>. QED
    BY <1>14, <1>15, <1>16, <2>1 DEF Indexing
<1>19. Sound(f)
  <2>1. m - 1 <= Len(keys) /\ m - 1 <= h.cap
    BY <1>1, <1>10
  <2>. QED
    BY <1>15, <1>16, <1>17, <1>18, <2>1 DEF Sound
<1>. QED
  BY <1>11, <1>15, <1>19 DEF keys, m

(***************************************************************************)
(* The operations of Map and Set.                                          *)
(***************************************************************************)
Absent(h, k) == BucketFind(h, k) = {} /\ \A i \in 1 .. h.len : h.keys[i] # k

\* k is the key of dense index j, which bucket s holds.
Present(h, k, s, j) ==
    j \in Dense(h) /\ h.keys[j + 1] = k /\ FoundAt(h, k, s, j)

\* The search finds a key exactly when it is there.
LEMMA LookedUp ==
  ASSUME Odd = {}, NEW h, Sound(h), NEW k \in Key
  PROVE  Absent(h, k) \/ \E s, j : Present(h, k, s, j)
<1> DEFINE D == Dense(h)
<1>1. /\ h \in Headers /\ h.len <= Len(h.keys) /\ Distinct(h.keys, D)
      /\ Leads(h.keys, h.bcap, h.buckets, D)
  BY DEF Sound, Indexing
<1>2. D \in SUBSET Nat /\ Holds(h.keys, D) /\ h.bcap \in Nat /\ h.len \in Nat
      /\ \A i \in 1 .. h.len : i - 1 \in D /\ (i - 1) + 1 = i
  <2>1. D \in SUBSET Nat /\ Holds(h.keys, D)
    BY <1>1, DenseFacts
  <2>2. h.bcap \in Nat /\ h.len \in Nat
    BY <1>1 DEF Headers
  <2>3. \A i \in 1 .. h.len : i - 1 \in D /\ (i - 1) + 1 = i
    BY <2>2 DEF Dense
  <2>. QED
    BY <2>1, <2>2, <2>3
<1>. HIDE DEF D
<1>3. CASE \E j \in D : h.keys[j + 1] = k
  <2>1. PICK j \in D : h.keys[j + 1] = k
    BY <1>3
  <2>2. PICK s : FoundAt(h, h.keys[j + 1], s, j)
    BY <1>1, <1>2, FoundFacts
  <2>. QED
    BY <2>1, <2>2 DEF Present, D
<1>4. CASE \A j \in D : h.keys[j + 1] # k
  <2>1. \A j \in D : ~Same(h.keys[j + 1], k)
    BY <1>4 DEF Same
  <2>2. BucketFind(h, k) = {}
    BY <1>1, <1>2, <2>1, NotFoundFacts
  <2>3. \A i \in 1 .. h.len : h.keys[i] # k
    BY <1>2, <1>4
  <2>. QED
    BY <2>2, <2>3 DEF Absent
<1>. QED
  BY <1>3, <1>4

\* No two live cells hold one key.
LEMMA OneCell ==
  ASSUME NEW h, Sound(h), NEW i \in 1 .. h.len, NEW j \in 1 .. h.len,
         h.keys[i] = h.keys[j]
  PROVE  i = j
<1>1. h.len \in Nat
  BY DEF Sound, Headers
<1>2. PICK a \in Dense(h), b \in Dense(h) : i = a + 1 /\ j = b + 1
  <2>1. i - 1 \in Dense(h) /\ j - 1 \in Dense(h) /\ i = (i - 1) + 1 /\ j = (j - 1) + 1
    BY <1>1 DEF Dense
  <2>. QED
    BY <2>1
<1>. QED
  BY <1>2 DEF Sound, Distinct

\* The values are not looked at by the index.
LEMMA Revalued ==
  ASSUME NEW h, Sound(h), NEW w \in Seq(Value)
  PROVE  /\ Sound([h EXCEPT !.values = w])
         /\ [h EXCEPT !.values = w].keys = h.keys
         /\ [h EXCEPT !.values = w].len = h.len
         /\ [h EXCEPT !.values = w].values = w
<1> DEFINE g == [h EXCEPT !.values = w]
<1>1. h \in Headers
  BY DEF Sound
<1>2. /\ g \in Headers /\ g.keys = h.keys /\ g.len = h.len /\ g.cap = h.cap
      /\ g.bcap = h.bcap /\ g.tombs = h.tombs /\ g.buckets = h.buckets /\ g.values = w
  BY <1>1 DEF Headers
<1>. HIDE DEF g
<1>3. Sound(g)
  BY <1>2 DEF Sound, Indexing, Dense
<1>. QED
  BY <1>2, <1>3 DEF g

\* A header a map can have: the values are parallel to the keys.
MapHeader(h) == Sound(h) /\ Len(h.values) = Len(h.keys)

\* The entries of a map, and of a set, in dense order.
Pairs(h) == [i \in 1 .. h.len |-> <<h.keys[i], h.values[i]>>]
Items(h) == [i \in 1 .. h.len |-> <<h.keys[i]>>]

LEMMA HeaderTypes ==
  ASSUME NEW h, Sound(h)
  PROVE  /\ h.len \in Nat /\ h.keys \in Seq(Key) /\ h.values \in Seq(Value)
         /\ Len(h.keys) \in Nat /\ Len(h.values) \in Nat /\ h.len <= Len(h.keys)
         /\ \A i \in 1 .. h.len : h.keys[i] \in Key /\ i \in DOMAIN h.keys
<1>1. h \in Headers /\ h.len <= Len(h.keys)
  BY DEF Sound
<1>2. h.len \in Nat /\ h.keys \in Seq(Key) /\ h.values \in Seq(Value)
  BY <1>1 DEF Headers
<1>. QED
  BY <1>1, <1>2

\* A function on 1 .. n is a sequence of n cells.
LEMMA CellsOf ==
  ASSUME NEW n \in Nat, NEW f, DOMAIN f = 1 .. n, f = [i \in 1 .. n |-> f[i]]
  PROVE  f \in Seq({f[i] : i \in 1 .. n}) /\ Len(f) = n
OBVIOUS

\* A sequence of one cell more.
LEMMA LastCell ==
  ASSUME NEW n \in Nat, NEW f, NEW g, DOMAIN f = 1 .. n, DOMAIN g = 1 .. n + 1,
         f = [i \in 1 .. n |-> f[i]], g = [i \in 1 .. n + 1 |-> g[i]],
         \A i \in 1 .. n : g[i] = f[i]
  PROVE  g = Append(f, g[n + 1])
<1>1. f \in Seq({f[i] : i \in 1 .. n}) /\ Len(f) = n
  BY CellsOf
<1>2. Append(f, g[n + 1]) = [i \in 1 .. n + 1 |-> IF i = n + 1 THEN g[n + 1] ELSE f[i]]
  BY <1>1
<1>3. ASSUME NEW i \in 1 .. n + 1
      PROVE  g[i] = IF i = n + 1 THEN g[n + 1] ELSE f[i]
  <2>1. i = n + 1 \/ i \in 1 .. n
    OBVIOUS
  <2>. QED
    BY <2>1
<1>4. g = [i \in 1 .. n + 1 |-> IF i = n + 1 THEN g[n + 1] ELSE f[i]]
  BY Zenon, <1>3
<1>. QED
  BY <1>2, <1>4

\* put of a key that is there: its value is replaced.
LEMMA PutAgain ==
  ASSUME NEW h, MapHeader(h), NEW k \in Key, NEW v \in Value, NEW s, NEW j,
         Present(h, k, s, j)
  PROVE  /\ MapHeader(Put(h, k, v)) /\ Put(h, k, v).len = h.len
         /\ Pairs(Put(h, k, v))
            = [i \in 1 .. h.len |-> IF i = j + 1 THEN <<k, v>> ELSE Pairs(h)[i]]
<1> DEFINE w == [h.values EXCEPT ![j + 1] = v]
           g == [h EXCEPT !.values = w]
<1>1. Sound(h) /\ Len(h.values) = Len(h.keys)
  BY DEF MapHeader
<1>2. /\ h.len \in Nat /\ h.values \in Seq(Value) /\ h.len <= Len(h.values)
      /\ Len(h.values) \in Nat /\ \A i \in 1 .. h.len : i \in DOMAIN h.values
  BY <1>1, HeaderTypes
<1>3. j + 1 \in 1 .. h.len /\ h.keys[j + 1] = k
      /\ BucketFind(h, k) = {s} /\ h.buckets[s] = j
  BY <1>2 DEF Present, FoundAt, Dense
<1>4. h \in Headers
  BY <1>1 DEF Sound
<1>5. Put(h, k, v) = g
  <2>1. (CHOOSE t \in {s} : TRUE) = s
    OBVIOUS
  <2>2. Put(h, k, v) = [h EXCEPT !.values[h.buckets[s] + 1] = v]
    BY <1>3, <2>1 DEF Put
  <2>. QED
    BY <1>3, <2>2
<1>6. w \in Seq(Value) /\ Len(w) = Len(h.values) /\ w[j + 1] = v
      /\ \A i \in 1 .. h.len : i # j + 1 => w[i] = h.values[i]
  BY <1>2, <1>3
<1>. HIDE DEF w
<1>7. Sound(g) /\ g.keys = h.keys /\ g.len = h.len /\ g.values = w
  BY <1>1, <1>6, Revalued
<1>. HIDE DEF g
<1>8. MapHeader(g)
  BY <1>1, <1>6, <1>7 DEF MapHeader
<1>9. Pairs(g) = [i \in 1 .. h.len |-> IF i = j + 1 THEN <<k, v>> ELSE Pairs(h)[i]]
  BY <1>3, <1>6, <1>7 DEF Pairs
<1>. QED
  BY <1>5, <1>7, <1>8, <1>9

\* put and add of a key that is not there: the entry comes last.
LEMMA PutNew ==
  ASSUME NEW h, MapHeader(h), NEW k \in Key, NEW v \in Value, Absent(h, k)
  PROVE  /\ MapHeader(Put(h, k, v)) /\ Put(h, k, v).len = h.len + 1
         /\ Pairs(Put(h, k, v)) = Append(Pairs(h), <<k, v>>)
<1> DEFINE m == h.len
           e == Entered(h, k)
           w == Stored(h.values, m, v)
           keys == Stored(h.keys, m, k)
           g == [e EXCEPT !.values = w]
<1>1. Sound(h) /\ Len(h.values) = Len(h.keys)
  BY DEF MapHeader
<1>2. /\ m \in Nat /\ h.keys \in Seq(Key) /\ h.values \in Seq(Value)
      /\ m <= Len(h.keys) /\ m <= Len(h.values)
  BY <1>1, HeaderTypes
<1>. HIDE DEF m
<1>3. Sound(e) /\ e.len = m + 1 /\ e.keys = keys /\ e.values = h.values
  BY <1>1, EnteredFacts DEF Absent, m
<1>4. w \in Seq(Value) /\ w[m + 1] = v /\ \A i \in 1 .. m : w[i] = h.values[i]
  BY <1>2, StoredFacts
<1>5. keys[m + 1] = k /\ \A i \in 1 .. m : keys[i] = h.keys[i]
  <2> DEFINE cells == h.keys
  <2>1. cells \in Seq(Key) /\ m <= Len(cells) /\ m \in Nat
    BY <1>2
  <2>. HIDE DEF cells
  <2>2. /\ Stored(cells, m, k)[m + 1] = k
        /\ \A i \in 1 .. m : Stored(cells, m, k)[i] = cells[i]
    BY <2>1, StoredFacts
  <2>. QED
    BY <2>2 DEF cells
<1>6. Len(w) = Len(keys)
  <2>1. Len(w) = IF m = Len(h.values) THEN m + 1 ELSE Len(h.values)
    BY <1>2, StoredFacts
  <2>2. Len(keys) = IF m = Len(h.keys) THEN m + 1 ELSE Len(h.keys)
    BY <1>2, StoredFacts
  <2>. QED
    BY <1>1, <2>1, <2>2
<1>7. Put(h, k, v) = g
  <2>1. Put(h, k, v) = [Entered(h, k) EXCEPT !.values = Stored(@, h.len, v)]
    BY DEF Put, Absent
  <2>. HIDE DEF w, e
  <2>2. Put(h, k, v) = [e EXCEPT !.values = Stored(e.values, m, v)]
    BY <2>1 DEF m, e
  <2>. QED
    BY <1>3, <2>2 DEF w
<1>. HIDE DEF e, w, keys
<1>8. Sound(g) /\ g.keys = keys /\ g.len = m + 1 /\ g.values = w
  BY <1>3, <1>4, Revalued
<1>. HIDE DEF g
<1>9. MapHeader(g)
  BY <1>6, <1>8 DEF MapHeader
<1>10. Pairs(g) = Append(Pairs(h), <<k, v>>)
  <2>1. Pairs(g) = [i \in 1 .. m + 1 |-> <<keys[i], w[i]>>]
    BY <1>8 DEF Pairs
  <2>2. Pairs(h) = [i \in 1 .. m |-> <<h.keys[i], h.values[i]>>]
    BY DEF Pairs, m
  <2>. QED
    BY <1>2, <1>4, <1>5, <2>1, <2>2, LastCell
<1>. QED
  BY <1>7, <1>8, <1>9, <1>10 DEF m

LEMMA AddNew ==
  ASSUME NEW h, Sound(h), NEW k \in Key, Absent(h, k)
  PROVE  /\ Sound(Entered(h, k)) /\ Entered(h, k).len = h.len + 1
         /\ Items(Entered(h, k)) = Append(Items(h), <<k>>)
<1> DEFINE m == h.len
           e == Entered(h, k)
           keys == Stored(h.keys, m, k)
<1>1. m \in Nat /\ h.keys \in Seq(Key) /\ m <= Len(h.keys)
  BY HeaderTypes
<1>. HIDE DEF m
<1>2. Sound(e) /\ e.len = m + 1 /\ e.keys = keys
  BY EnteredFacts DEF Absent, m
<1>. HIDE DEF e
<1>3. keys[m + 1] = k /\ \A i \in 1 .. m : keys[i] = h.keys[i]
  <2> DEFINE cells == h.keys
  <2>1. cells \in Seq(Key) /\ m <= Len(cells) /\ m \in Nat
    BY <1>1
  <2>. HIDE DEF cells
  <2>2. /\ Stored(cells, m, k)[m + 1] = k
        /\ \A i \in 1 .. m : Stored(cells, m, k)[i] = cells[i]
    BY <2>1, StoredFacts
  <2>. QED
    BY <2>2 DEF cells
<1>. HIDE DEF e, keys
<1>4. Items(e) = Append(Items(h), <<k>>)
  <2>1. Items(e) = [i \in 1 .. m + 1 |-> <<keys[i]>>]
    BY <1>2 DEF Items
  <2>2. Items(h) = [i \in 1 .. m |-> <<h.keys[i]>>]
    BY DEF Items, m
  <2>. QED
    BY <1>1, <1>3, <2>1, <2>2, LastCell
<1>. QED
  BY <1>2, <1>4 DEF e, m

\* remove of a key that is there: the last entry fills its place.
LEMMA RemovedFacts ==
  ASSUME Odd = {}, NEW h, MapHeader(h), NEW k \in Key, NEW s, NEW j,
         Present(h, k, s, j)
  PROVE  /\ MapHeader(Remove(h, k)) /\ Remove(h, k).len = h.len - 1
         /\ Pairs(Remove(h, k))
            = [i \in 1 .. h.len - 1 |->
                  IF i = j + 1 THEN Pairs(h)[h.len] ELSE Pairs(h)[i]]
<1> DEFINE m == h.len
           f == Forgotten(h, s)
           keys == [h.keys EXCEPT ![j + 1] = h.keys[m]]
           w == [h.values EXCEPT ![j + 1] = h.values[m]]
           g == [f EXCEPT !.values = w]
<1>1. Sound(h) /\ Len(h.values) = Len(h.keys)
  BY DEF MapHeader
<1>2. /\ m \in Nat /\ h.keys \in Seq(Key) /\ h.values \in Seq(Value)
      /\ m <= Len(h.keys) /\ m <= Len(h.values)
      /\ Len(h.keys) \in Nat /\ Len(h.values) \in Nat
  BY <1>1, HeaderTypes
<1>3. /\ j \in Dense(h) /\ j + 1 \in 1 .. m /\ m \in 1 .. m
      /\ BucketFind(h, k) = {s} /\ h.buckets[s] = j /\ s \in 0 .. h.bcap - 1
  BY <1>2 DEF Present, FoundAt, Dense
<1>. HIDE DEF m
<1>4. Sound(f) /\ f.len = m - 1 /\ f.keys = keys /\ f.values = h.values
  BY <1>1, <1>3, ForgottenFacts DEF m
<1>. HIDE DEF f
<1>5. Remove(h, k) = g
  <2>1. (CHOOSE t \in {s} : TRUE) = s /\ {s} # {}
    OBVIOUS
  <2>2. Remove(h, k) = [f EXCEPT !.values[h.buckets[s] + 1] = h.values[m]]
    BY <1>3, <2>1 DEF Remove, f, m
  <2>. QED
    BY <1>3, <1>4, <2>2
<1>6. w \in Seq(Value) /\ Len(w) = Len(h.values)
      /\ w[j + 1] = h.values[m] /\ \A i \in 1 .. m : i # j + 1 => w[i] = h.values[i]
  BY <1>2, <1>3
<1>7. Len(keys) = Len(h.keys)
      /\ keys[j + 1] = h.keys[m] /\ \A i \in 1 .. m : i # j + 1 => keys[i] = h.keys[i]
  BY <1>2, <1>3
<1>. HIDE DEF w, keys
<1>8. Sound(g) /\ g.keys = keys /\ g.len = m - 1 /\ g.values = w
  BY <1>4, <1>6, Revalued
<1>. HIDE DEF g
<1>9. MapHeader(g)
  BY <1>1, <1>6, <1>7, <1>8 DEF MapHeader
<1>10. Pairs(g) = [i \in 1 .. m - 1 |->
                      IF i = j + 1 THEN Pairs(h)[m] ELSE Pairs(h)[i]]
  <2>1. Pairs(g) = [i \in 1 .. m - 1 |-> <<keys[i], w[i]>>]
    BY <1>8 DEF Pairs
  <2>2. \A i \in 1 .. m : Pairs(h)[i] = <<h.keys[i], h.values[i]>>
    BY DEF Pairs, m
  <2>3. \A i \in 1 .. m - 1 : i \in 1 .. m
    BY <1>2
  <2>. QED
    BY <1>3, <1>6, <1>7, <2>1, <2>2, <2>3
<1>. QED
  BY <1>5, <1>8, <1>9, <1>10 DEF m

\* Set.remove of an item that is there.
LEMMA DiscardedFacts ==
  ASSUME Odd = {}, NEW h, Sound(h), NEW k \in Key, NEW s, NEW j,
         Present(h, k, s, j)
  PROVE  /\ Sound(Discard(h, k)) /\ Discard(h, k).len = h.len - 1
         /\ Items(Discard(h, k))
            = [i \in 1 .. h.len - 1 |->
                  IF i = j + 1 THEN Items(h)[h.len] ELSE Items(h)[i]]
<1> DEFINE m == h.len
           f == Forgotten(h, s)
           keys == [h.keys EXCEPT ![j + 1] = h.keys[m]]
<1>2. /\ m \in Nat /\ h.keys \in Seq(Key) /\ m <= Len(h.keys) /\ Len(h.keys) \in Nat
  BY HeaderTypes
<1>3. /\ j \in Dense(h) /\ j + 1 \in 1 .. m /\ m \in 1 .. m
      /\ BucketFind(h, k) = {s} /\ h.buckets[s] = j /\ s \in 0 .. h.bcap - 1
  BY <1>2 DEF Present, FoundAt, Dense
<1>. HIDE DEF m
<1>4. Sound(f) /\ f.len = m - 1 /\ f.keys = keys
  BY <1>3, ForgottenFacts DEF m
<1>. HIDE DEF f
<1>5. Discard(h, k) = f
  BY <1>3 DEF Discard, f
<1>6. keys[j + 1] = h.keys[m] /\ \A i \in 1 .. m : i # j + 1 => keys[i] = h.keys[i]
  BY <1>2, <1>3
<1>. HIDE DEF keys
<1>7. Items(f) = [i \in 1 .. m - 1 |->
                     IF i = j + 1 THEN Items(h)[m] ELSE Items(h)[i]]
  <2>1. Items(f) = [i \in 1 .. m - 1 |-> <<keys[i]>>]
    BY <1>4 DEF Items
  <2>2. \A i \in 1 .. m : Items(h)[i] = <<h.keys[i]>>
    BY DEF Items, m
  <2>3. \A i \in 1 .. m - 1 : i \in 1 .. m
    BY <1>2
  <2>. QED
    BY <1>3, <1>6, <2>1, <2>2, <2>3
<1>. QED
  BY <1>4, <1>5, <1>7 DEF m

\* Each operation leaves a sound header.
LEMMA MapOperations ==
  ASSUME Odd = {}, NEW h, MapHeader(h), NEW k \in Key
  PROVE  MapHeader(Remove(h, k)) /\ \A v \in Value : MapHeader(Put(h, k, v))
<1>1. Sound(h)
  BY DEF MapHeader
<1>2. CASE Absent(h, k)
  <2>1. Remove(h, k) = h
    BY <1>2 DEF Absent, Remove
  <2>. QED
    BY <1>2, <2>1, PutNew
<1>3. CASE \E s, j : Present(h, k, s, j)
  BY <1>3, PutAgain, RemovedFacts
<1>. QED
  BY <1>1, <1>2, <1>3, LookedUp

LEMMA SetOperations ==
  ASSUME Odd = {}, NEW h, Sound(h), NEW k \in Key
  PROVE  Sound(Discard(h, k)) /\ Sound(Add(h, k))
<1>1. CASE Absent(h, k)
  <2>1. Discard(h, k) = h /\ Add(h, k) = Entered(h, k)
    BY <1>1 DEF Absent, Discard, Add
  <2>. QED
    BY <1>1, <2>1, AddNew
<1>2. CASE \E s, j : Present(h, k, s, j)
  <2>1. PICK s, j : Present(h, k, s, j)
    BY <1>2
  <2>2. Add(h, k) = h
    BY <2>1 DEF Present, FoundAt, Add
  <2>. QED
    BY <2>1, <2>2, DiscardedFacts
<1>. QED
  BY <1>1, <1>2, LookedUp

\* default().
LEMMA NewFacts ==
  /\ MapHeader(New) /\ New.len = 0 /\ Pairs(New) = <<>> /\ Items(New) = <<>>
<1>1. /\ New.keys = <<>> /\ New.len = 0 /\ New.cap = 0 /\ New.bcap = 0 /\ New.tombs = 0
      /\ New.buckets = <<>> /\ New.values = <<>>
      /\ New = [keys |-> <<>>, len |-> 0, cap |-> 0, bcap |-> 0, tombs |-> 0,
                buckets |-> <<>>, values |-> <<>>]
  BY DEF New, Header, NoIndex
<1>2. <<>> \in [0 .. 0 - 1 -> Int] /\ <<>> \in [0 .. 0 - 1 -> {EMPTY, TOMB} \cup (0 .. 0 - 1)]
      /\ 0 .. 0 - 1 = {} /\ Len(<<>>) = 0
  OBVIOUS
<1>3. New \in Headers
  BY <1>1, <1>2 DEF Headers
<1>4. Dense(New) = {} /\ 0 .. New.bcap - 1 = {}
  BY <1>1 DEF Dense
<1>5. Leads(New.keys, New.bcap, New.buckets, Dense(New))
  BY <1>1, <1>2, <1>4 DEF Leads, Dense
<1>6. Tombs(New.bcap, New.buckets) = {}
  BY <1>4 DEF Tombs
<1>7. Indexing(New)
  BY <1>1, <1>5, <1>6, FS_EmptySet DEF Indexing
<1>8. Sound(New)
  BY <1>1, <1>2, <1>3, <1>4, <1>7 DEF Sound, Distinct
<1>9. Pairs(New) = <<>> /\ Items(New) = <<>>
  BY <1>1 DEF Pairs, Items
<1>. QED
  BY <1>1, <1>2, <1>8, <1>9 DEF MapHeader

\* copy of a map: the same entries in the same order, in a fresh index.
LEMMA CopiedFacts ==
  ASSUME Odd = {}, NEW h, MapHeader(h)
  PROVE  /\ MapHeader(Copied(h)) /\ Copied(h).len = h.len
         /\ Pairs(Copied(h)) = Pairs(h)
<1> DEFINE m == h.len
           S == {g \in Headers : MapHeader(g)}
           Step(g, i) == Put(g, h.keys[i], h.values[i])
           step == [i \in 1 .. m |-> [g \in S |-> Step(g, i)]]
           R(f) == f = [i \in 0 .. m |-> IF i = 0 THEN New ELSE Put(f[i - 1], h.keys[i], h.values[i])]
           p == CHOOSE f : R(f)
<1>1. /\ m \in Nat /\ \A i \in 1 .. m : h.keys[i] \in Key /\ h.values[i] \in Value
  <2>1. Sound(h) /\ Len(h.values) = Len(h.keys)
    BY DEF MapHeader
  <2>. QED
    BY <2>1, HeaderTypes
<1>2. \A g : g \in S <=> MapHeader(g)
  BY DEF MapHeader, Sound
<1>3. \A g, i : g \in S /\ i \in 1 .. m => Step(g, i) \in S
  BY <1>1, <1>2, MapOperations
<1>4. New \in S
  BY <1>2, NewFacts DEF MapHeader
<1>5. \E f : R(f)
  <2>1. step \in [1 .. m -> [S -> S]]
    <3>. HIDE DEF S, Step
    <3>. QED
      BY <1>3
  <2>. HIDE DEF S, m
  <2>2. PICK f : Iterates(f, m, S, New, step)
    <3>. HIDE DEF step
    <3>. QED
      BY <1>1, <1>4, <2>1, Iteration
  <2>. HIDE DEF Step
  <2>3. f \in [0 .. m -> S] /\ f[0] = New /\ \A i \in 1 .. m : f[i] = step[i][f[i - 1]]
    BY <2>2 DEF Iterates
  <2>4. ASSUME NEW i \in 0 .. m, i # 0
        PROVE  f[i] = Step(f[i - 1], i)
    <3>1. i \in 1 .. m /\ i - 1 \in 0 .. m
      BY <1>1, <2>4
    <3>2. f[i - 1] \in S
      BY <2>3, <3>1
    <3>. QED
      BY <2>3, <3>1, <3>2
  <2>5. f = [i \in 0 .. m |-> IF i = 0 THEN New ELSE Step(f[i - 1], i)]
    BY <2>3, <2>4
  <2>. QED
    BY <2>5 DEF Step
<1>6. Copied(h) = p[m]
  BY DEF Copied
<1>7. p = [i \in 0 .. m |-> IF i = 0 THEN New ELSE Step(p[i - 1], i)]
  <2>1. R(p)
    <3>. HIDE DEF R
    <3>. QED
      BY <1>5
  <2>. HIDE DEF p
  <2>. QED
    BY <2>1
<1>. HIDE DEF m, p, R, step, S
<1>8. p[0] = New /\ \A i \in 1 .. m : p[i] = Step(p[i - 1], i)
  <2>. HIDE DEF Step
  <2>1. 0 \in 0 .. m /\ \A i \in 1 .. m : i \in 0 .. m /\ i # 0
    BY <1>1
  <2>. QED
    BY <1>7, <2>1
<1> DEFINE Good(g, i) == /\ MapHeader(g) /\ g.len = i
                         /\ Pairs(g) = [x \in 1 .. i |-> Pairs(h)[x]]
           T == {i \in 0 .. m : Good(p[i], i)}
<1>9. \A i \in 1 .. m : Pairs(h)[i] = <<h.keys[i], h.values[i]>>
  BY DEF Pairs, m
<1>10. 0 \in T
  <2>1. Pairs(New) = [x \in 1 .. 0 |-> Pairs(h)[x]]
    BY NewFacts
  <2>. QED
    BY <1>1, <1>8, <2>1, NewFacts DEF MapHeader
<1>11. ASSUME NEW i \in 1 .. m, i - 1 \in T PROVE i \in T
  <2> DEFINE g == p[i - 1]
             k == h.keys[i]
  <2>1. MapHeader(g) /\ g.len = i - 1 /\ Pairs(g) = [x \in 1 .. i - 1 |-> Pairs(h)[x]]
        /\ i \in 0 .. m /\ i - 1 \in 0 .. m /\ k \in Key
    BY <1>1, <1>11
  <2>2. p[i] = Step(g, i)
    BY <1>8
  <2>. HIDE DEF g
  <2>3. \A x \in 1 .. i - 1 : g.keys[x] = h.keys[x] /\ x \in 1 .. m /\ x # i
    <3>1. ASSUME NEW x \in 1 .. i - 1 PROVE g.keys[x] = h.keys[x] /\ x \in 1 .. m /\ x # i
      <4>1. x \in 1 .. m /\ x # i
        BY <1>1
      <4>2. Pairs(g)[x] = Pairs(h)[x] /\ Pairs(g)[x][1] = g.keys[x]
        BY <2>1 DEF Pairs
      <4>3. Pairs(h)[x][1] = h.keys[x]
        BY <1>9, <4>1
      <4>. QED
        BY <4>1, <4>2, <4>3
    <3>. QED
      BY <3>1
  <2>4. Absent(g, k)
    <3>1. \A x \in 1 .. i - 1 : g.keys[x] # k
      <4>1. Sound(h) /\ \A x \in 1 .. m : h.keys[x] = h.keys[i] => x = i
        BY OneCell DEF MapHeader, m
      <4>. QED
        BY <2>3, <4>1
    <3>2. ASSUME NEW s, NEW j, Present(g, k, s, j) PROVE FALSE
      <4>1. j + 1 \in 1 .. i - 1 /\ g.keys[j + 1] = k
        BY <1>1, <2>1, <3>2 DEF Present, Dense
      <4>. QED
        BY <3>1, <4>1
    <3>. QED
      BY <2>1, <3>2, LookedUp DEF MapHeader
  <2>5. Pairs(h)[i] = <<k, h.values[i]>> /\ h.values[i] \in Value
    BY <1>1, <1>9
  <2>6. /\ MapHeader(Put(g, k, h.values[i])) /\ Put(g, k, h.values[i]).len = (i - 1) + 1
        /\ Pairs(Put(g, k, h.values[i])) = Append(Pairs(g), Pairs(h)[i])
    BY <2>1, <2>4, <2>5, PutNew
  <2>7. Append(Pairs(g), Pairs(h)[i]) = [x \in 1 .. i |-> Pairs(h)[x]]
    <3> DEFINE a == [x \in 1 .. i - 1 |-> Pairs(h)[x]]
               b == [x \in 1 .. (i - 1) + 1 |-> Pairs(h)[x]]
    <3>1. (i - 1) + 1 = i /\ i - 1 \in Nat
      BY <1>1
    <3>2. PICK n \in Nat : n = i - 1
      BY <3>1
    <3>3. /\ a = [x \in 1 .. n |-> a[x]] /\ b = [x \in 1 .. n + 1 |-> b[x]]
          /\ DOMAIN a = 1 .. n /\ DOMAIN b = 1 .. n + 1
          /\ \A x \in 1 .. n : b[x] = a[x] /\ b[n + 1] = Pairs(h)[n + 1]
      BY <3>2
    <3>. HIDE DEF a, b
    <3>4. b = Append(a, b[n + 1])
      BY <3>3, LastCell
    <3>5. n + 1 = i /\ b[n + 1] = Pairs(h)[n + 1]
      BY <3>1, <3>2 DEF b
    <3>. QED
      BY <2>1, <3>1, <3>4, <3>5 DEF a, b
  <2>8. p[i] = Put(g, k, h.values[i])
    BY <2>2, <2>4 
  <2>9. Good(Put(g, k, h.values[i]), i)
    <3>1. (i - 1) + 1 = i
      BY <1>1
    <3>. QED
      BY <2>6, <2>7, <3>1
  <2>. HIDE DEF Good
  <2>. QED
    BY <2>1, <2>8, <2>9
<1>12. m \in T
  <2>. HIDE DEF T
  <2>1. T \in SUBSET Nat
    <3>1. T \subseteq 0 .. m
      BY Zenon DEF T
    <3>. QED
      BY <1>1, <3>1
  <2>2. \A i \in 0 .. m : i \in T
    BY <1>1, <1>10, <1>11, <2>1, Along
  <2>. QED
    BY <1>1, <2>2
<1>13. Pairs(h) = [x \in 1 .. m |-> Pairs(h)[x]]
  BY DEF Pairs, m
<1>. QED
  BY <1>6, <1>12, <1>13 DEF m

\* copy of a set.
LEMMA SetCopiedFacts ==
  ASSUME Odd = {}, NEW h, Sound(h)
  PROVE  /\ Sound(SetCopied(h)) /\ SetCopied(h).len = h.len
         /\ Items(SetCopied(h)) = Items(h)
<1> DEFINE m == h.len
           S == {g \in Headers : Sound(g)}
           Step(g, i) == Add(g, h.keys[i])
           step == [i \in 1 .. m |-> [g \in S |-> Step(g, i)]]
           R(f) == f = [i \in 0 .. m |-> IF i = 0 THEN New ELSE Add(f[i - 1], h.keys[i])]
           p == CHOOSE f : R(f)
<1>1. /\ m \in Nat /\ \A i \in 1 .. m : h.keys[i] \in Key
  BY HeaderTypes
<1>2. \A g : g \in S <=> Sound(g)
  BY DEF MapHeader, Sound
<1>3. \A g, i : g \in S /\ i \in 1 .. m => Step(g, i) \in S
  BY <1>1, <1>2, SetOperations
<1>4. New \in S
  BY <1>2, NewFacts DEF MapHeader
<1>5. \E f : R(f)
  <2>1. step \in [1 .. m -> [S -> S]]
    <3>. HIDE DEF S, Step
    <3>. QED
      BY <1>3
  <2>. HIDE DEF S, m
  <2>2. PICK f : Iterates(f, m, S, New, step)
    <3>. HIDE DEF step
    <3>. QED
      BY <1>1, <1>4, <2>1, Iteration
  <2>. HIDE DEF Step
  <2>3. f \in [0 .. m -> S] /\ f[0] = New /\ \A i \in 1 .. m : f[i] = step[i][f[i - 1]]
    BY <2>2 DEF Iterates
  <2>4. ASSUME NEW i \in 0 .. m, i # 0
        PROVE  f[i] = Step(f[i - 1], i)
    <3>1. i \in 1 .. m /\ i - 1 \in 0 .. m
      BY <1>1, <2>4
    <3>2. f[i - 1] \in S
      BY <2>3, <3>1
    <3>. QED
      BY <2>3, <3>1, <3>2
  <2>5. f = [i \in 0 .. m |-> IF i = 0 THEN New ELSE Step(f[i - 1], i)]
    BY <2>3, <2>4
  <2>. QED
    BY <2>5 DEF Step
<1>6. SetCopied(h) = p[m]
  BY DEF SetCopied
<1>7. p = [i \in 0 .. m |-> IF i = 0 THEN New ELSE Step(p[i - 1], i)]
  <2>1. R(p)
    <3>. HIDE DEF R
    <3>. QED
      BY <1>5
  <2>. HIDE DEF p
  <2>. QED
    BY <2>1
<1>. HIDE DEF m, p, R, step, S
<1>8. p[0] = New /\ \A i \in 1 .. m : p[i] = Step(p[i - 1], i)
  <2>. HIDE DEF Step
  <2>1. 0 \in 0 .. m /\ \A i \in 1 .. m : i \in 0 .. m /\ i # 0
    BY <1>1
  <2>. QED
    BY <1>7, <2>1
<1> DEFINE Good(g, i) == /\ Sound(g) /\ g.len = i
                         /\ Items(g) = [x \in 1 .. i |-> Items(h)[x]]
           T == {i \in 0 .. m : Good(p[i], i)}
<1>9. \A i \in 1 .. m : Items(h)[i] = <<h.keys[i]>>
  BY DEF Items, m
<1>10. 0 \in T
  <2>1. Items(New) = [x \in 1 .. 0 |-> Items(h)[x]]
    BY NewFacts
  <2>. QED
    BY <1>1, <1>8, <2>1, NewFacts DEF MapHeader
<1>11. ASSUME NEW i \in 1 .. m, i - 1 \in T PROVE i \in T
  <2> DEFINE g == p[i - 1]
             k == h.keys[i]
  <2>1. Sound(g) /\ g.len = i - 1 /\ Items(g) = [x \in 1 .. i - 1 |-> Items(h)[x]]
        /\ i \in 0 .. m /\ i - 1 \in 0 .. m /\ k \in Key
    BY <1>1, <1>11
  <2>2. p[i] = Step(g, i)
    BY <1>8
  <2>. HIDE DEF g
  <2>3. \A x \in 1 .. i - 1 : g.keys[x] = h.keys[x] /\ x \in 1 .. m /\ x # i
    <3>1. ASSUME NEW x \in 1 .. i - 1 PROVE g.keys[x] = h.keys[x] /\ x \in 1 .. m /\ x # i
      <4>1. x \in 1 .. m /\ x # i
        BY <1>1
      <4>2. Items(g)[x] = Items(h)[x] /\ Items(g)[x][1] = g.keys[x]
        BY <2>1 DEF Items
      <4>3. Items(h)[x][1] = h.keys[x]
        BY <1>9, <4>1
      <4>. QED
        BY <4>1, <4>2, <4>3
    <3>. QED
      BY <3>1
  <2>4. Absent(g, k)
    <3>1. \A x \in 1 .. i - 1 : g.keys[x] # k
      <4>1. Sound(h) /\ \A x \in 1 .. m : h.keys[x] = h.keys[i] => x = i
        BY OneCell DEF MapHeader, m
      <4>. QED
        BY <2>3, <4>1
    <3>2. ASSUME NEW s, NEW j, Present(g, k, s, j) PROVE FALSE
      <4>1. j + 1 \in 1 .. i - 1 /\ g.keys[j + 1] = k
        BY <1>1, <2>1, <3>2 DEF Present, Dense
      <4>. QED
        BY <3>1, <4>1
    <3>. QED
      BY <2>1, <3>2, LookedUp DEF MapHeader
  <2>5. Items(h)[i] = <<k>>
    BY <1>1, <1>9
  <2>6. /\ Sound(Entered(g, k)) /\ Entered(g, k).len = (i - 1) + 1
        /\ Items(Entered(g, k)) = Append(Items(g), Items(h)[i])
    BY <2>1, <2>4, <2>5, AddNew
  <2>7. Append(Items(g), Items(h)[i]) = [x \in 1 .. i |-> Items(h)[x]]
    <3> DEFINE a == [x \in 1 .. i - 1 |-> Items(h)[x]]
               b == [x \in 1 .. (i - 1) + 1 |-> Items(h)[x]]
    <3>1. (i - 1) + 1 = i /\ i - 1 \in Nat
      BY <1>1
    <3>2. PICK n \in Nat : n = i - 1
      BY <3>1
    <3>3. /\ a = [x \in 1 .. n |-> a[x]] /\ b = [x \in 1 .. n + 1 |-> b[x]]
          /\ DOMAIN a = 1 .. n /\ DOMAIN b = 1 .. n + 1
          /\ \A x \in 1 .. n : b[x] = a[x] /\ b[n + 1] = Items(h)[n + 1]
      BY <3>2
    <3>. HIDE DEF a, b
    <3>4. b = Append(a, b[n + 1])
      BY <3>3, LastCell
    <3>5. n + 1 = i /\ b[n + 1] = Items(h)[n + 1]
      BY <3>1, <3>2 DEF b
    <3>. QED
      BY <2>1, <3>1, <3>4, <3>5 DEF a, b
  <2>8. p[i] = Entered(g, k)
    BY <2>2, <2>4 DEF Absent, Add
  <2>9. Good(Entered(g, k), i)
    <3>1. (i - 1) + 1 = i
      BY <1>1
    <3>. QED
      BY <2>6, <2>7, <3>1
  <2>. HIDE DEF Good
  <2>. QED
    BY <2>1, <2>8, <2>9
<1>12. m \in T
  <2>. HIDE DEF T
  <2>1. T \in SUBSET Nat
    <3>1. T \subseteq 0 .. m
      BY Zenon DEF T
    <3>. QED
      BY <1>1, <3>1
  <2>2. \A i \in 0 .. m : i \in T
    BY <1>1, <1>10, <1>11, <2>1, Along
  <2>. QED
    BY <1>1, <2>2
<1>13. Items(h) = [x \in 1 .. m |-> Items(h)[x]]
  BY DEF Items, m
<1>. QED
  BY <1>6, <1>12, <1>13 DEF m

(***************************************************************************)
(* The inductive invariant.  IndexIsSound alone is not inductive: that an  *)
(* entry has a bucket does not say that the search from its hash comes to  *)
(* that bucket (Leads), nor that the next entry finds an EMPTY one below   *)
(* the load limit (Indexing).                                              *)
(***************************************************************************)
IInv ==
    /\ kind \in [Obj -> {"map", "set"}]
    /\ store \in [Obj -> Headers]
    /\ \A o \in Obj : Sound(store[o])
    /\ \A o \in Obj : kind[o] = "map" => MapHeader(store[o])

LEMMA InitIInv ==
  ASSUME Init
  PROVE  IInv
<1>1. MapHeader(New) /\ Sound(New) /\ New \in Headers
  BY NewFacts DEF MapHeader, Sound
<1>. QED
  BY <1>1 DEF Init, IInv

\* One collection replaced by a sound one.
LEMMA Replacing ==
  ASSUME IInv, UNCHANGED kind, NEW o \in Obj, NEW g, Sound(g),
         kind[o] = "map" => MapHeader(g), store' = [store EXCEPT ![o] = g]
  PROVE  IInv'
<1>1. g \in Headers
  BY DEF Sound
<1>. QED
  BY <1>1 DEF IInv

LEMMA StepIInv ==
  ASSUME Odd = {}, IInv, [Next]_vars
  PROVE  IInv'
<1>1. CASE UNCHANGED vars
  BY <1>1 DEF IInv, vars
<1>2. CASE MapCalls /\ UNCHANGED kind
  <2>1. PICK o \in Obj :
          /\ kind[o] = "map"
          /\ \/ \E k \in Key, v \in Value : store' = [store EXCEPT ![o] = Put(@, k, v)]
             \/ \E k \in Key : store' = [store EXCEPT ![o] = Remove(@, k)]
             \/ \E p \in Obj :
                   kind[p] = "map" /\ store' = [store EXCEPT ![p] = Copied(store[o])]
    BY <1>2 DEF MapCalls
  <2>2. MapHeader(store[o]) /\ store \in [Obj -> Headers]
    BY <2>1 DEF IInv
  <2>3. ASSUME NEW p \in Obj, NEW g, MapHeader(g), store' = [store EXCEPT ![p] = g]
        PROVE  IInv'
    BY <1>2, <2>3, Replacing DEF MapHeader
  <2>4. CASE \E k \in Key, v \in Value : store' = [store EXCEPT ![o] = Put(@, k, v)]
    <3>1. PICK k \in Key, v \in Value : store' = [store EXCEPT ![o] = Put(store[o], k, v)]
      BY <2>2, <2>4
    <3>2. MapHeader(Put(store[o], k, v))
      BY <2>2, MapOperations
    <3>. QED
      BY <2>3, <3>1, <3>2
  <2>5. CASE \E k \in Key : store' = [store EXCEPT ![o] = Remove(@, k)]
    <3>1. PICK k \in Key : store' = [store EXCEPT ![o] = Remove(store[o], k)]
      BY <2>2, <2>5
    <3>2. MapHeader(Remove(store[o], k))
      BY <2>2, MapOperations
    <3>. QED
      BY <2>3, <3>1, <3>2
  <2>6. CASE \E p \in Obj : store' = [store EXCEPT ![p] = Copied(store[o])]
    <3>1. MapHeader(Copied(store[o]))
      BY <2>2, CopiedFacts
    <3>. QED
      BY <2>3, <2>6, <3>1
  <2>. QED
    BY <2>1, <2>4, <2>5, <2>6
<1>3. CASE SetCalls /\ UNCHANGED kind
  <2>1. PICK o \in Obj :
          /\ kind[o] = "set"
          /\ \/ \E k \in Key : store' = [store EXCEPT ![o] = Add(@, k)]
             \/ \E k \in Key : store' = [store EXCEPT ![o] = Discard(@, k)]
             \/ \E p \in Obj :
                   kind[p] = "set" /\ store' = [store EXCEPT ![p] = SetCopied(store[o])]
    BY <1>3 DEF SetCalls
  <2>2. Sound(store[o]) /\ store \in [Obj -> Headers]
    BY DEF IInv
  <2>3. ASSUME NEW p \in Obj, kind[p] = "set", NEW g, Sound(g),
               store' = [store EXCEPT ![p] = g]
        PROVE  IInv'
    BY <1>3, <2>3, Replacing
  <2>4. CASE \E k \in Key : store' = [store EXCEPT ![o] = Add(@, k)]
    <3>1. PICK k \in Key : store' = [store EXCEPT ![o] = Add(store[o], k)]
      BY <2>2, <2>4
    <3>2. Sound(Add(store[o], k))
      BY <2>2, SetOperations
    <3>. QED
      BY <2>1, <2>3, <3>1, <3>2
  <2>5. CASE \E k \in Key : store' = [store EXCEPT ![o] = Discard(@, k)]
    <3>1. PICK k \in Key : store' = [store EXCEPT ![o] = Discard(store[o], k)]
      BY <2>2, <2>5
    <3>2. Sound(Discard(store[o], k))
      BY <2>2, SetOperations
    <3>. QED
      BY <2>1, <2>3, <3>1, <3>2
  <2>6. CASE \E p \in Obj :
               kind[p] = "set" /\ store' = [store EXCEPT ![p] = SetCopied(store[o])]
    <3>1. Sound(SetCopied(store[o]))
      BY <2>2, SetCopiedFacts
    <3>. QED
      BY <2>3, <2>6, <3>1
  <2>. QED
    BY <2>1, <2>4, <2>5, <2>6
<1>. QED
  BY <1>1, <1>2, <1>3 DEF Next

\* Whatever is put, removed and copied, every index leads to its entries and
\* stays under its load limit.
THEOREM Invariance ==
  ASSUME Odd = {}
  PROVE  Spec => []IInv
<1>1. Init => IInv
  BY InitIInv
<1>2. IInv /\ [Next]_vars => IInv'
  BY StepIInv
<1>. QED
  BY <1>1, <1>2, PTL DEF Spec

LEMMA SoundIndex ==
  ASSUME NEW h, Sound(h)
  PROVE  /\ IndexShape(h)
         /\ h.tombs = Cardinality({s \in DOMAIN h.buckets : h.buckets[s] = TOMB})
<1> DEFINE n == h.bcap
           b == h.buckets
           m == h.len
<1>1. /\ h.bcap \in Nat /\ h.len \in Nat /\ h.tombs \in Nat /\ h.len <= h.cap
      /\ h.tombs = Cardinality(Tombs(n, b)) /\ (n = 0 \/ h.len + h.tombs < n)
      /\ Leads(h.keys, n, b, 0 .. m - 1)
  BY DEF Sound, Headers, Indexing, Dense
<1>2. DOMAIN b = 0 .. n - 1 /\ \A i \in 0 .. m - 1 : \E s \in 0 .. n - 1 : b[s] = i
  BY <1>1 DEF Leads
<1>3. h.tombs = Cardinality({s \in DOMAIN b : b[s] = TOMB})
  BY <1>1, <1>2 DEF Tombs
<1>4. n = 0 => m = 0
  <2>1. m # 0 => 0 \in 0 .. m - 1
    BY <1>1
  <2>. QED
    BY <1>2, <2>1
<1>5. n > 0 => \E s \in 0 .. n - 1 : b[s] = EMPTY
  <2> SUFFICES ASSUME n > 0 PROVE \E s \in 0 .. n - 1 : b[s] = EMPTY
    OBVIOUS
  <2>1. n \in Nat \ {0} /\ m \in Nat /\ m + Cardinality(Tombs(n, b)) < n
    BY <1>1
  <2>. HIDE DEF n, m, b
  <2>. QED
    BY <1>1, <2>1, EmptyBucket
<1>. QED
  BY <1>1, <1>2, <1>3, <1>4, <1>5 DEF IndexShape

\* An index always has an EMPTY bucket for a search to end at, a bucket for each
\* live entry, and its tombstones counted.
THEOREM IndexIsSoundAlways ==
  ASSUME Odd = {}
  PROVE  Spec => []IndexIsSound
<1>1. IInv => IndexIsSound
  BY SoundIndex DEF IInv, IndexIsSound
<1>. QED
  BY <1>1, Invariance, PTL

LEMMA SoundPositions ==
  ASSUME Odd = {}, NEW h, Sound(h), NEW k \in Key
  PROVE  LET at == {i \in 1 .. h.len : Same(h.keys[i], k)}
         IN  IF at = {} THEN IndexOf(h, k) = -1 ELSE at = {IndexOf(h, k) + 1}
<1> DEFINE at == {i \in 1 .. h.len : Same(h.keys[i], k)}
<1>1. CASE Absent(h, k)
  <2>1. at = {} /\ IndexOf(h, k) = -1
    BY <1>1 DEF Absent, Same, IndexOf
  <2>. QED
    BY <2>1
<1>2. CASE \E s, j : Present(h, k, s, j)
  <2>1. PICK s, j : Present(h, k, s, j)
    BY <1>2
  <2>2. h.len \in Nat
    BY HeaderTypes
  <2>3. j + 1 \in 1 .. h.len /\ h.keys[j + 1] = k
    BY <2>1, <2>2 DEF Present, Dense
  <2>4. IndexOf(h, k) = j
    BY <2>1 DEF Present, FoundAt, IndexOf
  <2>5. j + 1 \in at /\ \A i \in at : i = j + 1
    BY <2>3, OneCell DEF Same
  <2>. QED
    BY <2>4, <2>5
<1>. QED
  BY <1>1, <1>2, LookedUp

\* index_of is the place of the key among the live keys, or -1 if it is not there.
THEOREM IndexOfIsPositionAlways ==
  ASSUME Odd = {}
  PROVE  Spec => []IndexOfIsPosition
<1>1. IInv => IndexOfIsPosition
  BY SoundPositions DEF IInv, IndexOfIsPosition
<1>. QED
  BY <1>1, Invariance, PTL

(***************************************************************************)
(* Refinement: the entries in dense order are ScanMap's.                   *)
(***************************************************************************)
EntriesOf(h, kd) == IF kd = "map" THEN Pairs(h) ELSE Items(h)

LEMMA EntriesFacts ==
  ASSUME NEW o \in Obj
  PROVE  /\ Entries(o) = EntriesOf(store[o], kind[o])
         /\ Entries(o)' = EntriesOf(store'[o], kind'[o])
BY DEF Entries, EntriesOf, Pairs, Items

\* One header replaced is one collection's entries replaced.
LEMMA EntriesStep ==
  ASSUME IInv, UNCHANGED kind, NEW p \in Obj, NEW g, store' = [store EXCEPT ![p] = g]
  PROVE  [o \in Obj |-> Entries(o)]'
         = [[o \in Obj |-> Entries(o)] EXCEPT ![p] = EntriesOf(g, kind[p])]
<1> DEFINE M == [o \in Obj |-> Entries(o)]
           N == [o \in Obj |-> EntriesOf(store'[o], kind'[o])]
<1>1. M' = N /\ M = [o \in Obj |-> EntriesOf(store[o], kind[o])]
  BY EntriesFacts
<1>2. \A o \in Obj : store'[o] = IF o = p THEN g ELSE store[o]
  BY DEF IInv
<1>3. \A o \in Obj : N[o] = IF o = p THEN EntriesOf(g, kind[p]) ELSE M[o]
  BY <1>1, <1>2
<1>4. DOMAIN N = Obj /\ DOMAIN M = Obj /\ N = [o \in Obj |-> N[o]]
      /\ M = [o \in Obj |-> M[o]]
  BY <1>1
<1>5. N = [M EXCEPT ![p] = EntriesOf(g, kind[p])]
  <2>. HIDE DEF N, M
  <2>. QED
    BY <1>3, <1>4
<1>. QED
  BY <1>1, <1>5

\* A key is at one place of the entries, or at none.
LEMMA AtFacts ==
  ASSUME Odd = {}, NEW h, Sound(h), NEW k, NEW e, DOMAIN e = 1 .. h.len,
         \A i \in 1 .. h.len : e[i][1] = h.keys[i]
  PROVE  /\ Absent(h, k) => Scan!At(e, k) = {}
         /\ \A s, j : Present(h, k, s, j) => Scan!At(e, k) = {j + 1}
<1>1. Scan!At(e, k) = {i \in 1 .. h.len : h.keys[i] = k}
  BY DEF Scan!At
<1>2. ASSUME NEW s, NEW j, Present(h, k, s, j)
      PROVE  {i \in 1 .. h.len : h.keys[i] = k} = {j + 1}
  <2>1. h.len \in Nat
    BY HeaderTypes
  <2>2. j + 1 \in 1 .. h.len /\ h.keys[j + 1] = k
    BY <1>2, <2>1 DEF Present, Dense
  <2>. QED
    BY <2>2, OneCell
<1>. QED
  BY <1>1, <1>2 DEF Absent

LEMMA PairsAt ==
  ASSUME Odd = {}, NEW h, Sound(h), NEW k
  PROVE  /\ Absent(h, k) => Scan!At(Pairs(h), k) = {} /\ Scan!At(Items(h), k) = {}
         /\ \A s, j : Present(h, k, s, j) =>
               Scan!At(Pairs(h), k) = {j + 1} /\ Scan!At(Items(h), k) = {j + 1}
<1>1. /\ DOMAIN Pairs(h) = 1 .. h.len /\ DOMAIN Items(h) = 1 .. h.len
      /\ \A i \in 1 .. h.len : Pairs(h)[i][1] = h.keys[i] /\ Items(h)[i][1] = h.keys[i]
  BY DEF Pairs, Items
<1>. HIDE DEF Pairs, Items
<1>2. /\ Absent(h, k) => Scan!At(Pairs(h), k) = {}
      /\ \A s, j : Present(h, k, s, j) => Scan!At(Pairs(h), k) = {j + 1}
  <2> DEFINE e == Pairs(h)
  <2>1. DOMAIN e = 1 .. h.len /\ \A i \in 1 .. h.len : e[i][1] = h.keys[i]
    BY <1>1
  <2>. HIDE DEF e
  <2>2. /\ Absent(h, k) => Scan!At(e, k) = {}
        /\ \A s, j : Present(h, k, s, j) => Scan!At(e, k) = {j + 1}
    BY <2>1, AtFacts
  <2>. QED
    BY <2>2 DEF e
<1>3. /\ Absent(h, k) => Scan!At(Items(h), k) = {}
      /\ \A s, j : Present(h, k, s, j) => Scan!At(Items(h), k) = {j + 1}
  <2> DEFINE e == Items(h)
  <2>1. DOMAIN e = 1 .. h.len /\ \A i \in 1 .. h.len : e[i][1] = h.keys[i]
    BY <1>1
  <2>. HIDE DEF e
  <2>2. /\ Absent(h, k) => Scan!At(e, k) = {}
        /\ \A s, j : Present(h, k, s, j) => Scan!At(e, k) = {j + 1}
    BY <2>1, AtFacts
  <2>. QED
    BY <2>2 DEF e
<1>. QED
  BY <1>2, <1>3

LEMMA PairsShape ==
  ASSUME NEW h, Sound(h)
  PROVE  /\ Len(Pairs(h)) = h.len /\ DOMAIN Pairs(h) = 1 .. h.len
         /\ Len(Items(h)) = h.len /\ DOMAIN Items(h) = 1 .. h.len
<1>1. h.len \in Nat
  BY HeaderTypes
<1>2. /\ DOMAIN Pairs(h) = 1 .. h.len /\ Pairs(h) = [i \in 1 .. h.len |-> Pairs(h)[i]]
      /\ DOMAIN Items(h) = 1 .. h.len /\ Items(h) = [i \in 1 .. h.len |-> Items(h)[i]]
  BY DEF Pairs, Items
<1>3. Len(Pairs(h)) = h.len
  BY <1>1, <1>2, CellsOf
<1>4. Len(Items(h)) = h.len
  BY <1>1, <1>2, CellsOf
<1>. QED
  BY <1>2, <1>3, <1>4

\* put is ScanMap's Put.
LEMMA PutRefines ==
  ASSUME Odd = {}, IInv, UNCHANGED kind, NEW o \in Obj, kind[o] = "map",
         NEW k \in Key, NEW v \in Value, Roomy(o, k),
         store' = [store EXCEPT ![o] = Put(store[o], k, v)]
  PROVE  Scan!Put(o, k, v)
<1> DEFINE M == [x \in Obj |-> Entries(x)]
           h == store[o]
           e == Pairs(h)
           g == Put(h, k, v)
<1>1. MapHeader(h) /\ Sound(h)
  BY DEF IInv
<1>2. M[o] = e
  BY EntriesFacts DEF EntriesOf
<1>3. M' = [M EXCEPT ![o] = Pairs(g)]
  BY EntriesStep DEF EntriesOf
<1>4. Len(e) = h.len /\ DOMAIN e = 1 .. h.len
  BY <1>1, PairsShape
<1>. HIDE DEF M, h, e, g
<1>5. CASE Absent(h, k)
  <2>1. Scan!At(M[o], k) = {}
    BY <1>1, <1>2, <1>5, PairsAt DEF e
  <2>2. Pairs(g) = Append(M[o], <<k, v>>)
    BY <1>1, <1>2, <1>5, PutNew DEF e, g
  <2>3. Len(M[o]) < MaxLen
    BY <1>2, <1>4, <1>5 DEF Roomy, Absent, h
  <2>. QED
    BY <1>3, <2>1, <2>2, <2>3 DEF Scan!Put, Scan!Entered, M
<1>6. CASE \E s, j : Present(h, k, s, j)
  <2>1. PICK s, j : Present(h, k, s, j)
    BY <1>6
  <2>2. Scan!At(M[o], k) = {j + 1}
    BY <1>1, <1>2, <2>1, PairsAt DEF e
  <2>3. Pairs(g) = [i \in DOMAIN M[o] |->
                       IF i \in Scan!At(M[o], k) THEN <<k, v>> ELSE M[o][i]]
    <3>1. Pairs(g) = [i \in 1 .. h.len |-> IF i = j + 1 THEN <<k, v>> ELSE e[i]]
      BY <1>1, <2>1, PutAgain DEF e, g
    <3>. QED
      BY <1>2, <1>4, <2>2, <3>1
  <2>. QED
    BY <1>3, <2>2, <2>3 DEF Scan!Put, M
<1>. QED
  BY <1>1, <1>5, <1>6, LookedUp DEF h

\* add is ScanMap's Add, or changes nothing.
LEMMA AddRefines ==
  ASSUME Odd = {}, IInv, UNCHANGED kind, NEW o \in Obj, kind[o] = "set",
         NEW k \in Key, Roomy(o, k), store' = [store EXCEPT ![o] = Add(store[o], k)]
  PROVE  Scan!Add(o, k) \/ UNCHANGED <<kind, [x \in Obj |-> Entries(x)]>>
<1> DEFINE M == [x \in Obj |-> Entries(x)]
           h == store[o]
           e == Items(h)
           g == Add(h, k)
<1>1. Sound(h)
  BY DEF IInv
<1>2. M[o] = e
  BY EntriesFacts DEF EntriesOf
<1>3. M' = [M EXCEPT ![o] = Items(g)]
  BY EntriesStep DEF EntriesOf
<1>4. Len(e) = h.len
  BY <1>1, PairsShape
<1>5. M = [x \in Obj |-> M[x]]
  OBVIOUS
<1>. HIDE DEF M, h, e, g
<1>6. CASE Absent(h, k)
  <2>1. Scan!At(M[o], k) = {}
    BY <1>1, <1>2, <1>6, PairsAt DEF e
  <2>2. Items(g) = Append(M[o], <<k>>)
    BY <1>1, <1>2, <1>6, AddNew DEF e, g, Add, Absent
  <2>3. Len(M[o]) < MaxLen
    BY <1>2, <1>4, <1>6 DEF Roomy, Absent, h
  <2>. QED
    BY <1>3, <2>1, <2>2, <2>3 DEF Scan!Add, Scan!Entered, M
<1>7. CASE \E s, j : Present(h, k, s, j)
  <2>1. g = h
    BY <1>7 DEF Present, FoundAt, Add, g
  <2>2. M' = M
    BY <1>2, <1>3, <1>5, <2>1 DEF e
  <2>. QED
    BY <2>2 DEF M
<1>. QED
  BY <1>1, <1>6, <1>7, LookedUp DEF h

\* remove, of a map or of a set, is ScanMap's Remove, or changes nothing.
LEMMA RemoveRefines ==
  ASSUME Odd = {}, IInv, UNCHANGED kind, NEW o \in Obj, NEW k \in Key, NEW g,
         store' = [store EXCEPT ![o] = g],
         \/ kind[o] = "map" /\ g = Remove(store[o], k)
         \/ kind[o] = "set" /\ g = Discard(store[o], k)
  PROVE  Scan!Remove(o, k) \/ UNCHANGED <<kind, [x \in Obj |-> Entries(x)]>>
<1> DEFINE M == [x \in Obj |-> Entries(x)]
           h == store[o]
           e == EntriesOf(h, kind[o])
           d == EntriesOf(g, kind[o])
<1>1. Sound(h) /\ (kind[o] = "map" => MapHeader(h))
  BY DEF IInv
<1>2. M[o] = e
  BY EntriesFacts
<1>3. M' = [M EXCEPT ![o] = d]
  BY EntriesStep
<1>4. M = [x \in Obj |-> M[x]]
  OBVIOUS
<1>. HIDE DEF M, h
<1>5. Len(e) = h.len
  BY <1>1, PairsShape DEF EntriesOf
<1>6. CASE Absent(h, k)
  <2>1. g = h
    BY <1>6 DEF Absent, Remove, Discard, h
  <2>2. M' = M
    BY <1>2, <1>3, <1>4, <2>1
  <2>. QED
    BY <2>2 DEF M
<1>7. CASE \E s, j : Present(h, k, s, j)
  <2>1. PICK s, j : Present(h, k, s, j)
    BY <1>7
  <2>2. Scan!At(e, k) = {j + 1}
    BY <1>1, <2>1, PairsAt DEF EntriesOf
  <2>3. d = [i \in 1 .. h.len - 1 |-> IF i = j + 1 THEN e[h.len] ELSE e[i]]
    <3>1. CASE kind[o] = "map" /\ g = Remove(h, k)
      BY <1>1, <2>1, <3>1, RemovedFacts DEF EntriesOf
    <3>2. CASE kind[o] = "set" /\ g = Discard(h, k)
      BY <1>1, <2>1, <3>2, DiscardedFacts DEF EntriesOf
    <3>. QED
      BY <3>1, <3>2 DEF h
  <2>. HIDE DEF e, d
  <2>4. j + 1 \in Scan!At(M[o], k)
    BY <1>2, <2>2
  <2>5. M' = [M EXCEPT ![o] = [i \in 1 .. Len(M[o]) - 1 |->
                                  IF i = j + 1 THEN M[o][Len(M[o])] ELSE M[o][i]]]
    BY <1>2, <1>3, <1>5, <2>3
  <2>. QED
    BY <2>4, <2>5 DEF Scan!Remove, M
<1>. QED
  BY <1>1, <1>6, <1>7, LookedUp DEF h

\* copy is ScanMap's Copy.
LEMMA CopyRefines ==
  ASSUME Odd = {}, IInv, UNCHANGED kind, NEW o \in Obj, NEW p \in Obj, NEW g,
         kind[p] = kind[o], store' = [store EXCEPT ![p] = g],
         \/ kind[o] = "map" /\ g = Copied(store[o])
         \/ kind[o] = "set" /\ g = SetCopied(store[o])
  PROVE  Scan!Copy(o, p)
<1> DEFINE M == [x \in Obj |-> Entries(x)]
           h == store[o]
<1>1. Sound(h) /\ (kind[o] = "map" => MapHeader(h))
  BY DEF IInv
<1>2. M[o] = EntriesOf(h, kind[o])
  BY EntriesFacts
<1>3. M' = [M EXCEPT ![p] = EntriesOf(g, kind[o])]
  BY EntriesStep
<1>4. EntriesOf(g, kind[o]) = EntriesOf(h, kind[o])
  <2>1. CASE kind[o] = "map" /\ g = Copied(h)
    BY <1>1, <2>1, CopiedFacts DEF EntriesOf
  <2>2. CASE kind[o] = "set" /\ g = SetCopied(h)
    BY <1>1, <2>2, SetCopiedFacts DEF EntriesOf
  <2>. QED
    BY <2>1, <2>2
<1>. HIDE DEF M
<1>5. M' = [M EXCEPT ![p] = M[o]]
  BY <1>2, <1>3, <1>4
<1>. QED
  BY <1>5 DEF Scan!Copy, M

LEMMA StepRefines ==
  ASSUME Odd = {}, IInv, [Next]_vars
  PROVE  [Scan!Next]_<<kind, [o \in Obj |-> Entries(o)]>>
<1> DEFINE same == UNCHANGED <<kind, [x \in Obj |-> Entries(x)]>>
<1>1. CASE UNCHANGED vars
  BY <1>1 DEF vars, Entries
<1>2. CASE MapCalls /\ UNCHANGED kind
  <2>1. PICK o \in Obj :
          /\ kind[o] = "map"
          /\ \/ \E k \in Key, v \in Value :
                   Roomy(o, k) /\ store' = [store EXCEPT ![o] = Put(@, k, v)]
             \/ \E k \in Key : store' = [store EXCEPT ![o] = Remove(@, k)]
             \/ \E p \in Obj :
                   kind[p] = "map" /\ store' = [store EXCEPT ![p] = Copied(store[o])]
    BY <1>2 DEF MapCalls
  <2>2. store \in [Obj -> Headers]
    BY DEF IInv
  <2>3. CASE \E k \in Key, v \in Value :
                Roomy(o, k) /\ store' = [store EXCEPT ![o] = Put(@, k, v)]
    <3>1. PICK k \in Key, v \in Value :
            Roomy(o, k) /\ store' = [store EXCEPT ![o] = Put(store[o], k, v)]
      BY <2>2, <2>3
    <3>2. Scan!Put(o, k, v)
      BY <1>2, <2>1, <3>1, PutRefines
    <3>. QED
      BY <1>2, <3>2 DEF Scan!Next
  <2>4. CASE \E k \in Key : store' = [store EXCEPT ![o] = Remove(@, k)]
    <3>1. PICK k \in Key : store' = [store EXCEPT ![o] = Remove(store[o], k)]
      BY <2>2, <2>4
    <3>2. Scan!Remove(o, k) \/ same
      BY <1>2, <2>1, <3>1, RemoveRefines
    <3>. QED
      BY <1>2, <3>2 DEF Scan!Next
  <2>5. CASE \E p \in Obj :
                kind[p] = "map" /\ store' = [store EXCEPT ![p] = Copied(store[o])]
    <3>1. PICK p \in Obj :
            kind[p] = "map" /\ store' = [store EXCEPT ![p] = Copied(store[o])]
      BY <2>5
    <3>2. Scan!Copy(o, p)
      BY <1>2, <2>1, <3>1, CopyRefines
    <3>. QED
      BY <1>2, <3>2 DEF Scan!Next
  <2>. QED
    BY <2>1, <2>3, <2>4, <2>5
<1>3. CASE SetCalls /\ UNCHANGED kind
  <2>1. PICK o \in Obj :
          /\ kind[o] = "set"
          /\ \/ \E k \in Key : Roomy(o, k) /\ store' = [store EXCEPT ![o] = Add(@, k)]
             \/ \E k \in Key : store' = [store EXCEPT ![o] = Discard(@, k)]
             \/ \E p \in Obj :
                   kind[p] = "set" /\ store' = [store EXCEPT ![p] = SetCopied(store[o])]
    BY <1>3 DEF SetCalls
  <2>2. store \in [Obj -> Headers]
    BY DEF IInv
  <2>3. CASE \E k \in Key : Roomy(o, k) /\ store' = [store EXCEPT ![o] = Add(@, k)]
    <3>1. PICK k \in Key : Roomy(o, k) /\ store' = [store EXCEPT ![o] = Add(store[o], k)]
      BY <2>2, <2>3
    <3>2. Scan!Add(o, k) \/ same
      BY <1>3, <2>1, <3>1, AddRefines
    <3>. QED
      BY <1>3, <3>2 DEF Scan!Next
  <2>4. CASE \E k \in Key : store' = [store EXCEPT ![o] = Discard(@, k)]
    <3>1. PICK k \in Key : store' = [store EXCEPT ![o] = Discard(store[o], k)]
      BY <2>2, <2>4
    <3>2. Scan!Remove(o, k) \/ same
      BY <1>3, <2>1, <3>1, RemoveRefines
    <3>. QED
      BY <1>3, <3>2 DEF Scan!Next
  <2>5. CASE \E p \in Obj :
                kind[p] = "set" /\ store' = [store EXCEPT ![p] = SetCopied(store[o])]
    <3>1. PICK p \in Obj :
            kind[p] = "set" /\ store' = [store EXCEPT ![p] = SetCopied(store[o])]
      BY <2>5
    <3>2. Scan!Copy(o, p)
      BY <1>3, <2>1, <3>1, CopyRefines
    <3>. QED
      BY <1>3, <3>2 DEF Scan!Next
  <2>. QED
    BY <2>1, <2>3, <2>4, <2>5
<1>. QED
  BY <1>1, <1>2, <1>3 DEF Next

LEMMA InitRefines ==
  ASSUME Init
  PROVE  Scan!Init
<1>1. \A o \in Obj : Entries(o) = <<>>
  BY EntriesFacts, NewFacts DEF Init, EntriesOf
<1>. QED
  BY <1>1 DEF Init, Scan!Init

\* The index is purely an accelerator: what a program reads of its maps and sets
\* is what scanning their entries for an equal key would have given.
THEOREM IsAcceleratorAlways ==
  ASSUME Odd = {}
  PROVE  Spec => IsAccelerator
<1>1. Init => Scan!Init
  BY InitRefines
<1>2. IInv /\ [Next]_vars => [Scan!Next]_<<kind, [o \in Obj |-> Entries(o)]>>
  BY StepRefines
<1>. QED
  BY <1>1, <1>2, Invariance, PTL DEF Spec, IsAccelerator, Scan!Spec

=============================================================================
