--------------------------- MODULE GcTable_proofs ---------------------------
(***************************************************************************)
(* For every set of addresses, sizes, hash and thresholds: the collector's *)
(* table tells the truth about every address, g_pidx keeps its shape, the  *)
(* heap stays within its bound, and the table with its pins implements the *)
(* block map of BlockMap.                                                  *)
(***************************************************************************)
EXTENDS GcTable, FiniteSetTheorems, SequenceTheorems, WellFoundedInduction, TLAPS

\* A set of naturals has a least element.
LEMMA Least ==
  ASSUME NEW T \in SUBSET Nat, T # {}
  PROVE  \E x \in T : \A y \in T : x <= y
<1> DEFINE R == OpToRel(<, Nat)
<1>1. IsWellFoundedOn(R, Nat)
  BY NatLessThanWellFounded
<1>2. \A x, y \in Nat : y < x => <<y, x>> \in R
  BY DEF OpToRel
<1>. HIDE DEF R
<1>3. \E x \in T : \A y \in T : ~(<<y, x>> \in R)
  BY <1>1, WFMin
<1>4. PICK x \in T : \A y \in T : ~(<<y, x>> \in R)
  BY <1>3
<1>5. ASSUME NEW y \in T PROVE x <= y
  <2>1. x \in Nat /\ y \in Nat
    OBVIOUS
  <2>2. ~(y < x)
    BY <1>2, <1>4, <2>1
  <2>. QED
    BY <2>1, <2>2
<1>. QED
  BY <1>5

\* Induction over the naturals, for a set.
LEMMA Upwards ==
  ASSUME NEW T \in SUBSET Nat, 0 \in T, \A n \in T : n + 1 \in T
  PROVE  \A n \in Nat : n \in T
<1> SUFFICES ASSUME Nat \ T # {} PROVE FALSE
  OBVIOUS
<1>1. PICK x \in Nat \ T : \A y \in Nat \ T : x <= y
  BY Least
<1>2. x # 0 /\ x - 1 \in Nat
  BY <1>1
<1>3. x - 1 \in T
  BY <1>1, <1>2
<1>. QED
  BY <1>1, <1>2, <1>3

\* A function on 0 .. n that begins with base and goes on by step.
Iterates(f, n, S, base, step) ==
    /\ f \in [0 .. n -> S]
    /\ f[0] = base /\ \A i \in 1 .. n : f[i] = step[i][f[i - 1]]

LEMMA Iteration ==
  ASSUME NEW n \in Nat, NEW S, NEW base \in S, NEW step \in [1 .. n -> [S -> S]]
  PROVE  \E f : Iterates(f, n, S, base, step)
<1> DEFINE Good(m, f) == /\ f \in [0 .. m -> S] /\ f[0] = base
                         /\ \A i \in 1 .. m : f[i] = step[i][f[i - 1]]
           T == {m \in Nat : m <= n => \E f \in [0 .. m -> S] : Good(m, f)}
<1>1. 0 \in T
  <2> DEFINE f == [i \in 0 .. 0 |-> base]
  <2>1. f \in [0 .. 0 -> S] /\ f[0] = base
    OBVIOUS
  <2>2. Good(0, f)
    BY <2>1
  <2>. HIDE DEF f
  <2>. QED
    BY <2>1, <2>2
<1>2. ASSUME NEW m \in T PROVE m + 1 \in T
  <2> SUFFICES ASSUME m + 1 <= n PROVE \E f \in [0 .. m + 1 -> S] : Good(m + 1, f)
    OBVIOUS
  <2>1. PICK g \in [0 .. m -> S] : Good(m, g)
    OBVIOUS
  <2> DEFINE x == step[m + 1][g[m]]
             f == [i \in 0 .. m + 1 |-> IF i = m + 1 THEN x ELSE g[i]]
  <2>2. m \in 0 .. m /\ m + 1 \in 1 .. n
    OBVIOUS
  <2>3. x \in S
    BY <2>2
  <2>. HIDE DEF x
  <2>4. f \in [0 .. m + 1 -> S] /\ f[m + 1] = x /\ \A i \in 0 .. m : f[i] = g[i]
    BY <2>3
  <2>. HIDE DEF f
  <2>5. f[0] = base
    BY <2>1, <2>4
  <2>6. ASSUME NEW i \in 1 .. m + 1 PROVE f[i] = step[i][f[i - 1]]
    <3>1. CASE i = m + 1
      BY <3>1, <2>2, <2>4 DEF x
    <3>2. CASE i # m + 1
      <4>1. i \in 1 .. m /\ i \in 0 .. m /\ i - 1 \in 0 .. m
        BY <3>2
      <4>. QED
        BY <4>1, <2>1, <2>4
    <3>. QED
      BY <3>1, <3>2
  <2>. QED
    BY <2>4, <2>5, <2>6
<1>3. n \in T
  <2>. HIDE DEF T
  <2>1. T \in SUBSET Nat
    BY DEF T
  <2>. QED
    BY <1>1, <1>2, <2>1, Upwards
<1>4. PICK f \in [0 .. n -> S] : Good(n, f)
  BY <1>3
<1>. QED
  BY <1>4 DEF Iterates

\* What holds at the beginning and from each place to the next holds to the end.
LEMMA Along ==
  ASSUME NEW n \in Nat, NEW T \in SUBSET Nat, 0 \in T,
         \A i \in 1 .. n : i - 1 \in T => i \in T
  PROVE  \A i \in 0 .. n : i \in T
<1> DEFINE U == {i \in Nat : i <= n => i \in T}
<1>1. 0 \in U
  OBVIOUS
<1>2. ASSUME NEW i \in U PROVE i + 1 \in U
  <2> SUFFICES ASSUME i + 1 <= n PROVE i + 1 \in T
    OBVIOUS
  <2>1. i + 1 \in 1 .. n /\ (i + 1) - 1 = i /\ i \in T
    OBVIOUS
  <2>. QED
    BY <2>1
<1>3. U \in SUBSET Nat
  OBVIOUS
<1>. HIDE DEF U
<1>4. \A i \in Nat : i \in U
  BY <1>1, <1>2, <1>3, Upwards
<1>. QED
  BY <1>4 DEF U

\* Remainders: among n consecutive numbers every remainder occurs.
LEMMA ModType ==
  ASSUME NEW a \in Int, NEW n \in Nat \ {0}
  PROVE  a % n \in 0 .. n - 1
OBVIOUS

LEMMA ModUnique ==
  ASSUME NEW n \in Nat \ {0}, NEW q \in Int, NEW r \in 0 .. n - 1
  PROVE  (n * q + r) % n = r
<1> DEFINE a == n * q + r
           p == a \div n
           t == a % n
<1>1. a \in Int /\ p \in Int /\ t \in 0 .. n - 1 /\ a = n * p + t
  OBVIOUS
<1>. HIDE DEF a, p, t
<1>2. \A d \in Nat \ {0} : n * d >= n
  OBVIOUS
<1>3. n * (q - p) = n * q - n * p /\ n * (p - q) = n * p - n * q
  BY <1>1
<1>4. n * q + r = n * p + t
  BY <1>1 DEF a
<1>5. CASE q - p >= 1
  <2>1. n * (q - p) >= n
    BY <1>1, <1>2, <1>5
  <2>. QED
    BY <1>1, <1>3, <1>4, <2>1
<1>6. CASE p - q >= 1
  <2>1. n * (p - q) >= n
    BY <1>1, <1>2, <1>6
  <2>. QED
    BY <1>1, <1>3, <1>4, <2>1
<1>7. CASE p = q
  BY <1>1, <1>4, <1>7 DEF a, t
<1>. QED
  BY <1>1, <1>5, <1>6, <1>7

LEMMA ModReach ==
  ASSUME NEW a \in Nat, NEW n \in Nat \ {0}, NEW s \in 0 .. n - 1
  PROVE  \E i \in 0 .. n - 1 : (a + i) % n = s
<1> DEFINE r == a % n
           p == a \div n
           i == IF s >= r THEN s - r ELSE s - r + n
           q == IF s >= r THEN p ELSE p + 1
<1>1. r \in 0 .. n - 1 /\ a = n * p + r /\ p \in Int
  OBVIOUS
<1>. HIDE DEF r, p
<1>2. i \in 0 .. n - 1 /\ q \in Int
  BY <1>1
<1>3. a + i = n * q + s
  <2>1. CASE s >= r
    BY <1>1, <2>1
  <2>2. CASE ~(s >= r)
    <3>1. n * (p + 1) = n * p + n
      BY <1>1
    <3>. QED
      BY <1>1, <2>2, <3>1
  <2>. QED
    BY <2>1, <2>2
<1>. HIDE DEF i, q
<1>4. (a + i) % n = s
  BY <1>2, <1>3, ModUnique
<1>. QED
  BY <1>2, <1>4

Earliest(I) == {i \in I : \A j \in I : i <= j}

\* The earliest of a set of steps.
LEMMA EarliestFacts ==
  ASSUME NEW I \in SUBSET Nat
  PROVE  /\ I = {} => Earliest(I) = {}
         /\ I # {} => \E e \in I : Earliest(I) = {e} /\ \A j \in I : e <= j
<1>1. CASE I = {}
  BY <1>1 DEF Earliest
<1>2. CASE I # {}
  <2>1. PICK e \in I : \A j \in I : e <= j
    BY <1>2, Least
  <2>2. Earliest(I) = {e}
    <3>1. e \in Earliest(I)
      BY <2>1 DEF Earliest
    <3>2. ASSUME NEW i \in Earliest(I) PROVE i = e
      <4>1. i \in Nat /\ e \in Nat /\ i <= e /\ e <= i
        BY <2>1 DEF Earliest
      <4>. QED
        BY <4>1
    <3>. QED
      BY <3>1, <3>2
  <2>. QED
    BY <1>2, <2>1, <2>2
<1>. QED
  BY <1>1, <1>2
(***************************************************************************)
(* g_pidx.                                                                 *)
(***************************************************************************)
Home(ix, a, i) == (Hash[a] + i) % ix.cap

Slots(ix) == 0 .. ix.cap - 1

Filled(ix) == {s \in Slots(ix) : ix.slot[s].key # Empty}

\* The probe sequence of a comes to slot s with no empty one before it.
Reaches(ix, a, s) ==
    \E d \in Slots(ix) :
        /\ Home(ix, a, d) = s
        /\ \A e \in Slots(ix) : e < d => ix.slot[Home(ix, a, e)].key # Empty

IsIndex(ix) ==
    /\ DOMAIN ix = {"cap", "used", "slot"}
    /\ ix.cap \in Nat
    /\ ix.slot \in [Slots(ix) -> [key : Nat, at : Nat]]
    /\ ix.used = Cardinality(Filled(ix))

Holds(ix, s, a, i) == ix.slot[s].key = a /\ ix.slot[s].at = i

OneEach(s) == \A i, j \in DOMAIN s : s[i].start = s[j].start => i = j

\* The pending entries with indices in D are found, and nothing else is.
Leads(ix, pending, D) ==
    /\ \A i \in D : \E s \in Slots(ix) :
          Holds(ix, s, pending[i].start, i) /\ Reaches(ix, pending[i].start, s)
    /\ \A s \in Slots(ix) :
          ix.slot[s].key \in {Empty, Deleted} \cup {pending[i].start : i \in D}
    /\ \A s, u \in Slots(ix) :
          ix.slot[s].key = ix.slot[u].key /\ ix.slot[s].key \notin {Empty, Deleted}
             => s = u

IndexOK(ix, pending) ==
    /\ IsIndex(ix) /\ Leads(ix, pending, DOMAIN pending)
    /\ IF ix.cap = 0 THEN pending = <<>> ELSE ix.used < ix.cap

(***************************************************************************)
(* The invariant.                                                          *)
(***************************************************************************)
Words(n) == IF n = 0 THEN 1 ELSE n

Entries == [start : Addr, size : Nat, dead : BOOLEAN]

\* d ends where e begins, or earlier.
Before(d, e) == d.start + Words(d.size) <= e.start

Ascending(s) == \A i, j \in DOMAIN s : i < j => Before(s[i], s[j])

DeadAt(s) == {i \in DOMAIN s : s[i].dead}

IsTable(t) ==
    /\ DOMAIN t = {"blocks", "dead", "pending", "index"}
    /\ t.blocks \in Seq(Entries) /\ t.pending \in Seq(Entries)

\* A dead entry keeps the words it had: the array was sorted with it.
TableOK(t) ==
    /\ IsTable(t)
    /\ Ascending(t.blocks) /\ t.dead = Cardinality(DeadAt(t.blocks))
    /\ OneEach(t.pending) /\ IndexOK(t.index, t.pending)

Live(t) == {t.blocks[i] : i \in DOMAIN t.blocks \ DeadAt(t.blocks)}

Waiting(t) == {t.pending[i] : i \in DOMAIN t.pending}

Registry(ch) == {Entry(a, ch[a].size) : a \in Starts(ch, "gc")}

\* Every block of the program is in one place of the table, and nothing else is.
Told(t, ch) ==
    Live(t) \cup Waiting(t) = Registry(ch) /\ Live(t) \cap Waiting(t) = {}

HeapOK(ch) ==
    /\ ch \in [Addr -> Chunk]
    /\ \A a, b \in Addr :
          ch[a].owner # "none" /\ ch[b].owner # "none" /\ a < b
             => a + Words(ch[a].size) <= b

\* Only a block with words is pinned, once in the list.
PinsOK(pn, ch) ==
    /\ pn \in Seq([start : Addr, count : Nat \ {0}])
    /\ OneEach(pn)
    /\ \A i \in DOMAIN pn :
          ch[pn[i].start].owner = "gc" /\ ch[pn[i].start].size # 0

GaugeOK(g, ch) ==
    /\ g \in [since : Nat, threshold : Nat, live : Nat]
    /\ g.since < g.threshold /\ Total(ch) <= g.live + g.since

IInv ==
    /\ HeapOK(chunk) /\ TableOK(table) /\ Told(table, chunk)
    /\ PinsOK(pins, chunk) /\ GaugeOK(gauge, chunk)

(***************************************************************************)
(* Lookups and changes of g_pidx.                                          *)
(***************************************************************************)
LEMMA HomeFacts ==
  ASSUME NEW ix, ix.cap \in Nat \ {0}, NEW a \in Addr
  PROVE  /\ \A i \in Slots(ix) : Home(ix, a, i) \in Slots(ix)
         /\ \A s \in Slots(ix) : \E i \in Slots(ix) : Home(ix, a, i) = s
<1>1. Hash[a] \in Nat
  BY HashAssumption
<1>2. ASSUME NEW i \in Slots(ix) PROVE Home(ix, a, i) \in Slots(ix)
  <2>1. Hash[a] + i \in Int
    BY <1>1 DEF Slots
  <2>. QED
    BY <2>1, ModType DEF Home, Slots
<1>3. ASSUME NEW s \in Slots(ix) PROVE \E i \in Slots(ix) : Home(ix, a, i) = s
  BY <1>1, ModReach DEF Home, Slots
<1>. QED
  BY <1>2, <1>3

\* Linear probing stops at the first slot with a key in K.
Stops(ix, a, K, e) ==
    /\ e \in Slots(ix) /\ Home(ix, a, e) \in Slots(ix)
    /\ Probe(ix, a, K) = {Home(ix, a, e)}
    /\ ix.slot[Home(ix, a, e)].key \in K
    /\ \A d \in Slots(ix) : d < e => ix.slot[Home(ix, a, d)].key \notin K

LEMMA ProbeFacts ==
  ASSUME NEW ix, ix.cap \in Nat \ {0}, NEW a \in Addr, NEW K,
         NEW s \in Slots(ix), ix.slot[s].key \in K
  PROVE  \E e : Stops(ix, a, K, e)
<1> DEFINE hits == {i \in Slots(ix) : ix.slot[Home(ix, a, i)].key \in K}
<1>1. hits \in SUBSET Nat /\ hits # {}
  BY HomeFacts DEF Slots
<1>2. PICK e \in hits : Earliest(hits) = {e} /\ \A j \in hits : e <= j
  <2>. HIDE DEF hits
  <2>. QED
    BY <1>1, EarliestFacts
<1>3. Probe(ix, a, K) = {Home(ix, a, i) : i \in Earliest(hits)}
  BY DEF Probe, Home, Slots, Earliest
<1>4. Probe(ix, a, K) = {Home(ix, a, e)}
  BY <1>2, <1>3
<1>5. \A d \in Slots(ix) : d < e => ix.slot[Home(ix, a, d)].key \notin K
  BY <1>2 DEF Slots
<1>. QED
  BY <1>2, <1>4, <1>5, HomeFacts DEF Stops

\* pidx_slot finds a key that is reached, in its slot.
LEMMA SlotFacts ==
  ASSUME NEW ix, ix.cap \in Nat \ {0}, NEW a \in Addr, NEW s \in Slots(ix),
         ix.slot[s].key = a, Reaches(ix, a, s),
         \A u \in Slots(ix) : ix.slot[u].key = a => u = s
  PROVE  Slot(ix, a) = {s}
<1>1. a # Empty
  BY AddrAssumption DEF Empty
<1>2. PICK e : Stops(ix, a, {Empty, a}, e)
  BY ProbeFacts
<1>3. PICK d \in Slots(ix) :
        /\ Home(ix, a, d) = s
        /\ \A c \in Slots(ix) : c < d => ix.slot[Home(ix, a, c)].key # Empty
  BY DEF Reaches
<1>4. ix.slot[Home(ix, a, e)].key = a
  <2>1. ~(d < e)
    BY <1>2, <1>3 DEF Stops
  <2>2. CASE e < d
    BY <1>2, <1>3, <2>2 DEF Stops
  <2>3. CASE e = d
    BY <1>3, <2>3
  <2>. QED
    BY <1>2, <1>3, <2>1, <2>2, <2>3 DEF Stops, Slots
<1>5. Home(ix, a, e) = s
  BY <1>2, <1>4 DEF Stops
<1>. QED
  BY <1>2, <1>5 DEF Slot, Stops

\* It finds nothing else.
LEMMA NoSlot ==
  ASSUME NEW ix, ix.cap \in Nat, NEW a \in Addr,
         \A s \in Slots(ix) : ix.slot[s].key # a
  PROVE  Slot(ix, a) = {}
<1>1. CASE ix.cap = 0
  BY <1>1 DEF Slot
<1>2. CASE ix.cap # 0
  <2>1. \A i \in Slots(ix) : Home(ix, a, i) \in Slots(ix)
    BY <1>2, HomeFacts
  <2>2. \A s \in Probe(ix, a, {Empty, a}) : s \in Slots(ix)
    BY <2>1 DEF Probe, Home, Slots
  <2>. QED
    BY <2>2 DEF Slot
<1>. QED
  BY <1>1, <1>2

\* find_exact_in_pending.
LEMMA PendingFacts ==
  ASSUME NEW t, IndexOK(t.index, t.pending), NEW a \in Addr,
         \A i \in DOMAIN t.pending : t.pending[i].start \in Addr,
         \A i, j \in DOMAIN t.pending :
            t.pending[i].start = t.pending[j].start => i = j
  PROVE  /\ FindExactInPending(t, a) = {i \in DOMAIN t.pending : t.pending[i].start = a}
         /\ \A i \in DOMAIN t.pending : t.pending[i].start = a =>
               \E s \in Slots(t.index) :
                  Slot(t.index, a) = {s} /\ Holds(t.index, s, a, i)
<1> DEFINE ix == t.index
           pd == t.pending
<1>1. ix.cap \in Nat /\ Leads(ix, pd, DOMAIN pd)
  BY DEF IndexOK, IsIndex
<1>2. a \notin {Empty, Deleted}
  BY AddrAssumption DEF Empty, Deleted
<1>3. ASSUME NEW i \in DOMAIN pd, pd[i].start = a
      PROVE  \E s \in Slots(ix) : Slot(ix, a) = {s} /\ Holds(ix, s, a, i)
  <2>1. PICK s \in Slots(ix) : Holds(ix, s, a, i) /\ Reaches(ix, a, s)
    BY <1>1, <1>3 DEF Leads
  <2>2. ix.cap \in Nat \ {0}
    BY <1>1 DEF Slots
  <2>3. \A u \in Slots(ix) : ix.slot[u].key = a => u = s
    BY <1>1, <1>2, <2>1 DEF Leads, Holds
  <2>. QED
    BY <2>1, <2>2, <2>3, SlotFacts DEF Holds
<1>4. ASSUME NEW i \in DOMAIN pd, pd[i].start = a
      PROVE  FindExactInPending(t, a) = {i}
  BY <1>3, <1>4 DEF FindExactInPending, Holds
<1>5. ASSUME \A i \in DOMAIN pd : pd[i].start # a
      PROVE  FindExactInPending(t, a) = {}
  <2>1. \A s \in Slots(ix) : ix.slot[s].key # a
    BY <1>1, <1>2, <1>5 DEF Leads
  <2>. QED
    BY <1>1, <2>1, NoSlot DEF FindExactInPending
<1>. QED
  BY <1>3, <1>4, <1>5

\* An index below its capacity has an empty slot.
LEMMA EmptySlot ==
  ASSUME NEW ix, IsIndex(ix), ix.used < ix.cap
  PROVE  \E s \in Slots(ix) : ix.slot[s].key = Empty
<1> SUFFICES ASSUME \A s \in Slots(ix) : ix.slot[s].key # Empty PROVE FALSE
  OBVIOUS
<1>1. Filled(ix) = 0 .. ix.cap - 1
  BY DEF Filled, Slots
<1>2. ix.cap \in Nat /\ ix.used = Cardinality(Filled(ix))
  BY DEF IsIndex
<1>3. ix.cap \in Nat \ {0}
  <2>1. CASE ix.cap = 0
    <3>1. Filled(ix) = {}
      BY <1>1, <2>1
    <3>. QED
      BY <1>2, <2>1, <3>1, FS_EmptySet
  <2>. QED
    BY <1>2, <2>1
<1>4. Cardinality(0 .. ix.cap - 1) = ix.cap
  BY <1>3, FS_Interval
<1>. QED
  BY <1>1, <1>2, <1>4

\* g is ix after a was placed in slot s.
Placed(ix, g, a, j, s) ==
    /\ s \in Slots(ix) /\ ix.slot[s].key \in {Empty, Deleted} /\ Reaches(ix, a, s)
    /\ DOMAIN g = {"cap", "used", "slot"} /\ g.cap = ix.cap
    /\ g.used = ix.used + (IF ix.slot[s].key = Empty THEN 1 ELSE 0)
    /\ g.slot \in [Slots(ix) -> [key : Nat, at : Nat]]
    /\ Holds(g, s, a, j)
    /\ \A u \in Slots(ix) : u # s => g.slot[u] = ix.slot[u]

\* pidx_place.
LEMMA PlaceFacts ==
  ASSUME NEW ix, IsIndex(ix), ix.used < ix.cap, NEW a \in Addr, NEW j \in Nat
  PROVE  \E s : Placed(ix, Place(ix, a, j), a, j, s)
<1>1. /\ ix.cap \in Nat /\ ix.slot \in [Slots(ix) -> [key : Nat, at : Nat]]
      /\ DOMAIN ix = {"cap", "used", "slot"}
  BY DEF IsIndex
<1>2. PICK z \in Slots(ix) : ix.slot[z].key = Empty
  BY EmptySlot
<1>3. ix.cap \in Nat \ {0} /\ a \in Nat
  BY <1>1, <1>2, AddrAssumption DEF Slots
<1>4. PICK e : Stops(ix, a, {Empty, Deleted}, e)
  BY <1>2, <1>3, ProbeFacts
<1> DEFINE s == Home(ix, a, e)
           cell == [key |-> a, at |-> j]
           more == IF ix.slot[s].key = Empty THEN 1 ELSE 0
           g == [cap |-> ix.cap, used |-> ix.used + more,
                 slot |-> [ix.slot EXCEPT ![s] = cell]]
<1>5. s \in Slots(ix) /\ ix.slot[s].key \in {Empty, Deleted} /\ Probe(ix, a, {Empty, Deleted}) = {s}
  BY <1>4 DEF Stops
<1>6. Reaches(ix, a, s)
  BY <1>4 DEF Stops, Reaches
<1>. HIDE DEF s
<1>7. Place(ix, a, j) = g
  <2>1. (CHOOSE u \in Probe(ix, a, {Empty, Deleted}) : TRUE) = s
    BY <1>5
  <2>. QED
    BY <2>1 DEF Place
<1>8. g.cap = ix.cap /\ g.used = ix.used + more /\ g.slot = [ix.slot EXCEPT ![s] = cell]
      /\ DOMAIN g = {"cap", "used", "slot"}
  BY <1>1
<1>. HIDE DEF g
<1>9. g.slot \in [Slots(ix) -> [key : Nat, at : Nat]] /\ g.slot[s] = cell
      /\ \A u \in Slots(ix) : u # s => g.slot[u] = ix.slot[u]
  BY <1>1, <1>3, <1>5, <1>8
<1>10. Placed(ix, g, a, j, s)
  BY <1>5, <1>6, <1>8, <1>9 DEF Placed, Holds
<1>. QED
  BY <1>7, <1>10

\* A probe sequence is not broken by filling slots or deleting keys.
LEMMA ReachesStill ==
  ASSUME NEW ix, ix.cap \in Nat, NEW g, g.cap = ix.cap, NEW a \in Addr, NEW s,
         Reaches(ix, a, s),
         \A u \in Slots(ix) : g.slot[u].key = Empty => ix.slot[u].key = Empty
  PROVE  Reaches(g, a, s)
<1>1. PICK d \in Slots(ix) :
        /\ Home(ix, a, d) = s
        /\ \A e \in Slots(ix) : e < d => ix.slot[Home(ix, a, e)].key # Empty
  BY DEF Reaches
<1>2. ix.cap \in Nat \ {0}
  BY <1>1 DEF Slots
<1>3. \A e \in Slots(ix) : Home(ix, a, e) \in Slots(ix) /\ Home(g, a, e) = Home(ix, a, e)
  BY <1>2, HomeFacts DEF Home
<1>4. Slots(g) = Slots(ix)
  BY DEF Slots
<1>. QED
  BY <1>1, <1>3, <1>4 DEF Reaches

LEMMA FilledFinite ==
  ASSUME NEW ix, ix.cap \in Nat
  PROVE  IsFiniteSet(Filled(ix)) /\ IsFiniteSet(Slots(ix))
<1>1. IsFiniteSet(0 .. ix.cap - 1)
  BY FS_Interval
<1>. QED
  BY <1>1, FS_Subset DEF Filled, Slots

\* Placing a pending block that is not yet there.
LEMMA PlaceLeads ==
  ASSUME NEW ix, IsIndex(ix), NEW g, NEW pd, NEW D, Leads(ix, pd, D),
         NEW j \in Nat, j \notin D, pd[j].start \in Addr,
         \A i \in D : pd[i].start \in Addr /\ pd[i].start # pd[j].start,
         NEW s, Placed(ix, g, pd[j].start, j, s)
  PROVE  IsIndex(g) /\ Leads(g, pd, D \cup {j})
<1> DEFINE a == pd[j].start
<1>1. /\ ix.cap \in Nat /\ ix.slot \in [Slots(ix) -> [key : Nat, at : Nat]]
      /\ ix.used = Cardinality(Filled(ix))
  BY DEF IsIndex
<1>2. /\ s \in Slots(ix) /\ ix.slot[s].key \in {Empty, Deleted} /\ Reaches(ix, a, s)
      /\ Holds(g, s, a, j) /\ g.cap = ix.cap
      /\ \A u \in Slots(ix) : u # s => g.slot[u] = ix.slot[u]
      /\ g.slot \in [Slots(ix) -> [key : Nat, at : Nat]]
      /\ g.used = ix.used + (IF ix.slot[s].key = Empty THEN 1 ELSE 0)
      /\ DOMAIN g = {"cap", "used", "slot"}
  BY DEF Placed
<1>3. Slots(g) = Slots(ix) /\ a \notin {Empty, Deleted} /\ g.slot[s].key = a
  BY <1>2, AddrAssumption DEF Slots, Empty, Deleted, Holds
<1>4. \A u \in Slots(ix) : g.slot[u].key = Empty => ix.slot[u].key = Empty
  BY <1>2, <1>3
<1>5. IsIndex(g)
  <2>1. Filled(g) = Filled(ix) \cup {s}
    BY <1>2, <1>3 DEF Filled
  <2>2. IsFiniteSet(Filled(ix))
    BY <1>1, FilledFinite
  <2>3. Cardinality(Filled(g)) = ix.used + (IF ix.slot[s].key = Empty THEN 1 ELSE 0)
    <3>1. CASE ix.slot[s].key = Empty
      <4>1. s \notin Filled(ix)
        BY <3>1 DEF Filled
      <4>. QED
        BY <1>1, <2>1, <2>2, <3>1, <4>1, FS_AddElement
    <3>2. CASE ix.slot[s].key # Empty
      <4>1. Filled(g) = Filled(ix)
        BY <1>2, <2>1, <3>2 DEF Filled
      <4>2. Cardinality(Filled(ix)) \in Nat
        BY <2>2, FS_CardinalityType
      <4>. QED
        BY <1>1, <3>2, <4>1, <4>2
    <3>. QED
      BY <3>1, <3>2
  <2>. QED
    BY <1>1, <1>2, <1>3, <2>3 DEF IsIndex
<1>6. ASSUME NEW i \in D \cup {j}
      PROVE  \E u \in Slots(g) : Holds(g, u, pd[i].start, i) /\ Reaches(g, pd[i].start, u)
  <2>1. CASE i = j
    <3>1. Reaches(g, a, s)
      BY <1>1, <1>2, <1>4, ReachesStill
    <3>. QED
      BY <1>2, <1>3, <2>1, <3>1
  <2>2. CASE i \in D
    <3>1. PICK u \in Slots(ix) : Holds(ix, u, pd[i].start, i) /\ Reaches(ix, pd[i].start, u)
      BY <2>2 DEF Leads
    <3>2. u # s
      BY <1>2, <2>2, <3>1, AddrAssumption DEF Holds, Empty, Deleted
    <3>3. Reaches(g, pd[i].start, u)
      BY <1>1, <1>2, <1>4, <2>2, <3>1, ReachesStill
    <3>. QED
      BY <1>2, <1>3, <3>1, <3>2, <3>3 DEF Holds
  <2>. QED
    BY <2>1, <2>2
<1>7. \A u \in Slots(g) : g.slot[u].key \in {Empty, Deleted} \cup {pd[i].start : i \in D \cup {j}}
  BY <1>2, <1>3 DEF Leads
<1>8. ASSUME NEW u \in Slots(g), NEW v \in Slots(g), g.slot[u].key = g.slot[v].key,
             g.slot[u].key \notin {Empty, Deleted}
      PROVE  u = v
  <2>1. \A w \in Slots(ix) : w # s => g.slot[w].key # a
    BY <1>2, <1>3 DEF Leads
  <2>. QED
    BY <1>2, <1>3, <1>8, <2>1 DEF Leads
<1>9. Leads(g, pd, D \cup {j})
  BY <1>6, <1>7, <1>8 DEF Leads
<1>. QED
  BY <1>5, <1>9

\* A loop whose i-th pass leads from good[i - 1] to good[i] defines a function.
Guides(good, n, base, step) ==
    /\ base \in good[0]
    /\ \A i \in 1 .. n : \A x \in good[i - 1] : step[i][x] \in good[i]

LEMMA Loop ==
  ASSUME NEW n \in Nat, NEW good, NEW base, NEW step, Guides(good, n, base, step)
  PROVE  \E f : /\ f = [i \in 0 .. n |-> f[i]] /\ f[0] = base
                /\ \A i \in 1 .. n : f[i] = step[i][f[i - 1]]
                /\ \A i \in 0 .. n : f[i] \in good[i]
<1> DEFINE S == UNION {good[i] : i \in 0 .. n}
           passes == [i \in 1 .. n |->
                        [x \in S |-> IF x \in good[i - 1] THEN step[i][x] ELSE base]]
<1>1. base \in S /\ \A i \in 1 .. n : \A x \in S : passes[i][x] \in S
  <2>1. base \in S
    BY DEF Guides
  <2>2. ASSUME NEW i \in 1 .. n, NEW x \in good[i - 1] PROVE step[i][x] \in S
    <3>1. i \in 0 .. n /\ step[i][x] \in good[i]
      BY DEF Guides
    <3>. QED
      BY <3>1
  <2>. HIDE DEF S
  <2>. QED
    BY <2>1, <2>2
<1>. HIDE DEF S
<1>2. passes \in [1 .. n -> [S -> S]]
  BY <1>1
<1>3. PICK f : Iterates(f, n, S, base, passes)
  <2>. HIDE DEF passes
  <2>. QED
    BY <1>1, <1>2, Iteration
<1>4. f \in [0 .. n -> S] /\ f[0] = base /\ \A i \in 1 .. n : f[i] = passes[i][f[i - 1]]
  BY <1>3 DEF Iterates
<1>5. ASSUME NEW i \in 1 .. n, f[i - 1] \in good[i - 1]
      PROVE  f[i] = step[i][f[i - 1]] /\ f[i] \in good[i]
  <2>1. i - 1 \in 0 .. n
    OBVIOUS
  <2>2. f[i - 1] \in S
    BY <1>4, <2>1
  <2>. QED
    BY <1>4, <1>5, <2>2 DEF Guides
<1> DEFINE T == {i \in 0 .. n : f[i] \in good[i]}
<1>6. \A i \in 0 .. n : i \in T
  <2>1. 0 \in T
    BY <1>4 DEF Guides
  <2>2. \A i \in 1 .. n : i - 1 \in T => i \in T
    BY <1>5
  <2>3. T \in SUBSET Nat
    OBVIOUS
  <2>. HIDE DEF T
  <2>. QED
    BY <2>1, <2>2, <2>3, Along
<1>7. \A i \in 1 .. n : f[i] = step[i][f[i - 1]]
  <2>1. \A i \in 1 .. n : i - 1 \in 0 .. n
    OBVIOUS
  <2>. QED
    BY <1>5, <1>6, <2>1
<1>8. f = [i \in 0 .. n |-> f[i]]
  BY <1>4
<1>. QED
  BY <1>4, <1>6, <1>7, <1>8

\* What is good on the way is good at the end.
LEMMA LoopEnds ==
  ASSUME NEW n \in Nat, NEW good, NEW base, NEW step, Guides(good, n, base, step),
         NEW f, f[0] = base, \A i \in 1 .. n : f[i] = step[i][f[i - 1]]
  PROVE  \A i \in 0 .. n : f[i] \in good[i]
<1> DEFINE T == {i \in 0 .. n : f[i] \in good[i]}
<1>1. 0 \in T
  BY DEF Guides
<1>2. \A i \in 1 .. n : i - 1 \in T => i \in T
  BY DEF Guides
<1>3. T \in SUBSET Nat
  OBVIOUS
<1>. HIDE DEF T
<1>4. \A i \in 0 .. n : i \in T
  BY <1>1, <1>2, <1>3, Along
<1>. QED
  BY <1>4 DEF T

\* pidx_rebuild's capacity leaves an empty slot whatever Room is.
LEMMA CapacityFacts ==
  ASSUME NEW n \in Nat
  PROVE  Capacity(n) \in Nat /\ Capacity(n) > n
<1> DEFINE m == Room * (n + 1)
           good == [i \in 0 .. m |-> {x \in Nat : x >= i + 1}]
           step == [i \in 1 .. m |-> [x \in Nat |-> 2 * x]]
           R(f) == f = [k \in 0 .. m |-> IF k = 0 THEN MinCap ELSE 2 * f[k - 1]]
           p == CHOOSE f : R(f)
<1>1. m \in Nat /\ m >= n + 1 /\ (n + 1) * Room = m
  BY IndexAssumption
<1>2. Guides(good, m, MinCap, step)
  <2>1. MinCap \in good[0]
    BY IndexAssumption, <1>1
  <2>2. ASSUME NEW i \in 1 .. m, NEW x \in good[i - 1] PROVE step[i][x] \in good[i]
    <3>1. i - 1 \in 0 .. m /\ i \in 0 .. m /\ i \in Nat
      BY <1>1
    <3>2. x \in Nat /\ x >= (i - 1) + 1
      BY <3>1
    <3>. QED
      BY <3>1, <3>2
  <2>. QED
    BY <2>1, <2>2 DEF Guides
<1>. HIDE DEF m
<1>3. R(p)
  <2>. HIDE DEF good, step
  <2>1. PICK f : /\ f = [i \in 0 .. m |-> f[i]] /\ f[0] = MinCap
                 /\ \A i \in 1 .. m : f[i] = step[i][f[i - 1]]
                 /\ \A i \in 0 .. m : f[i] \in good[i]
    BY <1>1, <1>2, Loop
  <2>2. ASSUME NEW i \in 0 .. m, i # 0 PROVE f[i] = 2 * f[i - 1]
    <3>1. i \in 1 .. m /\ i - 1 \in 0 .. m
      BY <1>1, <2>2
    <3>2. f[i - 1] \in Nat
      BY <2>1, <3>1 DEF good
    <3>. QED
      BY <2>1, <3>1, <3>2 DEF step
  <2>3. f = [k \in 0 .. m |-> IF k = 0 THEN MinCap ELSE 2 * f[k - 1]]
    BY <2>1, <2>2
  <2>. QED
    BY <2>3
<1>. HIDE DEF p
<1>4. DOMAIN p = 0 .. m /\ p[0] = MinCap /\ \A i \in 1 .. m : p[i] = 2 * p[i - 1]
  <2>1. 0 \in 0 .. m /\ \A i \in 1 .. m : i \in 0 .. m /\ i # 0
    BY <1>1
  <2>. QED
    BY <1>3, <2>1
<1> DEFINE T == {i \in 0 .. m : p[i] \in Nat /\ p[i] >= i + 1}
<1>5. \A i \in 0 .. m : i \in T
  <2>1. 0 \in T
    BY <1>1, <1>4, IndexAssumption
  <2>2. \A i \in 1 .. m : i - 1 \in T => i \in T
    BY <1>1, <1>4
  <2>3. T \in SUBSET Nat
    BY <1>1
  <2>. HIDE DEF T
  <2>. QED
    BY <1>1, <2>1, <2>2, <2>3, Along
<1> DEFINE fits == {k \in DOMAIN p : p[k] >= (n + 1) * Room}
<1>6. m \in fits /\ fits \in SUBSET Nat
  BY <1>1, <1>4, <1>5
<1>7. Capacity(n) = p[CHOOSE k \in fits : \A j \in fits : k <= j]
  BY DEF Capacity, p, m
<1>8. (CHOOSE k \in fits : \A j \in fits : k <= j) \in fits
  <2>1. \E k \in fits : \A j \in fits : k <= j
    <3>. HIDE DEF fits
    <3>. QED
      BY <1>6, Least
  <2>. HIDE DEF fits
  <2>. QED
    BY <2>1
<1>9. ASSUME NEW k \in fits PROVE p[k] \in Nat /\ p[k] > n
  BY <1>1, <1>4, <1>5, <1>9
<1>. HIDE DEF fits
<1>. QED
  BY <1>7, <1>8, <1>9

LEMMA FreshFacts ==
  ASSUME NEW c \in Nat, NEW pd
  PROVE  LET g == FreshIndex(c)
         IN  /\ IsIndex(g) /\ g.cap = c /\ g.used = 0 /\ Leads(g, pd, {})
             /\ g.slot \in [0 .. c - 1 -> [key : Nat, at : Nat]]
<1> DEFINE g == FreshIndex(c)
<1>1. /\ DOMAIN g = {"cap", "used", "slot"} /\ g.cap = c /\ g.used = 0
      /\ g.slot = [s \in 0 .. c - 1 |-> [key |-> Empty, at |-> 0]]
  BY DEF FreshIndex
<1>. HIDE DEF g
<1>2. Slots(g) = 0 .. c - 1 /\ \A s \in Slots(g) : g.slot[s].key = Empty
  BY <1>1 DEF Slots
<1>3. g.slot \in [0 .. c - 1 -> [key : Nat, at : Nat]]
  BY <1>1 DEF Empty
<1>4. Cardinality(Filled(g)) = 0
  <2>1. Filled(g) = {}
    BY <1>2 DEF Filled
  <2>. QED
    BY <2>1, FS_EmptySet
<1>5. IsIndex(g)
  BY <1>1, <1>2, <1>3, <1>4 DEF IsIndex
<1>6. Leads(g, pd, {})
  BY <1>2 DEF Leads
<1>. QED
  BY <1>1, <1>3, <1>5, <1>6 DEF g

\* pidx_rebuild enters every pending block, with a slot to spare.
LEMMA RebuiltIndexOK ==
  ASSUME NEW pd, Len(pd) \in Nat, DOMAIN pd = 1 .. Len(pd), OneEach(pd),
         \A i \in DOMAIN pd : pd[i].start \in Addr
  PROVE  IndexOK(RebuiltIndex(pd), pd)
<1> DEFINE m == Len(pd)
           c == Capacity(m)
           F == [0 .. c - 1 -> [key : Nat, at : Nat]]
           Good(g, i) == /\ IsIndex(g) /\ g.cap = c /\ g.used <= i
                         /\ Leads(g, pd, 1 .. i)
           S == {[cap |-> c, used |-> u, slot |-> x] : u \in Nat, x \in F}
           good == [i \in 0 .. m |-> {g \in S : Good(g, i)}]
           step == [i \in 1 .. m |-> [g \in S |-> Place(g, pd[i].start, i)]]
           fresh == FreshIndex(c)
           R(f) == f = [i \in 0 .. m |->
                          IF i = 0 THEN fresh ELSE Place(f[i - 1], pd[i].start, i)]
           p == CHOOSE f : R(f)
<1>1. m \in Nat /\ c \in Nat /\ c > m
  BY CapacityFacts
<1>. HIDE DEF m, c
<1>2. ASSUME NEW i \in 1 .. m, NEW g, Good(g, i - 1)
      PROVE  Good(Place(g, pd[i].start, i), i) /\ Place(g, pd[i].start, i) \in S
  <2> DEFINE h == Place(g, pd[i].start, i)
  <2>1. /\ i \in Nat /\ i \in DOMAIN pd /\ pd[i].start \in Addr
        /\ i \notin 1 .. i - 1 /\ 1 .. i - 1 \subseteq DOMAIN pd
        /\ (1 .. i - 1) \cup {i} = 1 .. i
    BY <1>1 DEF m
  <2>2. g.used \in Nat /\ g.used < g.cap
    <3>1. g.used \in Nat
      <4>1. IsFiniteSet(Filled(g)) /\ g.used = Cardinality(Filled(g))
        BY <1>2, FilledFinite DEF IsIndex
      <4>. QED
        BY <4>1, FS_CardinalityType
    <3>. QED
      BY <1>1, <1>2, <2>1, <3>1
  <2>3. PICK s : Placed(g, h, pd[i].start, i, s)
    BY <1>2, <2>1, <2>2, PlaceFacts
  <2>4. h = [cap |-> g.cap, used |-> h.used, slot |-> h.slot]
    BY DEF Place
  <2>. HIDE DEF h
  <2>5. IsIndex(h) /\ Leads(h, pd, (1 .. i - 1) \cup {i})
    <3>1. \A j \in 1 .. i - 1 : pd[j].start \in Addr /\ pd[j].start # pd[i].start
      BY <2>1 DEF OneEach
    <3>. QED
      BY <1>2, <2>1, <2>3, <3>1, PlaceLeads
  <2>6. h.cap = c /\ h.used \in Nat /\ h.used <= i /\ h.slot \in F
    BY <1>2, <2>1, <2>2, <2>3 DEF Placed, Slots
  <2>7. Good(h, i)
    BY <2>1, <2>5, <2>6
  <2>8. h \in S
    BY <1>2, <2>4, <2>6
  <2>. HIDE DEF Good, S
  <2>. QED
    BY <2>7, <2>8 DEF h
<1>3. Good(fresh, 0) /\ fresh \in S
  <2>1. /\ IsIndex(fresh) /\ fresh.cap = c /\ fresh.used = 0 /\ Leads(fresh, pd, {})
        /\ fresh.slot \in F
    BY <1>1, FreshFacts
  <2>2. 1 .. 0 = {}
    OBVIOUS
  <2>3. fresh = [cap |-> c, used |-> 0, slot |-> fresh.slot]
    BY DEF FreshIndex
  <2>. HIDE DEF fresh
  <2>. QED
    BY <2>1, <2>2, <2>3
<1>. HIDE DEF fresh, S, Good
<1>4. Guides(good, m, fresh, step)
  <2>1. fresh \in good[0]
    BY <1>1, <1>3
  <2>2. ASSUME NEW i \in 1 .. m, NEW g \in good[i - 1] PROVE step[i][g] \in good[i]
    <3>1. i - 1 \in 0 .. m /\ i \in 0 .. m
      BY <1>1
    <3>2. g \in S /\ Good(g, i - 1)
      BY <3>1
    <3>3. step[i][g] = Place(g, pd[i].start, i)
      BY <3>2
    <3>. QED
      BY <1>2, <3>1, <3>2, <3>3
  <2>. QED
    BY <2>1, <2>2 DEF Guides
<1>5. R(p)
  <2>. HIDE DEF good, step
  <2>1. PICK f : /\ f = [i \in 0 .. m |-> f[i]] /\ f[0] = fresh
                 /\ \A i \in 1 .. m : f[i] = step[i][f[i - 1]]
                 /\ \A i \in 0 .. m : f[i] \in good[i]
    BY <1>1, <1>4, Loop
  <2>2. ASSUME NEW i \in 0 .. m, i # 0 PROVE f[i] = Place(f[i - 1], pd[i].start, i)
    <3>1. i \in 1 .. m /\ i - 1 \in 0 .. m
      BY <1>1, <2>2
    <3>2. f[i - 1] \in S
      BY <2>1, <3>1 DEF good
    <3>. QED
      BY <2>1, <3>1, <3>2 DEF step
  <2>3. R(f)
    BY <2>1, <2>2
  <2>. QED
    BY <2>3
<1>6. RebuiltIndex(pd) = p[m]
  BY DEF RebuiltIndex, m, c, fresh
<1>. HIDE DEF p
<1>7. p[0] = fresh /\ \A i \in 1 .. m : p[i] = Place(p[i - 1], pd[i].start, i)
  <2>1. 0 \in 0 .. m /\ \A i \in 1 .. m : i \in 0 .. m /\ i # 0
    BY <1>1
  <2>. QED
    BY <1>5, <2>1
<1> DEFINE T == {i \in 0 .. m : Good(p[i], i)}
<1>8. \A i \in 0 .. m : i \in T
  <2>1. 0 \in T
    BY <1>1, <1>3, <1>7
  <2>2. \A i \in 1 .. m : i - 1 \in T => i \in T
    BY <1>2, <1>7
  <2>3. T \in SUBSET Nat
    BY <1>1
  <2>. HIDE DEF T
  <2>. QED
    BY <1>1, <2>1, <2>2, <2>3, Along
<1>9. Good(p[m], m)
  BY <1>1, <1>8
<1>10. DOMAIN pd = 1 .. m
  BY DEF m
<1>. QED
  <2>1. p[m].used < p[m].cap /\ p[m].cap # 0
    <3>1. p[m].used \in Nat
      <4>1. IsFiniteSet(Filled(p[m])) /\ p[m].used = Cardinality(Filled(p[m]))
        BY <1>9, FilledFinite DEF IsIndex, Good
      <4>. QED
        BY <4>1, FS_CardinalityType
    <3>. QED
      BY <1>1, <1>9, <3>1 DEF Good
  <2>. QED
    BY <1>6, <1>9, <1>10, <2>1 DEF IndexOK, Good

\* A pending array that only grew leads to the same slots.
LEMMA LeadsSame ==
  ASSUME NEW ix, NEW pd, NEW qd, NEW D, Leads(ix, pd, D),
         \A i \in D : qd[i].start = pd[i].start
  PROVE  Leads(ix, qd, D)
BY DEF Leads

LEMMA UsedNat ==
  ASSUME NEW ix, IsIndex(ix)
  PROVE  ix.used \in Nat /\ ix.cap \in Nat
<1>1. ix.cap \in Nat /\ ix.used = Cardinality(Filled(ix))
  BY DEF IsIndex
<1>. QED
  BY <1>1, FilledFinite, FS_CardinalityType

\* pidx_insert_last, for the block just appended.
LEMMA IndexedOK ==
  ASSUME NEW ix, NEW pd, NEW n \in Nat \ {0}, DOMAIN pd = 1 .. n, Len(pd) = n, OneEach(pd),
         \A i \in DOMAIN pd : pd[i].start \in Addr,
         NEW qd, DOMAIN qd = 1 .. n - 1, IndexOK(ix, qd),
         \A i \in 1 .. n - 1 : qd[i] = pd[i]
  PROVE  IndexOK(Indexed(ix, pd), pd)
<1>1. IsIndex(ix) /\ ix.cap \in Nat /\ ix.used \in Nat /\ Leads(ix, qd, 1 .. n - 1)
  BY UsedNat DEF IndexOK
<1>2. CASE ix.cap = 0 \/ (ix.used + 1) * 10 > ix.cap * 7
  <2>1. IndexOK(RebuiltIndex(pd), pd)
    BY RebuiltIndexOK
  <2>. QED
    BY <1>2, <2>1 DEF Indexed
<1>3. CASE ~(ix.cap = 0 \/ (ix.used + 1) * 10 > ix.cap * 7)
  <2> DEFINE g == Place(ix, pd[n].start, n)
  <2>1. /\ n \in DOMAIN pd /\ pd[n].start \in Addr /\ n \notin 1 .. n - 1
        /\ (1 .. n - 1) \cup {n} = 1 .. n /\ 1 .. n - 1 \subseteq DOMAIN pd
    OBVIOUS
  <2>2. ix.used < ix.cap /\ ix.used + 1 < ix.cap
    BY <1>1, <1>3
  <2>3. PICK s : Placed(ix, g, pd[n].start, n, s)
    BY <1>1, <2>1, <2>2, PlaceFacts
  <2>4. Indexed(ix, pd) = g
    BY <1>3 DEF Indexed
  <2>. HIDE DEF g
  <2>5. Leads(ix, pd, 1 .. n - 1)
    BY <1>1, LeadsSame
  <2>6. IsIndex(g) /\ Leads(g, pd, (1 .. n - 1) \cup {n})
    <3>1. \A j \in 1 .. n - 1 : pd[j].start \in Addr /\ pd[j].start # pd[n].start
      BY <2>1 DEF OneEach
    <3>. QED
      BY <1>1, <2>1, <2>3, <2>5, <3>1, PlaceLeads
  <2>7. g.cap = ix.cap /\ g.used < g.cap
    BY <1>1, <2>2, <2>3 DEF Placed
  <2>. QED
    BY <1>3, <2>1, <2>4, <2>6, <2>7 DEF IndexOK
<1>. QED
  BY <1>2, <1>3

\* pending_remove: the i-th entry's key is deleted, the last one's gets index i.
Dropped(ix, i, pd) ==
    LET last == pd[Len(pd)]
        gone == Slot(ix, pd[i].start)
        moved == Slot(ix, last.start) \ gone
    IN  [s \in DOMAIN ix.slot |->
            CASE s \in gone  -> [key |-> Deleted, at |-> 0]
              [] s \in moved -> [key |-> last.start, at |-> i]
              [] OTHER       -> ix.slot[s]]

\* A slot found by pidx_slot.
SlotOf(ix, a, i, s) == s \in Slots(ix) /\ Slot(ix, a) = {s} /\ Holds(ix, s, a, i)

LEMMA DroppedOK ==
  ASSUME NEW ix, NEW pd, NEW n \in Nat, DOMAIN pd = 1 .. n, Len(pd) = n, OneEach(pd),
         \A i \in DOMAIN pd : pd[i].start \in Addr, IndexOK(ix, pd),
         \A i \in DOMAIN pd : \E s : SlotOf(ix, pd[i].start, i, s),
         NEW i \in 1 .. n,
         NEW qd, DOMAIN qd = 1 .. n - 1,
         \A j \in 1 .. n - 1 : qd[j] = IF j = i THEN pd[n] ELSE pd[j],
         NEW g, DOMAIN g = {"cap", "used", "slot"}, g.cap = ix.cap,
         g.used = ix.used, g.slot = Dropped(ix, i, pd)
  PROVE  IndexOK(g, qd)
<1>1. /\ IsIndex(ix) /\ ix.cap \in Nat /\ Leads(ix, pd, 1 .. n)
      /\ ix.slot \in [Slots(ix) -> [key : Nat, at : Nat]] /\ Slots(g) = Slots(ix)
      /\ n \in DOMAIN pd /\ i \in DOMAIN pd
  BY DEF IndexOK, IsIndex, Slots
<1>2. PICK s : SlotOf(ix, pd[i].start, i, s)
  BY <1>1
<1>3. PICK l : SlotOf(ix, pd[n].start, n, l)
  BY <1>1
<1>4. l = s <=> i = n
  BY <1>1, <1>2, <1>3 DEF SlotOf, Holds, OneEach
<1>5. /\ s \in Slots(ix) /\ l \in Slots(ix)
      /\ g.slot \in [Slots(ix) -> [key : Nat, at : Nat]]
      /\ g.slot[s] = [key |-> Deleted, at |-> 0]
      /\ l # s => g.slot[l] = [key |-> pd[n].start, at |-> i]
      /\ \A u \in Slots(ix) : u # s /\ u # l => g.slot[u] = ix.slot[u]
  <2> DEFINE gone == Slot(ix, pd[i].start)
             moved == Slot(ix, pd[n].start) \ gone
  <2>1. s \in Slots(ix) /\ l \in Slots(ix) /\ gone = {s} /\ moved = {l} \ {s}
    BY <1>2, <1>3 DEF SlotOf
  <2>2. g.slot = [u \in DOMAIN ix.slot |->
            CASE u \in gone  -> [key |-> Deleted, at |-> 0]
              [] u \in moved -> [key |-> pd[n].start, at |-> i]
              [] OTHER       -> ix.slot[u]]
    BY DEF Dropped
  <2>3. pd[n].start \in Nat /\ i \in Nat
    <3>1. pd[n].start \in Addr
      BY <1>1
    <3>2. pd[n].start \in Nat
      BY <3>1, AddrAssumption
    <3>3. i \in Nat
      OBVIOUS
    <3>. QED
      BY <3>2, <3>3
  <2>. HIDE DEF gone, moved
  <2>4. g.slot = [u \in Slots(ix) |-> IF u = s THEN [key |-> Deleted, at |-> 0]
                                     ELSE IF u = l THEN [key |-> pd[n].start, at |-> i]
                                     ELSE ix.slot[u]]
    BY <1>1, <2>1, <2>2
  <2>. QED
    BY <1>1, <2>1, <2>3, <2>4 DEF Deleted
<1>6. \A u \in Slots(ix) : g.slot[u].key = Empty <=> ix.slot[u].key = Empty
  <2>1. pd[n].start # Empty /\ pd[i].start # Empty
    BY <1>1, AddrAssumption DEF Empty
  <2>2. ix.slot[s].key = pd[i].start /\ ix.slot[l].key = pd[n].start
    BY <1>2, <1>3 DEF SlotOf, Holds
  <2>3. g.slot[s].key # Empty /\ (l # s => g.slot[l].key = pd[n].start)
    BY <1>5 DEF Empty, Deleted
  <2>4. ASSUME NEW u \in Slots(ix)
        PROVE  g.slot[u].key = Empty <=> ix.slot[u].key = Empty
    <3>1. CASE u = s
      BY <2>1, <2>2, <2>3, <3>1
    <3>2. CASE u = l /\ u # s
      BY <2>1, <2>2, <2>3, <3>2
    <3>3. CASE u # s /\ u # l
      BY <1>5, <3>3
    <3>. QED
      BY <3>1, <3>2, <3>3
  <2>. QED
    BY <2>4
<1>7. IsIndex(g)
  <2>1. Filled(g) = Filled(ix)
    BY <1>1, <1>6 DEF Filled
  <2>. QED
    BY <1>1, <1>5, <2>1 DEF IsIndex
<1>8. ASSUME NEW a \in Addr, NEW u, Reaches(ix, a, u) PROVE Reaches(g, a, u)
  BY <1>1, <1>6, <1>8, ReachesStill
<1>9. \A u \in Slots(ix) : u # s => g.slot[u].key = ix.slot[u].key
  BY <1>3, <1>5 DEF SlotOf, Holds
<1>10. ASSUME NEW j \in 1 .. n - 1
       PROVE  \E u \in Slots(g) : Holds(g, u, qd[j].start, j) /\ Reaches(g, qd[j].start, u)
  <2>1. CASE j = i
    <3>1. l # s /\ qd[j] = pd[n] /\ Reaches(ix, pd[n].start, l)
      <4>1. PICK u \in Slots(ix) : Holds(ix, u, pd[n].start, n) /\ Reaches(ix, pd[n].start, u)
        BY <1>1 DEF Leads
      <4>2. u = l
        BY <1>1, <1>3, <4>1, AddrAssumption DEF Leads, SlotOf, Holds, Empty, Deleted
      <4>. QED
        BY <1>4, <2>1, <4>1, <4>2
    <3>2. Reaches(g, pd[n].start, l)
      BY <1>1, <1>8, <3>1
    <3>3. Holds(g, l, pd[n].start, i)
      BY <1>5, <3>1 DEF Holds
    <3>4. l \in Slots(g)
      BY <1>1, <1>5
    <3>. QED
      BY <2>1, <3>1, <3>2, <3>3, <3>4
  <2>2. CASE j # i
    <3>1. j \in DOMAIN pd /\ qd[j] = pd[j] /\ j # n /\ pd[j].start \in Addr
      BY <2>2
    <3>2. PICK u \in Slots(ix) : Holds(ix, u, pd[j].start, j) /\ Reaches(ix, pd[j].start, u)
      BY <1>1, <3>1 DEF Leads
    <3>3. u # s /\ u # l
      BY <1>1, <1>2, <1>3, <2>2, <3>1, <3>2 DEF SlotOf, Holds
    <3>. QED
      BY <1>1, <1>5, <1>8, <3>1, <3>2, <3>3 DEF Holds
  <2>. QED
    BY <2>1, <2>2
<1>11. ASSUME NEW u \in Slots(g)
       PROVE  g.slot[u].key \in {Empty, Deleted} \cup {qd[j].start : j \in 1 .. n - 1}
  <2>1. CASE u = s
    BY <1>5, <2>1
  <2>2. CASE u # s /\ ix.slot[u].key \notin {Empty, Deleted}
    <3>1. PICK k \in 1 .. n : ix.slot[u].key = pd[k].start
      BY <1>1, <2>2 DEF Leads
    <3>2. k # i
      BY <1>1, <1>2, <2>2, <3>1 DEF Leads, SlotOf, Holds
    <3>3. CASE k = n
      <4>1. i \in 1 .. n - 1 /\ qd[i] = pd[n]
        BY <3>2, <3>3
      <4>. QED
        BY <1>1, <1>9, <2>2, <3>1, <3>3, <4>1
    <3>4. CASE k # n
      <4>1. k \in 1 .. n - 1 /\ qd[k] = pd[k]
        BY <3>2, <3>4
      <4>. QED
        BY <1>1, <1>9, <2>2, <3>1, <4>1
    <3>. QED
      BY <3>3, <3>4
  <2>3. CASE u # s /\ ix.slot[u].key \in {Empty, Deleted}
    BY <1>1, <1>9, <2>3
  <2>. QED
    BY <2>1, <2>2, <2>3
<1>12. ASSUME NEW u \in Slots(g), NEW v \in Slots(g), g.slot[u].key = g.slot[v].key,
              g.slot[u].key \notin {Empty, Deleted}
       PROVE  u = v
  <2>1. u # s /\ v # s
    BY <1>5, <1>12
  <2>. QED
    BY <1>1, <1>9, <1>12, <2>1 DEF Leads
<1>13. Leads(g, qd, 1 .. n - 1)
  BY <1>10, <1>11, <1>12 DEF Leads
<1>14. g.cap # 0 /\ g.used < g.cap
  BY <1>2 DEF IndexOK, SlotOf, Slots
<1>. QED
  BY <1>7, <1>13, <1>14 DEF IndexOK

(***************************************************************************)
(* Total is a sum over a set, taken in an order CHOOSE picks.              *)
(***************************************************************************)
Weight(ch, S) == MapThenSumSet(LAMBDA a : ch[a].size, S)

Adds(it, ch, S) ==
    it = [s \in SUBSET S |->
            IF s = {} THEN 0
            ELSE LET x == CHOOSE x \in s : TRUE IN ch[x].size + it[s \ {x}]]

Weighed(ch, S) == \A a \in S : ch[a].size \in Nat

LEMMA WeightIs ==
  ASSUME NEW ch, NEW S
  PROVE  Weight(ch, S) = (CHOOSE it : Adds(it, ch, S))[S]
BY DEF Weight, Adds, MapThenSumSet, MapThenFoldSet

\* Induction over the subsets of a finite set.
LEMMA SetInduction ==
  ASSUME NEW S, IsFiniteSet(S), NEW G, {} \in G,
         \A s \in SUBSET S : s # {} /\ (\A x \in s : s \ {x} \in G) => s \in G
  PROVE  \A s \in SUBSET S : s \in G
<1> DEFINE T == {n \in Nat : \A s \in SUBSET S : Cardinality(s) = n => s \in G}
<1>0. \A s \in SUBSET S : IsFiniteSet(s) /\ Cardinality(s) \in Nat
  BY FS_Subset, FS_CardinalityType
<1>1. 0 \in T
  BY <1>0, FS_EmptySet
<1>2. ASSUME NEW n \in T PROVE n + 1 \in T
  <2> SUFFICES ASSUME NEW s \in SUBSET S, Cardinality(s) = n + 1 PROVE s \in G
    OBVIOUS
  <2>1. s # {}
    BY <1>0, FS_EmptySet
  <2>2. ASSUME NEW x \in s PROVE s \ {x} \in G
    <3>1. Cardinality(s \ {x}) = n /\ s \ {x} \in SUBSET S
      BY <1>0, FS_RemoveElement
    <3>. QED
      BY <3>1
  <2>. QED
    BY <2>1, <2>2
<1>3. \A n \in Nat : n \in T
  <2>1. T \in SUBSET Nat
    OBVIOUS
  <2>. HIDE DEF T
  <2>. QED
    BY <1>1, <1>2, <2>1, Upwards
<1>. QED
  BY <1>0, <1>3

LEMMA AddsExists ==
  ASSUME NEW S, IsFiniteSet(S), NEW ch, Weighed(ch, S)
  PROVE  \E it \in [SUBSET S -> Nat] : Adds(it, ch, S)
<1> DEFINE n == Cardinality(S)
           X(s) == CHOOSE x \in s : TRUE
           F(g) == [s \in SUBSET S |-> IF s = {} THEN 0 ELSE ch[X(s)].size + g[s \ {X(s)}]]
           V == [SUBSET S -> Nat]
           zero == [s \in SUBSET S |-> 0]
           step == [i \in 1 .. n |-> [g \in V |-> F(g)]]
<1>1. n \in Nat
  BY FS_CardinalityType
<1>2. \A s \in SUBSET S : s # {} => X(s) \in s /\ s \ {X(s)} \in SUBSET S /\ ch[X(s)].size \in Nat
  BY DEF Weighed
<1>. HIDE DEF X
<1>3. \A g \in V : F(g) \in V
  BY <1>2
<1>4. zero \in V
  OBVIOUS
<1>5. step \in [1 .. n -> [V -> V]]
  <2>. HIDE DEF V, F
  <2>. QED
    BY <1>3
<1>6. PICK f : Iterates(f, n, V, zero, step)
  <2>. HIDE DEF V, zero, step, n
  <2>. QED
    BY <1>1, <1>4, <1>5, Iteration
<1>7. /\ \A i \in 0 .. n : f[i] \in V
      /\ f[0] = zero /\ \A i \in 1 .. n : f[i] = F(f[i - 1])
  <2>. HIDE DEF V, F, zero, n
  <2>1. f \in [0 .. n -> V] /\ f[0] = zero /\ \A i \in 1 .. n : f[i] = step[i][f[i - 1]]
    BY <1>6 DEF Iterates
  <2>2. ASSUME NEW i \in 1 .. n PROVE f[i] = F(f[i - 1])
    <3>1. f[i - 1] \in V
      BY <1>1, <2>1
    <3>. QED
      BY <2>1, <3>1
  <2>. QED
    BY <2>1, <2>2
<1> DEFINE T == {i \in 0 .. n : \A s \in SUBSET S : Cardinality(s) <= i => F(f[i])[s] = f[i][s]}
<1>8. \A s \in SUBSET S : IsFiniteSet(s) /\ Cardinality(s) \in Nat
  BY FS_Subset, FS_CardinalityType
<1>9. 0 \in T
  <2>1. ASSUME NEW s \in SUBSET S, Cardinality(s) <= 0 PROVE F(f[0])[s] = f[0][s]
    <3>1. s = {}
      BY <1>8, <2>1, FS_EmptySet
    <3>. QED
      BY <1>7, <3>1
  <2>. HIDE DEF F, n
  <2>. QED
    BY <1>1, <2>1
<1>10. ASSUME NEW i \in 1 .. n, i - 1 \in T PROVE i \in T
  <2> SUFFICES ASSUME NEW s \in SUBSET S, Cardinality(s) <= i PROVE F(f[i])[s] = f[i][s]
    <3>. HIDE DEF F, n
    <3>. QED
      BY <1>1
  <2>1. CASE s = {}
    BY <1>1, <1>7, <2>1
  <2>2. CASE s # {}
    <3> DEFINE x == X(s)
               r == s \ {x}
    <3>1. x \in s /\ r \in SUBSET S
      BY <1>2, <2>2
    <3>2. Cardinality(r) <= i - 1
      <4>1. Cardinality(r) = Cardinality(s) - 1
        BY <1>8, <3>1, FS_RemoveElement
      <4>. QED
        BY <1>1, <1>8, <4>1
    <3>3. F(f[i - 1])[r] = f[i - 1][r]
      BY <1>10, <3>1, <3>2
    <3>4. f[i][r] = F(f[i - 1])[r]
      BY <1>7
    <3>5. F(f[i])[s] = ch[x].size + f[i][r] /\ F(f[i - 1])[s] = ch[x].size + f[i - 1][r]
      BY <2>2
    <3>. HIDE DEF F
    <3>6. f[i][s] = F(f[i - 1])[s]
      BY <1>7
    <3>. QED
      BY <3>3, <3>4, <3>5, <3>6
  <2>. QED
    BY <2>1, <2>2
<1>11. n \in T
  <2>1. T \in SUBSET Nat
    OBVIOUS
  <2>. HIDE DEF T, n
  <2>2. \A i \in 0 .. n : i \in T
    BY <1>1, <1>9, <1>10, <2>1, Along
  <2>. QED
    BY <1>1, <2>2
<1> DEFINE it == f[n]
<1>12. it \in V
  <2>. HIDE DEF n, V
  <2>. QED
    BY <1>1, <1>7
<1>13. ASSUME NEW s \in SUBSET S PROVE F(it)[s] = it[s]
  <2>1. Cardinality(s) <= n
    BY FS_Subset
  <2>. QED
    BY <1>11, <2>1
<1>14. it = F(it)
  <2>. HIDE DEF it
  <2>1. it = [s \in SUBSET S |-> it[s]] /\ F(it) = [s \in SUBSET S |-> F(it)[s]]
    BY <1>12
  <2>. HIDE DEF F
  <2>. QED
    BY <1>13, <2>1
<1>15. Adds(it, ch, S)
  <2>. HIDE DEF it
  <2>. QED
    BY <1>14 DEF Adds, X
<1>. QED
  BY <1>12, <1>15

\* One solution of the recursion, and what it says of a set.
LEMMA AddsStep ==
  ASSUME NEW S, NEW ch, NEW it, Adds(it, ch, S), NEW s \in SUBSET S
  PROVE  /\ s = {} => it[s] = 0
         /\ s # {} => \E x \in s : it[s] = ch[x].size + it[s \ {x}]
<1> DEFINE y == CHOOSE x \in s : TRUE
<1>1. it[s] = IF s = {} THEN 0 ELSE ch[y].size + it[s \ {y}]
  BY DEF Adds
<1>2. s # {} => y \in s
  OBVIOUS
<1>. HIDE DEF y
<1>. QED
  BY <1>1, <1>2

Solves(it, ch, S) == it \in [SUBSET S -> Nat] /\ Adds(it, ch, S)

AnyOrder(it, ch, S) ==
    \A s \in SUBSET S : \A x \in s : it[s] = ch[x].size + it[s \ {x}]

LEMMA AddsAny ==
  ASSUME NEW S, IsFiniteSet(S), NEW ch, Weighed(ch, S),
         NEW it, Solves(it, ch, S)
  PROVE  AnyOrder(it, ch, S)
<1>0. it \in [SUBSET S -> Nat] /\ Adds(it, ch, S)
  BY DEF Solves
<1> DEFINE Sums(s) == \A x \in s : it[s] = ch[x].size + it[s \ {x}]
           G == {s \in SUBSET S : Sums(s)}
<1>1. {} \in G
  OBVIOUS
<1>2. ASSUME NEW s \in SUBSET S, s # {}, \A x \in s : s \ {x} \in G PROVE s \in G
  <2>1. PICK y \in s : it[s] = ch[y].size + it[s \ {y}]
    BY <1>0, <1>2, AddsStep
  <2>2. ASSUME NEW x \in s, x # y PROVE it[s] = ch[x].size + it[s \ {x}]
    <3> DEFINE r == (s \ {x}) \ {y}
    <3>1. r = (s \ {y}) \ {x} /\ r \in SUBSET S
      OBVIOUS
    <3>2. Sums(s \ {y}) /\ Sums(s \ {x})
      BY <1>2
    <3>. HIDE DEF r
    <3>3. it[s \ {y}] = ch[x].size + it[r]
      BY <2>2, <3>1, <3>2
    <3>4. it[s \ {x}] = ch[y].size + it[r]
      BY <2>2, <3>2 DEF r
    <3>5. ch[x].size \in Nat /\ ch[y].size \in Nat /\ it[r] \in Nat
      BY <1>0, <3>1 DEF Weighed
    <3>. QED
      BY <2>1, <3>3, <3>4, <3>5
  <2>3. Sums(s)
    BY <2>1, <2>2
  <2>. QED
    BY <2>3
<1>3. \A s \in SUBSET S : s \in G
  <2>. HIDE DEF G
  <2>. QED
    BY <1>1, <1>2, SetInduction
<1>. QED
  BY <1>3 DEF AnyOrder

\* The sum over a set does not depend on the set it is part of.
LEMMA AddsPart ==
  ASSUME NEW S, IsFiniteSet(S), NEW R \in SUBSET S, NEW ch, Weighed(ch, S),
         NEW it, Solves(it, ch, S), NEW jt, Adds(jt, ch, R)
  PROVE  \A s \in SUBSET R : jt[s] = it[s]
<1>0. AnyOrder(it, ch, S) /\ Adds(it, ch, S)
  BY AddsAny DEF Solves
<1> DEFINE G == {s \in SUBSET R : jt[s] = it[s]}
<1>1. IsFiniteSet(R) /\ Weighed(ch, R)
  BY FS_Subset DEF Weighed
<1>2. {} \in G
  <2>1. {} \in SUBSET R /\ {} \in SUBSET S
    OBVIOUS
  <2>2. it[{}] = 0 /\ jt[{}] = 0
    BY <1>0, <2>1, AddsStep
  <2>. QED
    BY <2>1, <2>2
<1>3. ASSUME NEW s \in SUBSET R, s # {}, \A x \in s : s \ {x} \in G PROVE s \in G
  <2>1. PICK x \in s : jt[s] = ch[x].size + jt[s \ {x}]
    BY <1>3, AddsStep
  <2>2. s \in SUBSET S /\ x \in s
    OBVIOUS
  <2>3. it[s] = ch[x].size + it[s \ {x}]
    BY <1>0, <2>2 DEF AnyOrder
  <2>4. jt[s \ {x}] = it[s \ {x}]
    BY <1>3
  <2>. QED
    BY <2>1, <2>3, <2>4
<1>. HIDE DEF G
<1>4. \A s \in SUBSET R : s \in G
  BY <1>1, <1>2, <1>3, SetInduction
<1>. QED
  BY <1>4 DEF G

LEMMA WeightSolves ==
  ASSUME NEW S, IsFiniteSet(S), NEW ch, Weighed(ch, S)
  PROVE  \E it : Solves(it, ch, S) /\ Weight(ch, S) = it[S]
<1> DEFINE jt == CHOOSE it : Adds(it, ch, S)
<1>1. PICK it : Solves(it, ch, S)
  BY AddsExists DEF Solves
<1>2. Adds(jt, ch, S)
  BY <1>1 DEF Solves
<1>3. Weight(ch, S) = jt[S]
  BY WeightIs
<1>. HIDE DEF jt
<1>4. \A s \in SUBSET S : jt[s] = it[s]
  <2>1. S \in SUBSET S
    OBVIOUS
  <2>. QED
    BY <1>1, <1>2, <2>1, AddsPart
<1>. QED
  BY <1>1, <1>3, <1>4

LEMMA WeightFacts ==
  ASSUME NEW S, IsFiniteSet(S), NEW ch, Weighed(ch, S)
  PROVE  /\ Weight(ch, S) \in Nat
         /\ S = {} => Weight(ch, S) = 0
         /\ \A x \in S : Weight(ch, S) = ch[x].size + Weight(ch, S \ {x})
<1>1. PICK it : Solves(it, ch, S) /\ Weight(ch, S) = it[S]
  BY WeightSolves
<1>2. it \in [SUBSET S -> Nat] /\ Adds(it, ch, S) /\ AnyOrder(it, ch, S)
  BY <1>1, AddsAny DEF Solves
<1>3. ASSUME NEW x \in S PROVE Weight(ch, S) = ch[x].size + Weight(ch, S \ {x})
  <2> DEFINE R == S \ {x}
  <2>1. IsFiniteSet(R) /\ Weighed(ch, R) /\ R \in SUBSET S
    BY FS_Subset DEF Weighed
  <2>2. it[S] = ch[x].size + it[R]
    BY <1>2 DEF AnyOrder
  <2>. HIDE DEF R
  <2>3. PICK jt : Solves(jt, ch, R) /\ Weight(ch, R) = jt[R]
    BY <2>1, WeightSolves
  <2>4. Adds(jt, ch, R)
    BY <2>3 DEF Solves
  <2>5. \A s \in SUBSET R : jt[s] = it[s]
    BY <1>1, <2>1, <2>4, AddsPart
  <2>. QED
    BY <1>1, <2>2, <2>3, <2>5 DEF R
<1>4. S \in SUBSET S
  OBVIOUS
<1>. QED
  BY <1>1, <1>2, <1>3, <1>4, AddsStep

\* Chunks outside the set do not count.
LEMMA WeightSame ==
  ASSUME NEW S, IsFiniteSet(S), NEW ch, NEW dh, Weighed(ch, S),
         \A a \in S : dh[a].size = ch[a].size
  PROVE  Weight(dh, S) = Weight(ch, S)
<1> DEFINE G == {s \in SUBSET S : Weight(dh, s) = Weight(ch, s)}
<1>1. \A s \in SUBSET S : IsFiniteSet(s) /\ Weighed(ch, s) /\ Weighed(dh, s)
  BY FS_Subset DEF Weighed
<1>2. {} \in G
  <2>1. {} \in SUBSET S
    OBVIOUS
  <2>. QED
    BY <1>1, <2>1, WeightFacts
<1>3. ASSUME NEW s \in SUBSET S, s # {}, \A x \in s : s \ {x} \in G PROVE s \in G
  <2>1. PICK x \in s : TRUE
    BY <1>3
  <2>2. /\ Weight(ch, s) = ch[x].size + Weight(ch, s \ {x})
        /\ Weight(dh, s) = dh[x].size + Weight(dh, s \ {x})
    BY <1>1, WeightFacts
  <2>3. dh[x].size = ch[x].size
    OBVIOUS
  <2>. QED
    BY <1>3, <2>2, <2>3
<1>. HIDE DEF G
<1>4. \A s \in SUBSET S : s \in G
  BY <1>2, <1>3, SetInduction
<1>. QED
  BY <1>4 DEF G

(***************************************************************************)
(* g_blocks.                                                               *)
(***************************************************************************)
Picks(s, K) == {s[i] : i \in K}

LEMMA SeqFacts ==
  ASSUME NEW X, NEW s \in Seq(X)
  PROVE  /\ Len(s) \in Nat /\ DOMAIN s = 1 .. Len(s)
         /\ \A i \in DOMAIN s : s[i] \in X
OBVIOUS

Appended(a, s, e, X) ==
    /\ a \in Seq(X) /\ Len(s) \in Nat /\ Len(a) = Len(s) + 1
    /\ DOMAIN s = 1 .. Len(s) /\ DOMAIN a = 1 .. Len(s) + 1
    /\ a[Len(s) + 1] = e /\ \A i \in 1 .. Len(s) : a[i] = s[i]
    /\ Range(a) = Range(s) \cup {e}

LEMMA AppendFacts ==
  ASSUME NEW X, NEW s \in Seq(X), NEW e \in X
  PROVE  Appended(Append(s, e), s, e, X)
<1> DEFINE a == Append(s, e)
<1>1. /\ a \in Seq(X) /\ Len(a) = Len(s) + 1 /\ Len(s) \in Nat
      /\ a[Len(s) + 1] = e /\ \A i \in 1 .. Len(s) : a[i] = s[i]
  OBVIOUS
<1>2. DOMAIN a = 1 .. Len(s) + 1 /\ DOMAIN s = 1 .. Len(s)
  BY <1>1
<1>. HIDE DEF a
<1>3. Range(a) = Range(s) \cup {e}
  <2>1. ASSUME NEW i \in DOMAIN a PROVE a[i] \in Range(s) \cup {e}
    <3>1. i \in 1 .. Len(s) \/ i = Len(s) + 1
      BY <1>1, <1>2
    <3>. QED
      BY <1>1, <1>2, <3>1 DEF Range
  <2>2. ASSUME NEW i \in DOMAIN s PROVE s[i] \in Range(a)
    <3>1. i \in 1 .. Len(s) /\ i \in DOMAIN a
      BY <1>1, <1>2
    <3>. QED
      BY <1>1, <3>1 DEF Range
  <2>3. e \in Range(a)
    <3>1. Len(s) + 1 \in DOMAIN a
      BY <1>1, <1>2
    <3>. QED
      BY <1>1, <3>1 DEF Range
  <2>. QED
    BY <2>1, <2>2, <2>3 DEF Range
<1>. QED
  BY <1>1, <1>2, <1>3 DEF a, Appended

\* What a compaction leaves.
Packed(c, s, K) == c \in Seq(Entries) /\ Ascending(c) /\ Range(c) = Picks(s, K)

LEMMA CompactedFacts ==
  ASSUME NEW s \in Seq(Entries), Ascending(s), NEW K \in SUBSET (DOMAIN s)
  PROVE  Packed(Compacted(s, K), s, K)
<1> DEFINE m == Len(s)
           Q == Seq(Entries)
           Good(c, i) == c \in Q /\ Packed(c, s, {j \in K : j <= i})
           good == [i \in 0 .. m |-> {c \in Q : Good(c, i)}]
           After(c, i) == IF i \in K THEN Append(c, s[i]) ELSE c
           step == [i \in 1 .. m |-> [c \in Q |-> After(c, i)]]
           R(f) == f = [i \in 0 .. m |->
                          IF i = 0 THEN <<>>
                          ELSE IF i \in K THEN Append(f[i - 1], s[i]) ELSE f[i - 1]]
           p == CHOOSE f : R(f)
<1>1. m \in Nat /\ DOMAIN s = 1 .. m /\ \A i \in 1 .. m : s[i] \in Entries
  OBVIOUS
<1>. HIDE DEF m
<1>2. Good(<<>>, 0)
  <2>1. {j \in K : j <= 0} = {}
    BY <1>1
  <2>2. <<>> \in Q /\ DOMAIN <<>> = {}
    OBVIOUS
  <2>. QED
    BY <2>1, <2>2 DEF Packed, Picks, Range, Ascending
<1>3. ASSUME NEW i \in 1 .. m, NEW c, Good(c, i - 1) PROVE Good(After(c, i), i)
  <2>1. c \in Q /\ Ascending(c) /\ Range(c) = Picks(s, {j \in K : j <= i - 1})
    BY <1>3 DEF Packed
  <2>2. CASE i \notin K
    <3>1. {j \in K : j <= i} = {j \in K : j <= i - 1}
      BY <1>1, <2>2
    <3>. QED
      BY <1>3, <2>2, <3>1
  <2>3. CASE i \in K
    <3> DEFINE a == Append(c, s[i])
    <3>1. {j \in K : j <= i} = {j \in K : j <= i - 1} \cup {i}
      BY <1>1, <2>3
    <3>2. /\ a \in Q /\ Len(c) \in Nat /\ DOMAIN a = 1 .. Len(c) + 1 /\ a[Len(c) + 1] = s[i]
          /\ \A j \in 1 .. Len(c) : a[j] = c[j]
          /\ Range(a) = Range(c) \cup {s[i]} /\ DOMAIN c = 1 .. Len(c)
      <4>1. s[i] \in Entries /\ c \in Seq(Entries)
        BY <1>1, <2>1
      <4>2. Appended(a, c, s[i], Entries)
        BY <4>1, AppendFacts
      <4>. HIDE DEF a
      <4>. QED
        BY <4>2 DEF Appended
    <3>. HIDE DEF a
    <3>3. Range(a) = Picks(s, {j \in K : j <= i})
      BY <2>1, <3>1, <3>2 DEF Picks
    <3>4. ASSUME NEW x \in DOMAIN c PROVE Before(c[x], s[i])
      <4>1. c[x] \in Range(c)
        BY DEF Range
      <4>2. PICK j \in K : j <= i - 1 /\ c[x] = s[j]
        BY <2>1, <4>1 DEF Picks
      <4>3. j \in DOMAIN s /\ i \in DOMAIN s /\ j < i
        BY <1>1, <4>2
      <4>. QED
        BY <4>2, <4>3 DEF Ascending
    <3>5. ASSUME NEW x \in DOMAIN a, NEW y \in DOMAIN a, x < y PROVE Before(a[x], a[y])
      <4>1. x \in 1 .. Len(c) /\ (y \in 1 .. Len(c) \/ y = Len(c) + 1)
        BY <3>2, <3>5
      <4>2. CASE y \in 1 .. Len(c)
        <5>1. Before(c[x], c[y])
          BY <2>1, <3>2, <3>5, <4>1, <4>2 DEF Ascending
        <5>. QED
          BY <3>2, <4>1, <4>2, <5>1
      <4>3. CASE y = Len(c) + 1
        BY <3>2, <3>4, <4>1, <4>3
      <4>. QED
        BY <4>1, <4>2, <4>3
    <3>6. Good(a, i)
      BY <3>2, <3>3, <3>5 DEF Packed, Ascending
    <3>. QED
      BY <2>3, <3>6 DEF a
  <2>. QED
    BY <2>2, <2>3
<1>. HIDE DEF Q, Good
<1>4. Guides(good, m, <<>>, step)
  <2>1. <<>> \in good[0]
    BY <1>1, <1>2 DEF Good
  <2>2. ASSUME NEW i \in 1 .. m, NEW c \in good[i - 1] PROVE step[i][c] \in good[i]
    <3>1. i - 1 \in 0 .. m /\ i \in 0 .. m
      BY <1>1
    <3>2. c \in Q /\ Good(c, i - 1)
      BY <3>1
    <3>3. step[i][c] = After(c, i)
      BY <3>2
    <3>4. Good(After(c, i), i)
      BY <1>3, <3>2
    <3>. HIDE DEF After, step
    <3>. QED
      BY <3>1, <3>3, <3>4 DEF Good
  <2>. QED
    BY <2>1, <2>2 DEF Guides
<1>5. R(p)
  <2>. HIDE DEF good, step
  <2>1. PICK f : /\ f = [i \in 0 .. m |-> f[i]] /\ f[0] = <<>>
                 /\ \A i \in 1 .. m : f[i] = step[i][f[i - 1]]
                 /\ \A i \in 0 .. m : f[i] \in good[i]
    BY <1>1, <1>4, Loop
  <2>2. ASSUME NEW i \in 0 .. m, i # 0 PROVE f[i] = After(f[i - 1], i)
    <3>1. i \in 1 .. m /\ i - 1 \in 0 .. m
      BY <1>1, <2>2
    <3>2. f[i - 1] \in Q
      BY <2>1, <3>1 DEF good
    <3>. QED
      BY <2>1, <3>1, <3>2 DEF step
  <2>3. R(f)
    BY <2>1, <2>2
  <2>. QED
    BY <2>3
<1>6. Compacted(s, K) = p[m]
  BY DEF Compacted, m
<1>. HIDE DEF p
<1>7. p[0] = <<>> /\ \A i \in 1 .. m : p[i] = After(p[i - 1], i)
  <2>1. 0 \in 0 .. m /\ \A i \in 1 .. m : i \in 0 .. m /\ i # 0
    BY <1>1
  <2>. QED
    BY <1>5, <2>1
<1>. HIDE DEF R, After, good, step
<1> DEFINE T == {i \in 0 .. m : Good(p[i], i)}
<1>8. \A i \in 0 .. m : i \in T
  <2>1. 0 \in T
    BY <1>1, <1>2, <1>7
  <2>2. \A i \in 1 .. m : i - 1 \in T => i \in T
    BY <1>3, <1>7
  <2>3. T \in SUBSET Nat
    BY <1>1
  <2>. HIDE DEF T
  <2>. QED
    BY <1>1, <2>1, <2>2, <2>3, Along
<1>9. Good(p[m], m)
  BY <1>1, <1>8
<1>10. {j \in K : j <= m} = K
  BY <1>1
<1>. QED
  BY <1>6, <1>9, <1>10 DEF Good

\* What the sweep adds up is the weight of the blocks it leaves.
LEMMA LiveBytesFacts ==
  ASSUME NEW s \in Seq(Entries), OneEach(s), NEW K \in SUBSET (DOMAIN s), NEW ch,
         \A i \in K : ch[s[i].start].size = s[i].size
  PROVE  LiveBytes(s, K) = Weight(ch, {s[i].start : i \in K})
         /\ IsFiniteSet({s[i].start : i \in K})
<1> DEFINE m == Len(s)
           A(i) == {s[j].start : j \in {k \in K : k <= i}}
           Good(x, i) == x \in Nat /\ x = Weight(ch, A(i)) /\ IsFiniteSet(A(i))
           good == [i \in 0 .. m |-> {x \in Nat : Good(x, i)}]
           After(x, i) == x + (IF i \in K THEN s[i].size ELSE 0)
           step == [i \in 1 .. m |-> [x \in Nat |-> After(x, i)]]
           R(f) == f = [i \in 0 .. m |->
                          IF i = 0 THEN 0
                          ELSE f[i - 1] + (IF i \in K THEN s[i].size ELSE 0)]
           p == CHOOSE f : R(f)
<1>1. /\ m \in Nat /\ DOMAIN s = 1 .. m /\ \A i \in 1 .. m : s[i] \in Entries
      /\ \A i \in 1 .. m : s[i].size \in Nat
  <2>1. m \in Nat /\ DOMAIN s = 1 .. m /\ \A i \in 1 .. m : s[i] \in Entries
    BY SeqFacts
  <2>2. \A e \in Entries : e.size \in Nat
    BY DEF Entries
  <2>. QED
    BY <2>1, <2>2
<1>. HIDE DEF m
<1>2. Good(0, 0)
  <2>1. A(0) = {}
    BY <1>1
  <2>. HIDE DEF A
  <2>. QED
    BY <2>1, FS_EmptySet, WeightFacts DEF Weighed
<1>3. ASSUME NEW i \in 1 .. m, NEW x, Good(x, i - 1) PROVE Good(After(x, i), i)
  <2>1. CASE i \notin K
    <3>1. {k \in K : k <= i} = {k \in K : k <= i - 1}
      BY <1>1, <2>1
    <3>2. A(i) = A(i - 1)
      BY <3>1
    <3>. HIDE DEF A
    <3>3. x \in Nat /\ After(x, i) = x + 0 /\ x + 0 = x
      BY <1>3, <2>1
    <3>. HIDE DEF After
    <3>. QED
      BY <1>3, <3>2, <3>3
  <2>2. CASE i \in K
    <3> DEFINE a == s[i].start
    <3>1. {k \in K : k <= i} = {k \in K : k <= i - 1} \cup {i}
      BY <1>1, <2>2
    <3>2. A(i) = A(i - 1) \cup {a}
      BY <3>1
    <3>3. a \notin A(i - 1)
      <4>1. \A k \in K : k <= i - 1 => s[k].start # a
        BY <1>1 DEF OneEach
      <4>. QED
        BY <4>1
    <3>4. Weighed(ch, A(i))
      BY <1>1 DEF Weighed
    <3>5. ch[a].size = s[i].size
      BY <2>2
    <3>. HIDE DEF A, a
    <3>6. IsFiniteSet(A(i)) /\ A(i) \ {a} = A(i - 1) /\ a \in A(i)
      BY <1>3, <3>2, <3>3, FS_AddElement
    <3>7. Weight(ch, A(i)) = ch[a].size + Weight(ch, A(i - 1)) /\ Weight(ch, A(i)) \in Nat
      BY <3>4, <3>6, WeightFacts
    <3>8. After(x, i) = Weight(ch, A(i))
      BY <1>1, <1>3, <2>2, <3>5, <3>7
    <3>. QED
      BY <3>6, <3>7, <3>8
  <2>. QED
    BY <2>1, <2>2
<1>. HIDE DEF Good
<1>4. Guides(good, m, 0, step)
  <2>1. 0 \in good[0]
    BY <1>1, <1>2 DEF Good
  <2>2. ASSUME NEW i \in 1 .. m, NEW c \in good[i - 1] PROVE step[i][c] \in good[i]
    <3>1. i - 1 \in 0 .. m /\ i \in 0 .. m
      BY <1>1
    <3>2. c \in Nat /\ Good(c, i - 1)
      BY <3>1
    <3>3. step[i][c] = After(c, i)
      BY <3>2
    <3>4. Good(After(c, i), i)
      BY <1>3, <3>2
    <3>. HIDE DEF After, step
    <3>. QED
      BY <3>1, <3>3, <3>4 DEF Good
  <2>. QED
    BY <2>1, <2>2 DEF Guides
<1>5. R(p)
  <2>. HIDE DEF good, step
  <2>1. PICK f : /\ f = [i \in 0 .. m |-> f[i]] /\ f[0] = 0
                 /\ \A i \in 1 .. m : f[i] = step[i][f[i - 1]]
                 /\ \A i \in 0 .. m : f[i] \in good[i]
    BY <1>1, <1>4, Loop
  <2>2. ASSUME NEW i \in 0 .. m, i # 0 PROVE f[i] = After(f[i - 1], i)
    <3>1. i \in 1 .. m /\ i - 1 \in 0 .. m
      BY <1>1, <2>2
    <3>2. f[i - 1] \in Nat
      BY <2>1, <3>1 DEF good
    <3>. QED
      BY <2>1, <3>1, <3>2 DEF step
  <2>3. R(f)
    BY <2>1, <2>2
  <2>. QED
    BY <2>3
<1>6. LiveBytes(s, K) = p[m]
  BY DEF LiveBytes, m
<1>. HIDE DEF p
<1>7. p[0] = 0 /\ \A i \in 1 .. m : p[i] = After(p[i - 1], i)
  <2>1. 0 \in 0 .. m /\ \A i \in 1 .. m : i \in 0 .. m /\ i # 0
    BY <1>1
  <2>. QED
    BY <1>5, <2>1
<1>. HIDE DEF R, After, good, step
<1> DEFINE T == {i \in 0 .. m : Good(p[i], i)}
<1>8. \A i \in 0 .. m : i \in T
  <2>1. 0 \in T
    BY <1>1, <1>2, <1>7
  <2>2. \A i \in 1 .. m : i - 1 \in T => i \in T
    BY <1>3, <1>7
  <2>3. T \in SUBSET Nat
    BY <1>1
  <2>. HIDE DEF T
  <2>. QED
    BY <1>1, <2>1, <2>2, <2>3, Along
<1>9. Good(p[m], m)
  BY <1>1, <1>8
<1>10. {j \in K : j <= m} = K
  BY <1>1
<1>11. A(m) = {s[i].start : i \in K}
  BY <1>10
<1>. HIDE DEF A
<1>. QED
  BY <1>6, <1>9, <1>11 DEF Good

\* What sorting makes of entries with a start each.
Arranged(c, s) ==
    /\ c \in [DOMAIN s -> Range(s)] /\ Range(c) = Range(s)
    /\ \A i, j \in DOMAIN c : i < j => c[i].start < c[j].start

LEMMA SortedFacts ==
  ASSUME NEW s \in Seq(Entries), OneEach(s)
  PROVE  Arranged(Sorted(s), s)
<1> DEFINE D == DOMAIN s
           n == Len(s)
           Below(i) == {j \in D : s[j].start < s[i].start}
           f == [i \in D |-> 1 + Cardinality(Below(i))]
<1>1. /\ n \in Nat /\ D = 1 .. n /\ \A i \in D : s[i].start \in Nat
      /\ IsFiniteSet(D) /\ Cardinality(D) = n
  <2>1. n \in Nat /\ D = 1 .. n /\ \A i \in D : s[i] \in Entries
    BY SeqFacts
  <2>2. \A i \in D : s[i].start \in Nat
    BY <2>1, AddrAssumption DEF Entries
  <2>3. IsFiniteSet(1 .. n) /\ Cardinality(1 .. n) = n
    BY <2>1, FS_Interval
  <2>. QED
    BY <2>1, <2>2, <2>3
<1>. HIDE DEF n, D
<1>2. ASSUME NEW i \in D
      PROVE  /\ IsFiniteSet(Below(i)) /\ Cardinality(Below(i)) \in Nat
             /\ Cardinality(Below(i)) < n
  <2>1. Below(i) \in SUBSET (D \ {i})
    BY <1>1
  <2>2. IsFiniteSet(D \ {i}) /\ Cardinality(D \ {i}) = n - 1
    BY <1>1, FS_RemoveElement
  <2>. HIDE DEF Below
  <2>. QED
    BY <1>1, <2>1, <2>2, FS_Subset, FS_CardinalityType
<1>3. ASSUME NEW i \in D, NEW j \in D, s[i].start < s[j].start PROVE f[i] < f[j]
  <2>1. Below(i) \in SUBSET Below(j) /\ i \in Below(j) /\ i \notin Below(i)
    BY <1>1, <1>3
  <2>. HIDE DEF Below
  <2>2. Cardinality(Below(i)) <= Cardinality(Below(j)) /\ Cardinality(Below(i)) # Cardinality(Below(j))
    BY <1>2, <2>1, FS_Subset
  <2>. QED
    BY <1>2, <2>2
<1>4. f \in [D -> D] /\ \A i \in D : f[i] \in Nat
  <2>. HIDE DEF Below
  <2>. QED
    BY <1>1, <1>2
<1>. HIDE DEF f
<1>5. \A i, j \in D : f[i] = f[j] => i = j
  <2>1. ASSUME NEW i \in D, NEW j \in D, i # j PROVE f[i] # f[j]
    <3>1. s[i].start < s[j].start \/ s[j].start < s[i].start
      BY <1>1, <2>1 DEF OneEach, D
    <3>. QED
      BY <1>3, <1>4, <3>1
  <2>. QED
    BY <2>1
<1>6. \A k \in D : \E i \in D : f[i] = k
  <2>1. f \in Injection(D, D)
    BY <1>4, <1>5 DEF Injection, IsInjective
  <2>2. f \in Surjection(D, D)
    BY <1>1, <2>1, FS_Injection
  <2>. QED
    BY <2>2 DEF Surjection
<1> DEFINE g(k) == CHOOSE i \in D : f[i] = k
           c == [k \in D |-> s[g(k)]]
<1>7. \A k \in D : g(k) \in D /\ f[g(k)] = k
  BY <1>6
<1>8. \A i \in D : g(f[i]) = i
  BY <1>4, <1>5, <1>7
<1>. HIDE DEF g
<1>9. c \in [D -> Range(s)] /\ DOMAIN c = D /\ Range(c) = Range(s)
  <2>1. \A k \in D : c[k] = s[g(k)] /\ c[k] \in Range(s)
    BY <1>7 DEF Range, D
  <2>2. \A i \in D : s[i] = c[f[i]] /\ f[i] \in D
    BY <1>4, <1>8, <2>1
  <2>3. c \in [D -> Range(s)] /\ DOMAIN c = D
    BY <2>1
  <2>. HIDE DEF c
  <2>4. Range(c) \subseteq Range(s)
    BY <2>1, <2>3 DEF Range
  <2>5. Range(s) \subseteq Range(c)
    <3>1. ASSUME NEW i \in D PROVE s[i] \in Range(c)
      <4>1. f[i] \in DOMAIN c /\ c[f[i]] = s[i]
        BY <2>2, <2>3
      <4>. QED
        BY <4>1 DEF Range
    <3>. QED
      BY <3>1 DEF Range, D
  <2>. QED
    BY <2>3, <2>4, <2>5
<1>10. ASSUME NEW k \in D, NEW l \in D, k < l PROVE c[k].start < c[l].start
  <2>1. /\ g(k) \in D /\ g(l) \in D /\ f[g(k)] = k /\ f[g(l)] = l
        /\ s[g(k)].start \in Nat /\ s[g(l)].start \in Nat
    BY <1>1, <1>7
  <2>2. ~(s[g(l)].start < s[g(k)].start)
    BY <1>1, <1>3, <1>10, <2>1
  <2>3. g(k) # g(l)
    BY <1>1, <1>10, <2>1
  <2>4. s[g(k)].start # s[g(l)].start
    BY <2>1, <2>3 DEF OneEach, D
  <2>. QED
    BY <2>1, <2>2, <2>4
<1>11. Arranged(c, s)
  <2>. HIDE DEF c
  <2>. QED
    BY <1>9, <1>10 DEF Arranged, D
<1>. HIDE DEF c
<1>12. Sorted(s) = CHOOSE d : d \in [DOMAIN s -> Range(s)] /\ Range(d) = Range(s) /\ \A i, j \in DOMAIN d : i < j => d[i].start < d[j].start
  BY DEF Sorted
<1>. QED
  BY <1>11 DEF Sorted, Arranged

(***************************************************************************)
(* Binary search.                                                          *)
(***************************************************************************)
Ranges(n) == (0 .. n) \X (0 .. n)

Mid(w) == w[1] + (w[2] - w[1]) \div 2

\* f halves a range of 0 .. n - 1 at its middle: it answers there, goes on
\* above, goes on below, or answers at the end.
Halved(f, w, Stop, Up, answer, end) ==
    IF w[1] >= w[2] THEN end[w[1]]
    ELSE IF Mid(w) \in Stop THEN answer[Mid(w)]
    ELSE IF Mid(w) \in Up THEN f[<<Mid(w) + 1, w[2]>>]
    ELSE f[<<w[1], Mid(w)>>]

Halves(f, n, Stop, Up, answer, end) ==
    f = [w \in Ranges(n) |-> Halved(f, w, Stop, Up, answer, end)]

LEMMA MidFacts ==
  ASSUME NEW n \in Nat, NEW w \in Ranges(n)
  PROVE  /\ w[1] \in 0 .. n /\ w[2] \in 0 .. n
         /\ w[1] < w[2] =>
              /\ Mid(w) \in 0 .. n - 1 /\ w[1] <= Mid(w) /\ Mid(w) < w[2]
              /\ <<Mid(w) + 1, w[2]>> \in Ranges(n) /\ <<w[1], Mid(w)>> \in Ranges(n)
<1>1. w[1] \in 0 .. n /\ w[2] \in 0 .. n
  BY DEF Ranges
<1>2. ASSUME w[1] < w[2] PROVE Mid(w) \in Int /\ w[1] <= Mid(w) /\ Mid(w) < w[2]
  BY <1>1, <1>2 DEF Mid
<1>. QED
  BY <1>1, <1>2 DEF Ranges

\* There is such a function, because the range shrinks at every step.
LEMMA HalvingExists ==
  ASSUME NEW n \in Nat, NEW Stop, NEW Up, NEW answer, NEW end
  PROVE  \E f : Halves(f, n, Stop, Up, answer, end)
<1> DEFINE D == Ranges(n)
           body(f, w) == Halved(f, w, Stop, Up, answer, end)
           size(w) == w[2] - w[1]
           Good(f, m) == /\ f = [w \in D |-> f[w]]
                         /\ \A w \in D : size(w) <= m => f[w] = body(f, w)
           T == {m \in Nat : \E f : Good(f, m)}
<1>1. \A w \in D : size(w) \in Int /\ size(w) <= n /\ (size(w) <= 0 <=> w[1] >= w[2])
  <2> SUFFICES ASSUME NEW w \in D
               PROVE  size(w) \in Int /\ size(w) <= n /\ (size(w) <= 0 <=> w[1] >= w[2])
    OBVIOUS
  <2>1. w[1] \in 0 .. n /\ w[2] \in 0 .. n
    BY MidFacts
  <2>. QED
    BY <2>1
<1>2. ASSUME NEW w \in D, ~(w[1] >= w[2])
      PROVE  /\ <<Mid(w) + 1, w[2]>> \in D /\ <<w[1], Mid(w)>> \in D
             /\ size(<<Mid(w) + 1, w[2]>>) < size(w) /\ size(<<w[1], Mid(w)>>) < size(w)
  <2>1. /\ w[1] \in 0 .. n /\ w[2] \in 0 .. n /\ Mid(w) \in 0 .. n - 1
        /\ w[1] <= Mid(w) /\ Mid(w) < w[2]
        /\ <<Mid(w) + 1, w[2]>> \in D /\ <<w[1], Mid(w)>> \in D
    <3>1. w[1] \in 0 .. n /\ w[2] \in 0 .. n
      BY MidFacts
    <3>2. w[1] < w[2]
      BY <1>2, <3>1
    <3>. QED
      BY <3>1, <3>2, MidFacts
  <2>. QED
    BY <2>1
<1>. HIDE DEF D, size
<1>3. 0 \in T
  <2> DEFINE f == [w \in D |-> end[w[1]]]
  <2>1. f = [w \in D |-> f[w]]
    OBVIOUS
  <2>2. \A w \in D : size(w) <= 0 => f[w] = body(f, w)
    BY <1>1 DEF Halved
  <2>. HIDE DEF f, body
  <2>. QED
    BY <2>1, <2>2
<1>4. ASSUME NEW m \in T PROVE m + 1 \in T
  <2>1. PICK f : Good(f, m)
    OBVIOUS
  <2> DEFINE g == [w \in D |-> body(f, w)]
  <2>2. g = [w \in D |-> g[w]] /\ \A w \in D : g[w] = body(f, w)
    <3>. HIDE DEF body
    <3>. QED
      OBVIOUS
  <2>. HIDE DEF g
  <2>3. ASSUME NEW w \in D, size(w) <= m + 1 PROVE g[w] = body(g, w)
    <3>1. CASE w[1] >= w[2]
      BY <2>2, <3>1 DEF Halved
    <3>2. CASE ~(w[1] >= w[2])
      <4> DEFINE a == <<Mid(w) + 1, w[2]>>
                 b == <<w[1], Mid(w)>>
      <4>1. a \in D /\ b \in D /\ size(a) <= m /\ size(b) <= m
        <5>1. a \in D /\ b \in D /\ size(a) < size(w) /\ size(b) < size(w)
          BY <1>2, <3>2
        <5>. HIDE DEF a, b
        <5>. QED
          BY <1>1, <2>3, <5>1
      <4>2. g[a] = f[a] /\ g[b] = f[b]
        <5>. HIDE DEF a, b, body
        <5>. QED
          BY <2>1, <2>2, <4>1
      <4>. QED
        BY <2>2, <4>2 DEF Halved
    <3>. QED
      BY <3>1, <3>2
  <2>4. Good(g, m + 1)
    <3>. HIDE DEF body
    <3>. QED
      BY <2>2, <2>3
  <2>. QED
    BY <2>4
<1>5. PICK f : Good(f, n)
  <2>1. T \in SUBSET Nat
    OBVIOUS
  <2>. HIDE DEF T
  <2>2. n \in T
    BY <1>3, <1>4, <2>1, Upwards
  <2>. QED
    BY <2>2 DEF T
<1>6. \A w \in D : f[w] = body(f, w)
  <2>. HIDE DEF body
  <2>. QED
    BY <1>1, <1>5
<1>7. f = [w \in D |-> body(f, w)]
  <2>. HIDE DEF body
  <2>1. f = [w \in D |-> f[w]]
    BY <1>5
  <2>. QED
    BY <1>6, <2>1, Zenon
<1>. QED
  BY <1>7, Zenon DEF Halves, D

Divides(n, Stop, Up) ==
    /\ \A i, j \in 0 .. n - 1 : i < j /\ j \in Stop \cup Up => i \in Up
    /\ Stop \cap Up = {}

\* k lies between what is below and the rest.
Cut(k, n, Stop, Up) ==
    \A i \in 0 .. n - 1 : IF i < k THEN i \in Up ELSE i \notin Stop \cup Up

Ends(r, n, Stop, Up, answer, end) ==
    \/ \E c \in 0 .. n - 1 : c \in Stop /\ r = answer[c]
    \/ \E k \in 0 .. n : r = end[k] /\ Cut(k, n, Stop, Up)

\* Where the search stops: at an answer, or at a cut.
LEMMA HalvingEnds ==
  ASSUME NEW n \in Nat, NEW Stop, NEW Up, NEW answer, NEW end, Divides(n, Stop, Up),
         NEW f, Halves(f, n, Stop, Up, answer, end)
  PROVE  Ends(f[<<0, n>>], n, Stop, Up, answer, end)
<1> USE DEF Divides
<1> DEFINE Right(r) == \/ \E c \in 0 .. n - 1 : c \in Stop /\ r = answer[c]
                       \/ \E k \in 0 .. n : r = end[k] /\ Cut(k, n, Stop, Up)
           Open(w) == /\ w[1] <= w[2]
                      /\ \A i \in 0 .. n - 1 : i < w[1] => i \in Up
                      /\ \A i \in 0 .. n - 1 : i >= w[2] => i \notin Stop \cup Up
           D == Ranges(n)
           U == {m \in Nat : \A w \in D : Open(w) /\ w[2] - w[1] <= m => Right(f[w])}
<1>1. \A w \in D : f[w] = Halved(f, w, Stop, Up, answer, end)
  <2>1. f = [w \in D |-> Halved(f, w, Stop, Up, answer, end)]
    BY DEF Halves
  <2>. HIDE DEF D
  <2>. QED
    BY <2>1
<1>2. ASSUME NEW w \in D, Open(w), w[1] >= w[2] PROVE Right(f[w])
  <2>1. w[1] \in 0 .. n /\ w[2] \in 0 .. n
    BY MidFacts
  <2>3. w[1] = w[2]
    BY <1>2, <2>1
  <2>4. f[w] = end[w[1]]
    <3>. HIDE DEF D
    <3>. QED
      BY <1>1, <1>2 DEF Halved
  <2>2. Cut(w[1], n, Stop, Up)
    BY <1>2, <2>1, <2>3 DEF Cut
  <2>. QED
    BY <2>1, <2>2, <2>4
<1>3. 0 \in U
  <2> SUFFICES ASSUME NEW w \in D, Open(w), w[2] - w[1] <= 0 PROVE Right(f[w])
    OBVIOUS
  <2>1. w[1] >= w[2]
    <3>1. w[1] \in 0 .. n /\ w[2] \in 0 .. n
      BY MidFacts
    <3>. QED
      BY <3>1
  <2>. HIDE DEF Right, Open, D
  <2>. QED
    BY <1>2, <2>1
<1>4. ASSUME NEW m \in U PROVE m + 1 \in U
  <2> SUFFICES ASSUME NEW w \in D, Open(w), w[2] - w[1] <= m + 1 PROVE Right(f[w])
    OBVIOUS
  <2>0. w[1] \in 0 .. n /\ w[2] \in 0 .. n
    BY MidFacts
  <2>1. CASE w[1] >= w[2]
    <3>. HIDE DEF Right, Open, D
    <3>. QED
      BY <1>2, <2>1
  <2>2. CASE w[1] < w[2]
    <3> DEFINE c == Mid(w)
               a == <<c + 1, w[2]>>
               b == <<w[1], c>>
    <3>1. c \in 0 .. n - 1 /\ w[1] <= c /\ c < w[2] /\ a \in D /\ b \in D
      BY <2>2, MidFacts
    <3>2. f[w] = IF c \in Stop THEN answer[c] ELSE IF c \in Up THEN f[a] ELSE f[b]
      <4>1. ~(w[1] >= w[2])
        BY <2>0, <2>2
      <4>. HIDE DEF D
      <4>. QED
        BY <1>1, <4>1 DEF Halved
    <3>3. a[1] = c + 1 /\ a[2] = w[2] /\ b[1] = w[1] /\ b[2] = c
      OBVIOUS
    <3>. HIDE DEF a, b, c
    <3>4. CASE c \in Stop
      BY <3>1, <3>2, <3>4
    <3>5. CASE c \in Up
      <4>1. f[w] = f[a]
        BY <3>2, <3>5
      <4>2. ASSUME NEW i \in 0 .. n - 1, i < a[1] PROVE i \in Up
        <5>1. i = c \/ i < c
          BY <3>1, <3>3, <4>2
        <5>. QED
          BY <3>1, <3>5, <5>1
      <4>3. Open(a)
        BY <2>0, <3>1, <3>3, <4>2
      <4>4. a[2] - a[1] <= m
        BY <2>0, <3>1, <3>3
      <4>. HIDE DEF Right, Open
      <4>. QED
        BY <3>1, <4>1, <4>3, <4>4
    <3>6. CASE c \notin Stop \cup Up
      <4>1. f[w] = f[b]
        BY <3>2, <3>6
      <4>2. ASSUME NEW i \in 0 .. n - 1, i >= b[2] PROVE i \notin Stop \cup Up
        <5>1. i = c \/ c < i
          BY <3>1, <3>3, <4>2
        <5>. QED
          BY <3>1, <3>6, <5>1
      <4>3. Open(b)
        BY <2>0, <3>1, <3>3, <4>2
      <4>4. b[2] - b[1] <= m
        BY <2>0, <3>1, <3>3
      <4>. HIDE DEF Right, Open
      <4>. QED
        BY <3>1, <4>1, <4>3, <4>4
    <3>. QED
      BY <3>4, <3>5, <3>6
  <2>. QED
    BY <2>0, <2>1, <2>2
<1> DEFINE all == <<0, n>>
<1>5. all \in D /\ all[1] = 0 /\ all[2] = n /\ all[2] - all[1] = n
  BY DEF Ranges
<1>6. Open(all)
  <2>. HIDE DEF all
  <2>. QED
    BY <1>5
<1>7. n \in U
  <2>1. U \in SUBSET Nat
    OBVIOUS
  <2>. HIDE DEF U
  <2>. QED
    BY <1>3, <1>4, <2>1, Upwards
<1>. HIDE DEF all
<1>8. Right(f[all])
  <2>. HIDE DEF Right, Open
  <2>. QED
    BY <1>5, <1>6, <1>7
<1>. QED
  BY <1>8 DEF all, Ends

(***************************************************************************)
(* Looking an address up.                                                  *)
(***************************************************************************)
LEMMA EntryFacts ==
  ASSUME NEW e \in Entries
  PROVE  /\ e.start \in Addr /\ e.start \in Nat /\ e.size \in Nat /\ e.dead \in BOOLEAN
         /\ Words(e.size) \in Nat \ {0} /\ e.size <= Words(e.size)
         /\ (e.size # 0 => Words(e.size) = e.size)
<1>1. e.start \in Addr /\ e.size \in Nat /\ e.dead \in BOOLEAN
  BY DEF Entries
<1>2. e.start \in Nat
  BY <1>1, AddrAssumption
<1>3. \A k \in Nat : Words(k) \in Nat \ {0} /\ k <= Words(k) /\ (k # 0 => Words(k) = k)
  BY DEF Words
<1>. QED
  BY <1>1, <1>2, <1>3

LEMMA AscendingFacts ==
  ASSUME NEW s \in Seq(Entries), Ascending(s)
  PROVE  \A i, j \in DOMAIN s :
            /\ i < j => s[i].start < s[j].start /\ s[i].start + s[i].size <= s[j].start
            /\ s[i].start = s[j].start => i = j
<1>1. ASSUME NEW i \in DOMAIN s, NEW j \in DOMAIN s, i < j
      PROVE  s[i].start < s[j].start /\ s[i].start + s[i].size <= s[j].start
  <2>1. Before(s[i], s[j])
    BY <1>1 DEF Ascending
  <2>2. s[i] \in Entries /\ s[j] \in Entries
    BY SeqFacts
  <2>3. /\ s[i].start \in Nat /\ s[j].start \in Nat /\ s[i].size \in Nat
        /\ Words(s[i].size) \in Nat \ {0} /\ s[i].size <= Words(s[i].size)
    BY <2>2, EntryFacts
  <2>. QED
    BY <2>1, <2>3 DEF Before
<1>2. ASSUME NEW i \in DOMAIN s, NEW j \in DOMAIN s, s[i].start = s[j].start
      PROVE  i = j
  <2>1. i \in Nat /\ j \in Nat /\ s[i].start \in Nat /\ s[j].start \in Nat
    BY SeqFacts, EntryFacts
  <2>. QED
    BY <1>1, <1>2, <2>1
<1>. QED
  BY <1>1, <1>2

LEMMA ExactFacts ==
  ASSUME NEW t, t.blocks \in Seq(Entries), Ascending(t.blocks), NEW a \in Nat
  PROVE  FindExactInBlocks(t, a) =
            {i \in DOMAIN t.blocks \ DeadAt(t.blocks) : t.blocks[i].start = a}
<1> DEFINE s == t.blocks
           n == Len(s)
           Stop == {i \in 0 .. n - 1 : s[i + 1].start = a}
           Up == {i \in 0 .. n - 1 : s[i + 1].start < a}
           answer == [i \in 0 .. n - 1 |-> IF s[i + 1].dead THEN {} ELSE {i + 1}]
           end == [k \in 0 .. n |-> {}]
           body(f, w) ==
              IF w[1] >= w[2] THEN {}
              ELSE IF s[Mid(w) + 1].start = a
                   THEN IF s[Mid(w) + 1].dead THEN {} ELSE {Mid(w) + 1}
              ELSE IF s[Mid(w) + 1].start < a THEN f[<<Mid(w) + 1, w[2]>>]
              ELSE f[<<w[1], Mid(w)>>]
           R(f) == f = [w \in Ranges(n) |-> body(f, w)]
           search == CHOOSE f : R(f)
           found == {i \in DOMAIN s \ DeadAt(s) : s[i].start = a}
<1>1. FindExactInBlocks(t, a) = search[<<0, n>>]
  BY DEF FindExactInBlocks, Ranges, Mid
<1>2. /\ n \in Nat /\ DOMAIN s = 1 .. n
      /\ \A i \in 1 .. n : s[i] \in Entries /\ s[i].start \in Nat
  BY SeqFacts, EntryFacts
<1>3. \A i, j \in 1 .. n : (i < j => s[i].start < s[j].start) /\ (s[i].start = s[j].start => i = j)
  BY <1>2, AscendingFacts
<1>. HIDE DEF s, n
<1>4. ASSUME NEW f, NEW w \in Ranges(n)
      PROVE  body(f, w) = Halved(f, w, Stop, Up, answer, end)
  <2>0. w[1] \in 0 .. n /\ w[2] \in 0 .. n
    BY <1>2, MidFacts
  <2>1. CASE w[1] >= w[2]
    BY <2>0, <2>1 DEF Halved
  <2>2. CASE w[1] < w[2]
    <3>1. Mid(w) \in 0 .. n - 1
      BY <1>2, <2>2, MidFacts
    <3>2. ~(w[1] >= w[2])
      BY <1>2, <2>0, <2>2
    <3>. QED
      BY <3>1, <3>2 DEF Halved
  <2>. QED
    BY <2>0, <2>1, <2>2
<1>. HIDE DEF body
<1>5. \A f : R(f) <=> Halves(f, n, Stop, Up, answer, end)
  BY <1>4 DEF Halves
<1>. HIDE DEF R
<1>6. Halves(search, n, Stop, Up, answer, end)
  <2>. HIDE DEF Stop, Up, answer, end
  <2>1. \E f : Halves(f, n, Stop, Up, answer, end)
    BY <1>2, HalvingExists
  <2>. QED
    BY <1>5, <2>1
<1>. HIDE DEF search
<1>7. \A i, j \in 0 .. n - 1 : i < j /\ j \in Stop \cup Up => i \in Up
  <2> SUFFICES ASSUME NEW i \in 0 .. n - 1, NEW j \in 0 .. n - 1, i < j, j \in Stop \cup Up
               PROVE  i \in Up
    OBVIOUS
  <2>1. i + 1 \in 1 .. n /\ j + 1 \in 1 .. n /\ i + 1 < j + 1
    BY <1>2
  <2>2. s[i + 1].start < s[j + 1].start /\ s[i + 1].start \in Nat /\ s[j + 1].start \in Nat
    BY <1>2, <1>3, <2>1
  <2>. QED
    BY <2>2
<1>8. Stop \cap Up = {}
  <2>1. \A i \in 0 .. n - 1 : i + 1 \in 1 .. n
    BY <1>2
  <2>. QED
    BY <1>2, <2>1
<1>9. Ends(search[<<0, n>>], n, Stop, Up, answer, end)
  <2>1. Divides(n, Stop, Up)
    BY <1>7, <1>8 DEF Divides
  <2>. HIDE DEF Stop, Up, answer, end
  <2>. QED
    BY <1>2, <1>6, <2>1, HalvingEnds
<1>10. CASE \E c \in 0 .. n - 1 : c \in Stop /\ search[<<0, n>>] = answer[c]
  <2>1. PICK c \in 0 .. n - 1 : c \in Stop /\ search[<<0, n>>] = answer[c]
    BY <1>10
  <2>2. c + 1 \in 1 .. n /\ s[c + 1].start = a
    BY <1>2, <2>1
  <2>3. \A i \in 1 .. n : s[i].start = a => i = c + 1
    BY <1>3, <2>2
  <2>4. search[<<0, n>>] = IF s[c + 1].dead THEN {} ELSE {c + 1}
    BY <2>1
  <2>5. found = IF s[c + 1].dead THEN {} ELSE {c + 1}
    BY <1>2, <2>2, <2>3 DEF DeadAt
  <2>. QED
    BY <1>1, <2>4, <2>5 DEF s
<1>11. CASE \E k \in 0 .. n : search[<<0, n>>] = end[k] /\ Cut(k, n, Stop, Up)
  <2>1. PICK k \in 0 .. n : search[<<0, n>>] = end[k] /\ Cut(k, n, Stop, Up)
    BY <1>11
  <2>2. search[<<0, n>>] = {}
    BY <2>1
  <2>3. ASSUME NEW i \in 1 .. n PROVE s[i].start # a
    <3>1. i - 1 \in 0 .. n - 1 /\ (i - 1) + 1 = i
      BY <1>2
    <3>2. i - 1 \notin Stop
      BY <1>8, <2>1, <3>1 DEF Cut
    <3>. QED
      BY <3>1, <3>2
  <2>4. found = {}
    BY <1>2, <2>3
  <2>. QED
    BY <1>1, <2>2, <2>4 DEF s
<1>. QED
  <2>. HIDE DEF Stop, Up, answer, end
  <2>. QED
    BY <1>9, <1>10, <1>11 DEF Ends

LEMMA NotAfterFacts ==
  ASSUME NEW t, t.blocks \in Seq(Entries), Ascending(t.blocks), NEW v \in Nat
  PROVE  /\ NotAfter(t, v) \in 0 .. Len(t.blocks)
         /\ \A i \in DOMAIN t.blocks : t.blocks[i].start <= v <=> i <= NotAfter(t, v)
<1> DEFINE s == t.blocks
           n == Len(s)
           Up == {i \in 0 .. n - 1 : s[i + 1].start <= v}
           end == [k \in 0 .. n |-> k]
           body(f, w) ==
              IF w[1] >= w[2] THEN w[1]
              ELSE IF s[Mid(w) + 1].start <= v THEN f[<<Mid(w) + 1, w[2]>>]
              ELSE f[<<w[1], Mid(w)>>]
           R(f) == f = [w \in Ranges(n) |-> body(f, w)]
           last == CHOOSE f : R(f)
<1>1. NotAfter(t, v) = last[<<0, n>>]
  BY DEF NotAfter, Ranges, Mid
<1>2. /\ n \in Nat /\ DOMAIN s = 1 .. n
      /\ \A i \in 1 .. n : s[i] \in Entries /\ s[i].start \in Nat
  BY SeqFacts, EntryFacts
<1>3. \A i, j \in 1 .. n : i < j => s[i].start < s[j].start
  BY <1>2, AscendingFacts
<1>. HIDE DEF s, n
<1>4. ASSUME NEW f, NEW w \in Ranges(n)
      PROVE  body(f, w) = Halved(f, w, {}, Up, end, end)
  <2>0. w[1] \in 0 .. n /\ w[2] \in 0 .. n
    BY <1>2, MidFacts
  <2>1. CASE w[1] >= w[2]
    BY <2>0, <2>1 DEF Halved
  <2>2. CASE w[1] < w[2]
    <3>1. Mid(w) \in 0 .. n - 1
      BY <1>2, <2>2, MidFacts
    <3>2. ~(w[1] >= w[2])
      BY <1>2, <2>0, <2>2
    <3>. QED
      BY <3>1, <3>2 DEF Halved
  <2>. QED
    BY <2>0, <2>1, <2>2
<1>. HIDE DEF body
<1>5. \A f : R(f) <=> Halves(f, n, {}, Up, end, end)
  BY <1>4 DEF Halves
<1>. HIDE DEF R
<1>6. Halves(last, n, {}, Up, end, end)
  <2>. HIDE DEF Up, end
  <2>1. \E f : Halves(f, n, {}, Up, end, end)
    BY <1>2, HalvingExists
  <2>. QED
    BY <1>5, <2>1
<1>. HIDE DEF last
<1>7. \A i, j \in 0 .. n - 1 : i < j /\ j \in {} \cup Up => i \in Up
  <2> SUFFICES ASSUME NEW i \in 0 .. n - 1, NEW j \in 0 .. n - 1, i < j, j \in Up
               PROVE  i \in Up
    OBVIOUS
  <2>1. i + 1 \in 1 .. n /\ j + 1 \in 1 .. n /\ i + 1 < j + 1
    BY <1>2
  <2>2. s[i + 1].start < s[j + 1].start /\ s[i + 1].start \in Nat /\ s[j + 1].start \in Nat
    BY <1>2, <1>3, <2>1
  <2>. QED
    BY <2>2
<1>8. PICK k \in 0 .. n : last[<<0, n>>] = end[k] /\ Cut(k, n, {}, Up)
  <2>1. Divides(n, {}, Up)
    BY <1>7 DEF Divides
  <2>. HIDE DEF Up, end
  <2>2. Ends(last[<<0, n>>], n, {}, Up, end, end)
    BY <1>2, <1>6, <2>1, HalvingEnds
  <2>. QED
    BY <2>2 DEF Ends
<1>9. NotAfter(t, v) = k
  BY <1>1, <1>8
<1>10. ASSUME NEW i \in 1 .. n PROVE s[i].start <= v <=> i <= k
  <2>1. i - 1 \in 0 .. n - 1 /\ (i - 1) + 1 = i /\ (i - 1 < k <=> i <= k)
    BY <1>2
  <2>2. i - 1 \in Up <=> s[i].start <= v
    BY <2>1
  <2>. HIDE DEF Up
  <2>. QED
    BY <1>8, <2>1, <2>2 DEF Cut
<1>. QED
  BY <1>2, <1>9, <1>10 DEF s, n

Inside(e, v) == e.start <= v /\ v < e.start + e.size

LEMMA ContainingFacts ==
  ASSUME NEW t, t.blocks \in Seq(Entries), Ascending(t.blocks), NEW v \in Nat
  PROVE  FindContaining(t, v) = {e \in Live(t) : Inside(e, v)}
<1> DEFINE s == t.blocks
           k == NotAfter(t, v)
<1>1. /\ Len(s) \in Nat /\ DOMAIN s = 1 .. Len(s)
      /\ \A i \in DOMAIN s : s[i] \in Entries /\ s[i].start \in Nat /\ s[i].size \in Nat
  BY SeqFacts, EntryFacts
<1>2. k \in 0 .. Len(s) /\ \A i \in DOMAIN s : s[i].start <= v <=> i <= k
  BY NotAfterFacts
<1>3. FindContaining(t, v) =
         {e \in {s[j] : j \in {k} \ {0}} : ~e.dead /\ v >= e.start /\ v < e.start + e.size}
  BY DEF FindContaining
<1>. HIDE DEF k
<1>4. ASSUME NEW e \in FindContaining(t, v) PROVE e \in Live(t) /\ Inside(e, v)
  <2>1. k # 0 /\ e = s[k] /\ ~e.dead /\ v >= e.start /\ v < e.start + e.size
    BY <1>3
  <2>2. k \in DOMAIN s /\ k \notin DeadAt(s)
    BY <1>1, <1>2, <2>1 DEF DeadAt
  <2>3. e.start <= v
    BY <1>1, <2>1, <2>2
  <2>. QED
    BY <2>1, <2>2, <2>3 DEF Live, Inside
<1>5. ASSUME NEW e \in Live(t), Inside(e, v) PROVE e \in FindContaining(t, v)
  <2>1. PICK i \in DOMAIN s \ DeadAt(s) : e = s[i]
    BY DEF Live
  <2>2. i \in Nat /\ i # 0 /\ i <= k /\ ~e.dead /\ e.start <= v /\ v < e.start + e.size
    BY <1>1, <1>2, <1>5, <2>1 DEF DeadAt, Inside
  <2>3. ASSUME i # k PROVE FALSE
    <3>1. k \in DOMAIN s /\ i < k
      BY <1>1, <1>2, <2>2, <2>3
    <3>2. s[i].start + s[i].size <= s[k].start /\ s[k].start <= v
      BY <1>2, <2>1, <3>1, AscendingFacts
    <3>. QED
      BY <1>1, <2>1, <2>2, <3>1, <3>2
  <2>4. v >= e.start
    BY <1>1, <2>1, <2>2
  <2>. QED
    BY <1>3, <2>1, <2>2, <2>3, <2>4
<1>. QED
  BY <1>4, <1>5

(***************************************************************************)
(* What the invariant says of one address.                                 *)
(***************************************************************************)
LEMMA RegistryFacts ==
  ASSUME NEW ch, HeapOK(ch), NEW e \in Registry(ch)
  PROVE  /\ e \in Entries /\ e.start \in Starts(ch, "gc") /\ e.start \in Addr
         /\ e.size = ch[e.start].size /\ e.dead = FALSE
         /\ e = Entry(e.start, ch[e.start].size)
<1>1. PICK a \in Starts(ch, "gc") : e = Entry(a, ch[a].size)
  BY DEF Registry
<1>2. a \in Addr /\ ch[a] \in Chunk
  BY DEF Starts, HeapOK
<1>3. ch[a].size \in Nat
  BY <1>2 DEF Chunk
<1>4. e.start = a /\ e.size = ch[a].size /\ e.dead = FALSE
  BY <1>1 DEF Entry
<1>5. e \in Entries
  BY <1>1, <1>2, <1>3 DEF Entry, Entries
<1>. QED
  BY <1>1, <1>2, <1>4, <1>5

LEMMA ChunkFacts ==
  ASSUME NEW ch, HeapOK(ch), NEW a \in Addr
  PROVE  /\ a \in Nat /\ ch[a].size \in Nat /\ ch[a].owner \in {"none", "gc", "manual"}
         /\ (a \in Starts(ch, "gc") <=> ch[a].owner = "gc")
<1>1. ch[a] \in Chunk
  BY DEF HeapOK
<1>2. ch[a].size \in Nat /\ ch[a].owner \in {"none", "gc", "manual"}
  BY <1>1 DEF Chunk
<1>. QED
  BY <1>2, AddrAssumption DEF Starts

LEMMA AroundOne ==
  ASSUME NEW ch, HeapOK(ch), NEW v \in Nat, NEW b \in Around(ch, v), NEW c \in Around(ch, v)
  PROVE  b = c
<1>1. ASSUME NEW x \in Around(ch, v), NEW y \in Around(ch, v) PROVE ~(x < y)
  <2>1. /\ x \in Addr /\ y \in Addr /\ ch[x].owner = "gc" /\ ch[y].owner = "gc"
        /\ v < x + ch[x].size /\ y <= v
    BY DEF Around, Starts
  <2>2. x < y => x + Words(ch[x].size) <= y
    BY <2>1 DEF HeapOK
  <2>3. ch[x].size \in Nat /\ x \in Nat /\ y \in Nat
    BY <2>1, ChunkFacts
  <2>4. \A k \in Nat : Words(k) \in Nat /\ k <= Words(k)
    BY DEF Words
  <2>. HIDE DEF Words
  <2>. QED
    BY <2>1, <2>2, <2>3, <2>4
<1>2. b \in Nat /\ c \in Nat
  BY ChunkFacts DEF Around, Starts
<1>. QED
  BY <1>1, <1>2

\* What the table is a record of.
Tells(t, ch) == HeapOK(ch) /\ TableOK(t) /\ Told(t, ch)

LEMMA TellsEntries ==
  ASSUME NEW t, NEW ch, Tells(t, ch)
  PROVE  /\ t.blocks \in Seq(Entries) /\ Ascending(t.blocks)
         /\ t.pending \in Seq(Entries) /\ OneEach(t.pending)
         /\ IndexOK(t.index, t.pending)
         /\ \A i \in DOMAIN t.pending :
               t.pending[i] \in Registry(ch) /\ t.pending[i].start \in Addr
         /\ \A i \in DOMAIN t.blocks \ DeadAt(t.blocks) : t.blocks[i] \in Registry(ch)
<1>1. /\ t.blocks \in Seq(Entries) /\ Ascending(t.blocks)
      /\ t.pending \in Seq(Entries) /\ OneEach(t.pending)
      /\ IndexOK(t.index, t.pending)
  BY DEF Tells, TableOK, IsTable
<1>2. Live(t) \cup Waiting(t) = Registry(ch)
  BY DEF Tells, Told
<1>3. \A i \in DOMAIN t.pending : t.pending[i] \in Registry(ch)
  BY <1>2 DEF Waiting
<1>4. \A i \in DOMAIN t.blocks \ DeadAt(t.blocks) : t.blocks[i] \in Registry(ch)
  BY <1>2 DEF Live
<1>5. \A e \in Registry(ch) : e.start \in Addr
  BY RegistryFacts DEF Tells
<1>. QED
  BY <1>1, <1>3, <1>4, <1>5

\* a starts one block: where the table has it.
LEMMA TellsExact ==
  ASSUME NEW t, NEW ch, Tells(t, ch), NEW a \in Addr
  PROVE  /\ \A i \in FindExactInPending(t, a) :
               /\ i \in DOMAIN t.pending /\ t.pending[i].start = a
               /\ t.pending[i] = Entry(a, ch[a].size) /\ a \in Starts(ch, "gc")
         /\ \A i \in FindExactInBlocks(t, a) :
               /\ i \in DOMAIN t.blocks \ DeadAt(t.blocks) /\ t.blocks[i].start = a
               /\ t.blocks[i] = Entry(a, ch[a].size) /\ a \in Starts(ch, "gc")
         /\ a \in Starts(ch, "gc") =>
               FindExactInPending(t, a) # {} \/ FindExactInBlocks(t, a) # {}
         /\ FindExactInPending(t, a) = {i \in DOMAIN t.pending : t.pending[i].start = a}
         /\ FindExactInBlocks(t, a) =
               {i \in DOMAIN t.blocks \ DeadAt(t.blocks) : t.blocks[i].start = a}
<1>0. a \in Nat
  BY AddrAssumption
<1>1. FindExactInPending(t, a) = {i \in DOMAIN t.pending : t.pending[i].start = a}
  BY TellsEntries, PendingFacts DEF OneEach
<1>2. FindExactInBlocks(t, a) =
         {i \in DOMAIN t.blocks \ DeadAt(t.blocks) : t.blocks[i].start = a}
  BY <1>0, TellsEntries, ExactFacts
<1>3. \A e \in Registry(ch) : e = Entry(e.start, ch[e.start].size) /\ e.start \in Starts(ch, "gc")
  BY RegistryFacts DEF Tells
<1>4. ASSUME NEW i \in FindExactInPending(t, a)
      PROVE  /\ i \in DOMAIN t.pending /\ t.pending[i].start = a
             /\ t.pending[i] = Entry(a, ch[a].size) /\ a \in Starts(ch, "gc")
  <2>1. i \in DOMAIN t.pending /\ t.pending[i].start = a
    BY <1>1
  <2>2. t.pending[i] \in Registry(ch)
    BY <2>1, TellsEntries
  <2>. QED
    BY <1>3, <2>1, <2>2
<1>5. ASSUME NEW i \in FindExactInBlocks(t, a)
      PROVE  /\ i \in DOMAIN t.blocks \ DeadAt(t.blocks) /\ t.blocks[i].start = a
             /\ t.blocks[i] = Entry(a, ch[a].size) /\ a \in Starts(ch, "gc")
  <2>1. i \in DOMAIN t.blocks \ DeadAt(t.blocks) /\ t.blocks[i].start = a
    BY <1>2
  <2>2. t.blocks[i] \in Registry(ch)
    BY <2>1, TellsEntries
  <2>. QED
    BY <1>3, <2>1, <2>2
<1>6. ASSUME a \in Starts(ch, "gc")
      PROVE  FindExactInPending(t, a) # {} \/ FindExactInBlocks(t, a) # {}
  <2> DEFINE e == Entry(a, ch[a].size)
  <2>1. e \in Registry(ch) /\ e.start = a
    BY <1>6 DEF Registry, Entry
  <2>. HIDE DEF e
  <2>2. e \in Live(t) \/ e \in Waiting(t)
    BY <2>1 DEF Tells, Told
  <2>3. CASE e \in Live(t)
    <3>1. PICK i \in DOMAIN t.blocks \ DeadAt(t.blocks) : t.blocks[i] = e
      BY <2>3 DEF Live
    <3>. QED
      BY <1>2, <2>1, <3>1
  <2>4. CASE e \in Waiting(t)
    <3>1. PICK i \in DOMAIN t.pending : t.pending[i] = e
      BY <2>4 DEF Waiting
    <3>. QED
      BY <1>1, <2>1, <3>1
  <2>. QED
    BY <2>2, <2>3, <2>4
<1>. QED
  BY <1>1, <1>2, <1>4, <1>5, <1>6

\* v may be inside one block: what gc_find_containing_any answers.
LEMMA TellsInside ==
  ASSUME NEW t, NEW ch, Tells(t, ch), NEW v \in Addr
  PROVE  /\ \A e \in FindContainingAny(t, v) :
               /\ e \in Registry(ch) /\ e.start \in Around(ch, v)
               /\ e = Entry(e.start, ch[e.start].size)
         /\ {e.start : e \in FindContainingAny(t, v)} = Around(ch, v)
<1> DEFINE P == {i \in DOMAIN t.pending : Inside(t.pending[i], v)}
           Q == {i \in DOMAIN t.pending :
                       LET e == t.pending[i]
                       IN  v >= e.start /\ v < e.start + e.size}
           F == FindContaining(t, v)
           A == FindContainingAny(t, v)
<1>1. v \in Nat /\ HeapOK(ch)
  BY AddrAssumption DEF Tells
<1>2. F = {e \in Live(t) : Inside(e, v)}
  BY <1>1, TellsEntries, ContainingFacts
<1>3. A = IF F # {} \/ P = {} THEN F ELSE {t.pending[Min(P)]}
  <2>1. A = IF F # {} \/ Q = {} THEN F ELSE {t.pending[Min(Q)]}
    BY DEF FindContainingAny
  <2>2. \A i \in DOMAIN t.pending : t.pending[i].start \in Nat
    BY TellsEntries, AddrAssumption
  <2>3. P = Q
    BY <1>1, <2>2 DEF Inside
  <2>. QED
    BY <2>1, <2>3
<1>4. P # {} => Min(P) \in P
  <2>1. P \in SUBSET Nat
    BY TellsEntries, SeqFacts
  <2>2. P # {} => \E e \in P : \A j \in P : e <= j
    BY <2>1, Least
  <2>. HIDE DEF P
  <2>. QED
    BY <2>2 DEF Min
<1>. HIDE DEF F, P, Q, A
<1>5. ASSUME NEW e \in Registry(ch), Inside(e, v)
      PROVE  e.start \in Around(ch, v) /\ e = Entry(e.start, ch[e.start].size)
  <2>1. e.start \in Starts(ch, "gc") /\ e.size = ch[e.start].size
        /\ e = Entry(e.start, ch[e.start].size)
    BY <1>1, RegistryFacts
  <2>. QED
    BY <1>5, <2>1 DEF Around, Inside
<1>6. Live(t) \subseteq Registry(ch) /\ \A i \in DOMAIN t.pending : t.pending[i] \in Registry(ch)
  BY TellsEntries DEF Tells, Told
<1>7. ASSUME NEW e \in A
      PROVE  /\ e \in Registry(ch) /\ e.start \in Around(ch, v)
             /\ e = Entry(e.start, ch[e.start].size)
  <2>1. CASE e \in F
    BY <1>2, <1>5, <1>6, <2>1
  <2>2. CASE P # {} /\ e = t.pending[Min(P)]
    <3>1. Min(P) \in DOMAIN t.pending /\ Inside(e, v)
      BY <1>4, <2>2 DEF P
    <3>. QED
      BY <1>5, <1>6, <2>2, <3>1
  <2>. QED
    BY <1>3, <2>1, <2>2
<1>8. ASSUME NEW b \in Around(ch, v) PROVE A # {}
  <2> DEFINE e == Entry(b, ch[b].size)
  <2>1. b \in Starts(ch, "gc") /\ b <= v /\ v < b + ch[b].size
    BY DEF Around
  <2>2. e \in Registry(ch) /\ Inside(e, v)
    BY <2>1 DEF Registry, Entry, Inside
  <2>. HIDE DEF e
  <2>3. e \in Live(t) \/ e \in Waiting(t)
    BY <2>2 DEF Tells, Told
  <2>4. CASE e \in Live(t)
    BY <1>2, <1>3, <2>2, <2>4
  <2>5. CASE e \in Waiting(t)
    <3>1. PICK i \in DOMAIN t.pending : t.pending[i] = e
      BY <2>5 DEF Waiting
    <3>2. i \in P
      BY <2>2, <3>1 DEF P
    <3>. QED
      BY <1>3, <3>2
  <2>. QED
    BY <2>3, <2>4, <2>5
<1>9. {e.start : e \in A} = Around(ch, v)
  <2>1. ASSUME NEW b \in Around(ch, v) PROVE b \in {e.start : e \in A}
    <3>1. PICK e \in A : TRUE
      BY <1>8
    <3>2. e.start = b
      BY <1>1, <1>7, AroundOne
    <3>. QED
      BY <3>2
  <2>. QED
    BY <1>7, <2>1
<1>. QED
  BY <1>7, <1>9 DEF A

\* turf_rt_string_capacity.
LEMMA TellsCapacity ==
  ASSUME NEW t, NEW ch, Tells(t, ch), NEW v \in Addr
  PROVE  StringCapacity(t, v) =
            IF v \in Starts(ch, "gc") THEN ch[v].size
            ELSE LET b == CHOOSE c \in Around(ch, v) : TRUE
                 IN  IF Around(ch, v) = {} THEN -1 ELSE b + ch[b].size - v
<1> DEFINE sizes == {t.pending[i].size : i \in FindExactInPending(t, v)}
           sorted == {t.blocks[i].size : i \in FindExactInBlocks(t, v)}
           inside == {e.start + e.size - v : e \in FindContainingAny(t, v)}
           b == CHOOSE c \in Around(ch, v) : TRUE
<1>1. StringCapacity(t, v) =
         IF sizes # {} THEN CHOOSE x \in sizes : TRUE
         ELSE IF sorted # {} THEN CHOOSE x \in sorted : TRUE
         ELSE IF inside # {} THEN CHOOSE x \in inside : TRUE
         ELSE -1
  BY DEF StringCapacity
<1>2. \A e : e = Entry(v, ch[v].size) => e.size = ch[v].size
  BY DEF Entry
<1>3. (\A x \in sizes : x = ch[v].size) /\ (\A x \in sorted : x = ch[v].size)
  BY <1>2, TellsExact
<1>4. v \in Starts(ch, "gc") <=> sizes # {} \/ sorted # {}
  BY TellsExact
<1>5. \A x \in inside : Around(ch, v) # {} /\ x = b + ch[b].size - v
  <2> SUFFICES ASSUME NEW e \in FindContainingAny(t, v)
               PROVE  Around(ch, v) # {} /\ e.start + e.size - v = b + ch[b].size - v
    OBVIOUS
  <2>1. e \in Registry(ch) /\ e.start \in Around(ch, v)
    BY TellsInside
  <2>2. e.size = ch[e.start].size
    BY <2>1, RegistryFacts DEF Tells
  <2>3. b \in Around(ch, v)
    BY <2>1
  <2>. HIDE DEF b
  <2>4. v \in Nat /\ HeapOK(ch)
    BY AddrAssumption DEF Tells
  <2>5. e.start = b
    BY <2>1, <2>3, <2>4, AroundOne
  <2>. QED
    BY <2>1, <2>2, <2>5
<1>6. inside = {} => Around(ch, v) = {}
  BY TellsInside
<1>. HIDE DEF sizes, sorted, inside
<1>. QED
  BY <1>1, <1>3, <1>4, <1>5, <1>6

(***************************************************************************)
(* Changing the table.                                                     *)
(***************************************************************************)
LEMMA TableFacts ==
  ASSUME NEW t, TableOK(t)
  PROVE  /\ DOMAIN t = {"blocks", "dead", "pending", "index"}
         /\ t.blocks \in Seq(Entries) /\ Len(t.blocks) \in Nat
         /\ DOMAIN t.blocks = 1 .. Len(t.blocks)
         /\ \A i \in DOMAIN t.blocks : t.blocks[i] \in Entries
         /\ t.pending \in Seq(Entries) /\ Len(t.pending) \in Nat
         /\ DOMAIN t.pending = 1 .. Len(t.pending)
         /\ \A i \in DOMAIN t.pending :
               t.pending[i] \in Entries /\ t.pending[i].start \in Addr
         /\ Ascending(t.blocks) /\ t.dead = Cardinality(DeadAt(t.blocks))
         /\ IsFiniteSet(DeadAt(t.blocks)) /\ t.dead \in Nat
         /\ OneEach(t.pending) /\ IndexOK(t.index, t.pending)
<1>1. /\ DOMAIN t = {"blocks", "dead", "pending", "index"}
      /\ t.blocks \in Seq(Entries) /\ t.pending \in Seq(Entries)
      /\ Ascending(t.blocks) /\ t.dead = Cardinality(DeadAt(t.blocks))
      /\ OneEach(t.pending) /\ IndexOK(t.index, t.pending)
  BY DEF TableOK, IsTable
<1>2. /\ Len(t.blocks) \in Nat /\ DOMAIN t.blocks = 1 .. Len(t.blocks)
      /\ \A i \in DOMAIN t.blocks : t.blocks[i] \in Entries
  BY <1>1, SeqFacts
<1>3. /\ Len(t.pending) \in Nat /\ DOMAIN t.pending = 1 .. Len(t.pending)
      /\ \A i \in DOMAIN t.pending : t.pending[i] \in Entries
  BY <1>1, SeqFacts
<1>4. \A i \in DOMAIN t.pending : t.pending[i].start \in Addr
  BY <1>3, EntryFacts
<1>5. IsFiniteSet(DeadAt(t.blocks))
  <2>1. DeadAt(t.blocks) \in SUBSET (1 .. Len(t.blocks))
    BY <1>2 DEF DeadAt
  <2>2. IsFiniteSet(1 .. Len(t.blocks))
    BY <1>2, FS_Interval
  <2>. QED
    BY <2>1, <2>2, FS_Subset
<1>6. t.dead \in Nat
  BY <1>1, <1>5, FS_CardinalityType
<1>. QED
  BY <1>1, <1>2, <1>3, <1>4, <1>5, <1>6

\* turf_gc_register_block of an address that waits for nothing.
LEMMA RegisteredOK ==
  ASSUME NEW t, TableOK(t), NEW p \in Addr, NEW n \in Nat,
         \A e \in Waiting(t) : e.start # p,
         NEW u, u = Registered(t, p, n)
  PROVE  TableOK(u) /\ Live(u) = Live(t) /\ Waiting(u) = Waiting(t) \cup {Entry(p, n)}
<1> DEFINE e == Entry(p, n)
           pd == Append(t.pending, e)
           m == Len(t.pending)
<1>1. e \in Entries /\ e.start = p
  BY DEF Entry, Entries
<1>2. /\ DOMAIN u = {"blocks", "dead", "pending", "index"}
      /\ u.blocks = t.blocks /\ u.dead = t.dead /\ u.pending = pd
      /\ u.index = Indexed(t.index, pd)
  <2>1. u = [t EXCEPT !.pending = pd, !.index = Indexed(t.index, pd)]
    BY DEF Registered
  <2>2. DOMAIN t = {"blocks", "dead", "pending", "index"}
    BY TableFacts
  <2>. HIDE DEF pd
  <2>. QED
    BY <2>1, <2>2
<1>. HIDE DEF e
<1>3. /\ pd \in Seq(Entries) /\ m \in Nat /\ Len(pd) = m + 1 /\ DOMAIN pd = 1 .. m + 1
      /\ DOMAIN t.pending = 1 .. m /\ pd[m + 1] = e
      /\ \A i \in 1 .. m : pd[i] = t.pending[i]
  <2>1. Appended(pd, t.pending, e, Entries)
    BY <1>1, TableFacts, AppendFacts
  <2>. HIDE DEF pd
  <2>. QED
    BY <2>1 DEF Appended
<1>. HIDE DEF pd
<1>4. Waiting(u) = Waiting(t) \cup {e}
  <2>1. \A i \in 1 .. m + 1 : i \in 1 .. m \/ i = m + 1
    BY <1>3
  <2>2. m + 1 \in 1 .. m + 1 /\ \A i \in 1 .. m : i \in 1 .. m + 1
    BY <1>3
  <2>. QED
    BY <1>2, <1>3, <2>1, <2>2 DEF Waiting
<1>5. \A i \in 1 .. m : t.pending[i].start \in Addr /\ t.pending[i].start # p
  BY <1>3, TableFacts DEF Waiting
<1>6. OneEach(pd)
  <2> SUFFICES ASSUME NEW i \in DOMAIN pd, NEW j \in DOMAIN pd, pd[i].start = pd[j].start
               PROVE  i = j
    BY DEF OneEach
  <2>1. (i \in 1 .. m \/ i = m + 1) /\ (j \in 1 .. m \/ j = m + 1)
    BY <1>3
  <2>2. OneEach(t.pending)
    BY TableFacts
  <2>. QED
    BY <1>1, <1>3, <1>5, <2>1, <2>2 DEF OneEach
<1>7. IndexOK(u.index, pd)
  <2>1. /\ m + 1 \in Nat \ {0} /\ (m + 1) - 1 = m
        /\ \A i \in DOMAIN pd : pd[i].start \in Addr
    <3>1. \A i \in 1 .. m + 1 : i \in 1 .. m \/ i = m + 1
      BY <1>3
    <3>. QED
      BY <1>1, <1>3, <1>5, <3>1
  <2>2. IndexOK(t.index, t.pending)
    BY TableFacts
  <2> DEFINE k == m + 1
             ix == t.index
             qd == t.pending
  <2>3. /\ k \in Nat \ {0} /\ DOMAIN pd = 1 .. k /\ Len(pd) = k /\ DOMAIN qd = 1 .. k - 1
        /\ \A i \in 1 .. k - 1 : qd[i] = pd[i]
    BY <1>3, <2>1
  <2>. HIDE DEF k, ix, qd, m
  <2>4. IndexOK(Indexed(ix, pd), pd)
    BY <1>6, <2>1, <2>2, <2>3, IndexedOK DEF ix, qd
  <2>. QED
    BY <1>2, <2>4 DEF ix
<1>8. IsTable(u)
  BY <1>2, <1>3, TableFacts DEF IsTable
<1>9. TableOK(u)
  BY <1>2, <1>6, <1>7, <1>8, TableFacts DEF TableOK
<1>. QED
  BY <1>2, <1>4, <1>9 DEF Live, e

\* pending_remove.
LEMMA PendingRemovedOK ==
  ASSUME NEW t, TableOK(t), NEW i \in DOMAIN t.pending,
         NEW u, u = PendingRemoved(t, i)
  PROVE  TableOK(u) /\ Live(u) = Live(t) /\ Waiting(u) = Waiting(t) \ {t.pending[i]}
<1> DEFINE pd == t.pending
           n == Len(pd)
           last == pd[n]
           xd == [pd EXCEPT ![i] = last]
           qd == Front(xd)
           ix == t.index
           slot == Dropped(ix, i, pd)
           g == [ix EXCEPT !.slot = slot]
<1>0. /\ n \in Nat /\ pd \in Seq(Entries) /\ DOMAIN pd = 1 .. n /\ i \in 1 .. n
      /\ IndexOK(ix, pd) /\ OneEach(pd) /\ \A j \in 1 .. n : pd[j].start \in Addr
  BY TableFacts
<1>1. /\ DOMAIN u = {"blocks", "dead", "pending", "index"}
      /\ u.blocks = t.blocks /\ u.dead = t.dead /\ u.pending = qd /\ u.index = g
  <2>1. u = [t EXCEPT !.pending = Front([@ EXCEPT ![i] = last]), !.index.slot = slot]
    BY DEF PendingRemoved, Dropped
  <2>2. DOMAIN t = {"blocks", "dead", "pending", "index"}
    BY TableFacts
  <2>. HIDE DEF slot, last
  <2>. QED
    BY <2>1, <2>2
<1>2. /\ qd \in Seq(Entries) /\ DOMAIN qd = 1 .. n - 1
      /\ \A j \in 1 .. n - 1 : qd[j] = IF j = i THEN last ELSE pd[j]
  <2>1. n \in 1 .. n /\ last \in Entries
    BY <1>0, SeqFacts
  <2>. HIDE DEF last
  <2>2. xd \in Seq(Entries) /\ Len(xd) = n /\ \A j \in 1 .. n : xd[j] = IF j = i THEN last ELSE pd[j]
    BY <1>0, <2>1
  <2>. HIDE DEF xd
  <2>3. qd \in Seq(Entries) /\ Len(qd) = n - 1 /\ \A j \in 1 .. n - 1 : qd[j] = xd[j]
    BY <1>0, <2>1, <2>2 DEF Front
  <2>. HIDE DEF qd
  <2>4. DOMAIN qd = 1 .. n - 1
    BY <2>3
  <2>5. \A j \in 1 .. n - 1 : j \in 1 .. n
    BY <1>0
  <2>. QED
    BY <2>2, <2>3, <2>4, <2>5
<1>3. DOMAIN g = {"cap", "used", "slot"} /\ g.cap = ix.cap /\ g.used = ix.used /\ g.slot = slot
  <2>1. DOMAIN ix = {"cap", "used", "slot"}
    BY <1>0 DEF IndexOK, IsIndex
  <2>. HIDE DEF slot
  <2>. QED
    BY <2>1
<1>. HIDE DEF g, qd, xd, n, ix
<1>4. \A j \in DOMAIN pd : \E s : SlotOf(ix, pd[j].start, j, s)
  <2> SUFFICES ASSUME NEW j \in DOMAIN pd PROVE \E s : SlotOf(ix, pd[j].start, j, s)
    OBVIOUS
  <2>1. pd[j].start \in Addr
    BY <1>0
  <2>2. \E s \in Slots(t.index) :
           Slot(t.index, pd[j].start) = {s} /\ Holds(t.index, s, pd[j].start, j)
    BY <1>0, <2>1, PendingFacts DEF OneEach, ix
  <2>. QED
    BY <2>2 DEF SlotOf, ix
<1>5. IndexOK(g, qd)
  <2>1. Len(pd) = n
    BY DEF n
  <2>. HIDE DEF pd, slot
  <2>2. g.slot = Dropped(ix, i, pd)
    BY <1>3 DEF slot
  <2>. QED
    BY <1>0, <1>2, <1>3, <1>4, <2>1, <2>2, DroppedOK
<1>. HIDE DEF slot
<1>6. \A j \in 1 .. n - 1 : j \in 1 .. n /\ j # n
  BY <1>0
<1>7. OneEach(qd)
  <2> SUFFICES ASSUME NEW j \in 1 .. n - 1, NEW k \in 1 .. n - 1, qd[j].start = qd[k].start
               PROVE  j = k
    BY <1>2 DEF OneEach
  <2> DEFINE from(l) == IF l = i THEN n ELSE l
  <2>1. \A l \in 1 .. n - 1 : from(l) \in 1 .. n /\ qd[l] = pd[from(l)]
    <3>1. \A l \in 1 .. n - 1 : n \in 1 .. n
      BY <1>0
    <3>. QED
      BY <1>2, <1>6, <3>1
  <2>2. from(j) = from(k) => j = k
    BY <1>6
  <2>. HIDE DEF from
  <2>. QED
    BY <1>0, <2>1, <2>2 DEF OneEach
<1>8. Waiting(u) = Waiting(t) \ {pd[i]}
  <2>0. \A j \in 1 .. n : pd[j] = pd[i] => j = i
    BY <1>0 DEF OneEach
  <2>1. ASSUME NEW j \in 1 .. n - 1 PROVE qd[j] \in Waiting(t) \ {pd[i]}
    <3>1. CASE j = i
      <4>1. n \in 1 .. n /\ n # i
        BY <1>0, <1>6, <3>1
      <4>. QED
        BY <1>0, <1>2, <2>0, <3>1, <4>1 DEF Waiting
    <3>2. CASE j # i
      BY <1>0, <1>2, <1>6, <2>0, <3>2 DEF Waiting
    <3>. QED
      BY <3>1, <3>2
  <2>2. ASSUME NEW j \in 1 .. n, pd[j] # pd[i] PROVE \E k \in 1 .. n - 1 : qd[k] = pd[j]
    <3>1. j # i /\ (j \in 1 .. n - 1 \/ j = n)
      BY <1>0, <2>2
    <3>2. CASE j = n
      <4>1. i \in 1 .. n - 1
        BY <1>0, <3>1, <3>2
      <4>. QED
        BY <1>2, <3>2, <4>1
    <3>3. CASE j \in 1 .. n - 1
      BY <1>2, <3>1, <3>3
    <3>. QED
      BY <3>1, <3>2, <3>3
  <2>3. Waiting(u) = {qd[j] : j \in 1 .. n - 1} /\ Waiting(t) = {pd[j] : j \in 1 .. n}
    BY <1>0, <1>1, <1>2 DEF Waiting
  <2>. QED
    BY <2>1, <2>2, <2>3
<1>9. IsTable(u)
  BY <1>1, <1>2, TableFacts DEF IsTable
<1>10. TableOK(u)
  BY <1>1, <1>5, <1>7, <1>9, TableFacts DEF TableOK
<1>. QED
  BY <1>1, <1>8, <1>10 DEF Live

\* turf_gc_reregister_block marks an entry of g_blocks dead.
LEMMA KilledOK ==
  ASSUME NEW t, TableOK(t), NEW i \in DOMAIN t.blocks \ DeadAt(t.blocks),
         NEW u, u = [t EXCEPT !.blocks[i].dead = TRUE, !.dead = @ + 1]
  PROVE  TableOK(u) /\ Live(u) = Live(t) \ {t.blocks[i]} /\ Waiting(u) = Waiting(t)
<1> DEFINE s == t.blocks
           d == [s[i] EXCEPT !.dead = TRUE]
           x == [s EXCEPT ![i] = d]
<1>0. s \in Seq(Entries) /\ Ascending(s) /\ i \in DOMAIN s /\ s[i] \in Entries
  BY TableFacts
<1>1. /\ DOMAIN u = {"blocks", "dead", "pending", "index"}
      /\ u.blocks = x /\ u.dead = t.dead + 1
      /\ u.pending = t.pending /\ u.index = t.index
  <2>1. DOMAIN t = {"blocks", "dead", "pending", "index"}
    BY TableFacts
  <2>. QED
    BY <2>1
<1>2. d \in Entries /\ d.start = s[i].start /\ d.size = s[i].size /\ d.dead = TRUE
  BY <1>0 DEF Entries
<1>. HIDE DEF d
<1>3. /\ x \in Seq(Entries) /\ DOMAIN x = DOMAIN s
      /\ \A j \in DOMAIN s : x[j] = IF j = i THEN d ELSE s[j]
  BY <1>0, <1>2
<1>. HIDE DEF x
<1>4. \A j \in DOMAIN s : x[j].start = s[j].start /\ x[j].size = s[j].size
  BY <1>2, <1>3
<1>5. Ascending(x)
  BY <1>0, <1>3, <1>4 DEF Ascending, Before
<1>6. DeadAt(x) = DeadAt(s) \cup {i}
  BY <1>0, <1>2, <1>3 DEF DeadAt
<1>7. u.dead = Cardinality(DeadAt(x))
  <2>1. IsFiniteSet(DeadAt(s)) /\ t.dead = Cardinality(DeadAt(s)) /\ i \notin DeadAt(s)
    BY TableFacts
  <2>2. Cardinality(DeadAt(s) \cup {i}) = Cardinality(DeadAt(s)) + 1
    BY <2>1, FS_AddElement
  <2>. QED
    BY <1>1, <1>6, <2>1, <2>2
<1>8. Live(u) = Live(t) \ {s[i]}
  <2>1. \A j \in DOMAIN s : s[j] = s[i] => j = i
    BY <1>0, AscendingFacts
  <2>2. DOMAIN x \ DeadAt(x) = (DOMAIN s \ DeadAt(s)) \ {i}
    BY <1>3, <1>6
  <2>3. \A j \in (DOMAIN s \ DeadAt(s)) \ {i} : x[j] = s[j]
    BY <1>3
  <2>4. Live(u) = {s[j] : j \in (DOMAIN s \ DeadAt(s)) \ {i}}
    BY <1>1, <2>2, <2>3 DEF Live
  <2>. QED
    BY <2>1, <2>4 DEF Live
<1>9. IsTable(u)
  BY <1>1, <1>3, TableFacts DEF IsTable
<1>10. TableOK(u)
  BY <1>1, <1>5, <1>7, <1>9, TableFacts DEF TableOK
<1>. QED
  BY <1>1, <1>8, <1>10 DEF Waiting

\* The table has just the entries in S, each in one place.
Records(t, S) ==
    TableOK(t) /\ Live(t) \cup Waiting(t) = S /\ Live(t) \cap Waiting(t) = {}

\* turf_gc_reregister_block of a block that moves to p or stays.
LEMMA ReregisteredOK ==
  ASSUME NEW t, NEW ch, Tells(t, ch), NEW old \in Starts(ch, "gc"),
         NEW p \in Addr, NEW n \in Nat, p \notin Starts(ch, "gc") \ {old},
         NEW u, u = Reregistered(t, old, p, n)
  PROVE  Records(u, (Registry(ch) \ {Entry(old, ch[old].size)}) \cup {Entry(p, n)})
<1> DEFINE o == Entry(old, ch[old].size)
           S == Registry(ch) \ {o}
           removed == {PendingRemoved(t, i) : i \in FindExactInPending(t, old)}
           killed == {[t EXCEPT !.blocks[i].dead = TRUE, !.dead = @ + 1] :
                         i \in FindExactInBlocks(t, old)}
           before == IF removed # {} THEN removed
                     ELSE IF killed # {} THEN killed ELSE {t}
           x == CHOOSE y \in before : TRUE
<1>1. u = Registered(x, p, n)
  BY DEF Reregistered
<1>2. TableOK(t) /\ HeapOK(ch) /\ Live(t) \cup Waiting(t) = Registry(ch)
      /\ Live(t) \cap Waiting(t) = {} /\ old \in Addr
  BY DEF Tells, Told, Starts
<1>3. ASSUME NEW i \in FindExactInPending(t, old) PROVE Records(PendingRemoved(t, i), S)
  <2> DEFINE y == PendingRemoved(t, i)
  <2>1. i \in DOMAIN t.pending /\ t.pending[i] = o
    BY <1>2, TellsExact
  <2>. HIDE DEF y, o
  <2>2. TableOK(y) /\ Live(y) = Live(t) /\ Waiting(y) = Waiting(t) \ {o}
    BY <1>2, <2>1, PendingRemovedOK DEF y
  <2>3. o \in Waiting(t)
    BY <2>1 DEF Waiting
  <2>4. o \notin Live(t)
    BY <1>2, <2>3
  <2>. QED
    BY <1>2, <2>2, <2>3, <2>4 DEF Records, y
<1>4. ASSUME NEW i \in FindExactInBlocks(t, old)
      PROVE  Records([t EXCEPT !.blocks[i].dead = TRUE, !.dead = @ + 1], S)
  <2> DEFINE y == [t EXCEPT !.blocks[i].dead = TRUE, !.dead = @ + 1]
  <2>1. i \in DOMAIN t.blocks \ DeadAt(t.blocks) /\ t.blocks[i] = o
    BY <1>2, TellsExact
  <2>. HIDE DEF y, o
  <2>2. TableOK(y) /\ Live(y) = Live(t) \ {o} /\ Waiting(y) = Waiting(t)
    BY <1>2, <2>1, KilledOK DEF y
  <2>3. o \in Live(t)
    BY <2>1 DEF Live
  <2>4. o \notin Waiting(t)
    BY <1>2, <2>3
  <2>. QED
    BY <1>2, <2>2, <2>3, <2>4 DEF Records, y
<1>5. removed # {} \/ killed # {}
  <2>1. CASE FindExactInPending(t, old) # {}
    <3>1. PICK i \in FindExactInPending(t, old) : TRUE
      BY <2>1
    <3>2. PendingRemoved(t, i) \in removed
      OBVIOUS
    <3>. HIDE DEF removed, killed
    <3>. QED
      BY <3>2
  <2>2. CASE FindExactInBlocks(t, old) # {}
    <3> DEFINE dying(i) == [t EXCEPT !.blocks[i].dead = TRUE, !.dead = @ + 1]
    <3>1. PICK i \in FindExactInBlocks(t, old) : TRUE
      BY <2>2
    <3>2. killed = {dying(j) : j \in FindExactInBlocks(t, old)}
      OBVIOUS
    <3>. HIDE DEF dying, removed, killed
    <3>. QED
      BY <3>1, <3>2
  <2>3. FindExactInPending(t, old) # {} \/ FindExactInBlocks(t, old) # {}
    BY <1>2, TellsExact
  <2>. HIDE DEF removed, killed
  <2>. QED
    BY <2>1, <2>2, <2>3
<1>. HIDE DEF S
<1>6. x \in before /\ before # {} /\ \A y \in before : Records(y, S)
  <2>1. (\A y \in removed : Records(y, S)) /\ (\A y \in killed : Records(y, S))
    BY <1>3, <1>4
  <2>. HIDE DEF removed, killed
  <2>. QED
    BY <1>5, <2>1
<1>. HIDE DEF x, before
<1>7. TableOK(x) /\ Live(x) \cup Waiting(x) = S /\ Live(x) \cap Waiting(x) = {}
  BY <1>6 DEF Records
<1>8. \A e \in S : e.start # p
  <2> SUFFICES ASSUME NEW e \in S, e.start = p PROVE FALSE
    OBVIOUS
  <2>1. e \in Registry(ch) /\ e # o
    BY DEF S
  <2>2. e.start \in Starts(ch, "gc") /\ e = Entry(e.start, ch[e.start].size)
    BY <1>2, <2>1, RegistryFacts
  <2>3. e.start = old
    BY <2>2
  <2>. QED
    BY <2>1, <2>2, <2>3
<1>9. TableOK(u) /\ Live(u) = Live(x) /\ Waiting(u) = Waiting(x) \cup {Entry(p, n)}
  <2>1. \A e \in Waiting(x) : e.start # p
    BY <1>7, <1>8
  <2>. QED
    BY <1>1, <1>7, <2>1, RegisteredOK
<1>10. Entry(p, n) \notin Live(x)
  <2>1. Entry(p, n).start = p
    BY DEF Entry
  <2>. QED
    BY <1>7, <1>8, <2>1
<1>. HIDE DEF o
<1>11. Records(u, S \cup {Entry(p, n)})
  BY <1>7, <1>9, <1>10 DEF Records
<1>. QED
  BY <1>11 DEF S, o

\* turf_gc_register_block of a block libc has just handed out.
LEMMA NewlyRegisteredOK ==
  ASSUME NEW t, NEW ch, Tells(t, ch), NEW p \in Addr, NEW n \in Nat,
         p \notin Starts(ch, "gc"), NEW u, u = Registered(t, p, n)
  PROVE  Records(u, Registry(ch) \cup {Entry(p, n)})
<1>1. TableOK(t) /\ HeapOK(ch) /\ Live(t) \cup Waiting(t) = Registry(ch)
      /\ Live(t) \cap Waiting(t) = {}
  BY DEF Tells, Told
<1>2. \A e \in Registry(ch) : e.start # p
  BY <1>1, RegistryFacts
<1>3. \A e \in Waiting(t) : e.start # p
  BY <1>1, <1>2
<1>4. TableOK(u) /\ Live(u) = Live(t) /\ Waiting(u) = Waiting(t) \cup {Entry(p, n)}
  BY <1>1, <1>3, RegisteredOK
<1>5. Entry(p, n) \notin Live(t)
  <2>1. Entry(p, n).start = p
    BY DEF Entry
  <2>. QED
    BY <1>1, <1>2, <2>1
<1>. QED
  BY <1>1, <1>4, <1>5 DEF Records

\* Two arrays one after the other.
Joined(c, s, q, X) ==
    /\ c \in Seq(X) /\ DOMAIN c = 1 .. Len(c) /\ Len(c) = Len(s) + Len(q)
    /\ \A i \in DOMAIN s : i \in DOMAIN c /\ c[i] = s[i]
    /\ \A i \in DOMAIN c : i \in DOMAIN s \/ (i - Len(s) \in DOMAIN q /\ c[i] = q[i - Len(s)])
    /\ Range(c) = Range(s) \cup Range(q)

LEMMA ConcatFacts ==
  ASSUME NEW X, NEW s \in Seq(X), NEW q \in Seq(X), NEW c, c = s \o q
  PROVE  Joined(c, s, q, X)
<1>1. /\ Len(s) \in Nat /\ DOMAIN s = 1 .. Len(s) /\ Len(q) \in Nat /\ DOMAIN q = 1 .. Len(q)
  BY SeqFacts
<1>2. /\ c \in Seq(X) /\ Len(c) = Len(s) + Len(q) /\ DOMAIN c = 1 .. Len(s) + Len(q)
      /\ \A i \in 1 .. Len(s) + Len(q) : c[i] = IF i <= Len(s) THEN s[i] ELSE q[i - Len(s)]
  OBVIOUS
<1>3. \A i \in DOMAIN s : i \in DOMAIN c /\ c[i] = s[i]
  BY <1>1, <1>2
<1>4. \A i \in DOMAIN q : i + Len(s) \in DOMAIN c /\ c[i + Len(s)] = q[i]
  <2> SUFFICES ASSUME NEW i \in 1 .. Len(q)
               PROVE  i + Len(s) \in DOMAIN c /\ c[i + Len(s)] = q[i]
    BY <1>1
  <2>1. i + Len(s) \in 1 .. Len(s) + Len(q) /\ ~(i + Len(s) <= Len(s)) /\ (i + Len(s)) - Len(s) = i
    BY <1>1
  <2>. QED
    BY <1>2, <2>1
<1>5. \A i \in DOMAIN c : i \in DOMAIN s \/ (i - Len(s) \in DOMAIN q /\ c[i] = q[i - Len(s)])
  <2> SUFFICES ASSUME NEW i \in 1 .. Len(s) + Len(q), ~(i <= Len(s))
               PROVE  i - Len(s) \in DOMAIN q /\ c[i] = q[i - Len(s)]
    BY <1>1, <1>2
  <2>. QED
    BY <1>1, <1>2
<1>6. Range(c) = Range(s) \cup Range(q)
  <2>1. \A i \in DOMAIN c : c[i] \in Range(s) \cup Range(q)
    BY <1>3, <1>5 DEF Range
  <2>2. \A i \in DOMAIN s : s[i] \in Range(c)
    BY <1>3 DEF Range
  <2>3. \A i \in DOMAIN q : q[i] \in Range(c)
    BY <1>4 DEF Range
  <2>4. Range(c) \subseteq Range(s) \cup Range(q)
    <3>1. \A x \in Range(c) : \E i \in DOMAIN c : x = c[i]
      BY DEF Range
    <3>. QED
      BY <2>1, <3>1
  <2>5. Range(s) \subseteq Range(c)
    <3>1. \A x \in Range(s) : \E i \in DOMAIN s : x = s[i]
      BY DEF Range
    <3>. QED
      BY <2>2, <3>1
  <2>6. Range(q) \subseteq Range(c)
    <3>1. \A x \in Range(q) : \E i \in DOMAIN q : x = q[i]
      BY DEF Range
    <3>. QED
      BY <2>3, <3>1
  <2>. QED
    BY <2>4, <2>5, <2>6
<1>. QED
  BY <1>1, <1>2, <1>3, <1>5, <1>6 DEF Joined

\* After gc_rebuild_index everything is sorted and alive.
Clean(r, ch) ==
    /\ r.blocks \in Seq(Entries) /\ Ascending(r.blocks) /\ Range(r.blocks) = Registry(ch)
    /\ DOMAIN r = {"blocks", "dead", "pending", "index"}
    /\ r.dead = 0 /\ r.pending = <<>> /\ IndexOK(r.index, <<>>)

LEMMA RebuiltClean ==
  ASSUME NEW t, NEW ch, Tells(t, ch)
  PROVE  Clean(Rebuilt(t), ch)
<1> DEFINE alive == IF t.dead = 0 THEN t.blocks
                    ELSE Compacted(t.blocks, {i \in DOMAIN t.blocks : ~t.blocks[i].dead})
           all == alive \o t.pending
           r == Rebuilt(t)
<1>1. /\ TableOK(t) /\ HeapOK(ch) /\ Live(t) \cup Waiting(t) = Registry(ch)
      /\ Live(t) \cap Waiting(t) = {}
  BY DEF Tells, Told
<1>2. alive \in Seq(Entries) /\ Ascending(alive) /\ Range(alive) = Live(t)
  <2> DEFINE s == t.blocks
             K == {i \in DOMAIN s : ~s[i].dead}
  <2>1. s \in Seq(Entries) /\ Ascending(s) /\ t.dead = Cardinality(DeadAt(s))
        /\ IsFiniteSet(DeadAt(s)) /\ K \in SUBSET (DOMAIN s)
    BY <1>1, TableFacts
  <2>2. K = DOMAIN s \ DeadAt(s)
    BY DEF DeadAt
  <2>3. Live(t) = Picks(s, K)
    BY <2>2 DEF Live, Picks
  <2>4. CASE t.dead = 0
    <3>1. DeadAt(s) = {}
      BY <2>1, <2>4, FS_EmptySet
    <3>2. K = DOMAIN s
      BY <2>2, <3>1
    <3>3. Range(s) = Picks(s, K)
      BY <3>2 DEF Range, Picks
    <3>. QED
      BY <2>1, <2>3, <2>4, <3>3
  <2>5. CASE t.dead # 0
    <3>. HIDE DEF K, s
    <3>1. Packed(Compacted(s, K), s, K)
      BY <2>1, CompactedFacts
    <3>2. alive = Compacted(s, K)
      BY <2>5 DEF s, K
    <3>. HIDE DEF alive
    <3>. QED
      BY <2>3, <3>1, <3>2 DEF Packed
  <2>. QED
    BY <2>4, <2>5
<1>3. r = IF t.pending = <<>> THEN [t EXCEPT !.blocks = alive, !.dead = 0]
          ELSE [blocks |-> Sorted(all), dead |-> 0, pending |-> <<>>,
                index |-> FreshIndex(t.index.cap)]
  BY DEF Rebuilt
<1>. HIDE DEF alive, r
<1>4. CASE t.pending = <<>>
  <2>1. Waiting(t) = {}
    BY <1>4 DEF Waiting
  <2>2. /\ DOMAIN t = {"blocks", "dead", "pending", "index"}
        /\ IndexOK(t.index, t.pending)
    BY <1>1, TableFacts
  <2>3. /\ DOMAIN r = {"blocks", "dead", "pending", "index"} /\ r.blocks = alive
        /\ r.dead = 0 /\ r.pending = <<>> /\ r.index = t.index
    BY <1>3, <1>4, <2>2
  <2>4. Range(r.blocks) = Registry(ch)
    BY <1>1, <1>2, <2>1, <2>3
  <2>. QED
    BY <1>2, <1>4, <2>2, <2>3, <2>4 DEF Clean, r
<1>5. CASE t.pending # <<>>
  <2> DEFINE c == Sorted(all)
             q == t.pending
  <2>1. q \in Seq(Entries) /\ OneEach(q) /\ IndexOK(t.index, q) /\ q # <<>>
    BY <1>1, <1>5, TableFacts
  <2>2. /\ DOMAIN r = {"blocks", "dead", "pending", "index"} /\ r.blocks = c
        /\ r.dead = 0 /\ r.pending = <<>> /\ r.index = FreshIndex(t.index.cap)
    BY <1>3, <1>5
  <2>3. /\ all \in Seq(Entries) /\ DOMAIN all = 1 .. Len(all)
        /\ \A i \in DOMAIN alive : i \in DOMAIN all /\ all[i] = alive[i]
        /\ \A i \in DOMAIN all :
              i \in DOMAIN alive \/ (i - Len(alive) \in DOMAIN q /\ all[i] = q[i - Len(alive)])
        /\ Range(all) = Range(alive) \cup Range(q) /\ Len(all) \in Nat
    <3>1. all = alive \o q
      OBVIOUS
    <3>. HIDE DEF all, q
    <3>2. /\ all \in Seq(Entries) /\ DOMAIN all = 1 .. Len(all)
          /\ \A i \in DOMAIN alive : i \in DOMAIN all /\ all[i] = alive[i]
          /\ \A i \in DOMAIN all :
                i \in DOMAIN alive \/ (i - Len(alive) \in DOMAIN q /\ all[i] = q[i - Len(alive)])
          /\ Range(all) = Range(alive) \cup Range(q)
      <4>1. alive \in Seq(Entries) /\ q \in Seq(Entries)
        BY <1>2, <2>1
      <4>2. Joined(all, alive, q, Entries)
        BY <3>1, <4>1, ConcatFacts
      <4>. QED
        BY <4>2 DEF Joined
    <3>3. Len(all) \in Nat
      BY <3>2, SeqFacts
    <3>. QED
      BY <3>2, <3>3
  <2>4. Range(q) = Waiting(t)
    BY DEF Range, Waiting
  <2>5. Range(all) = Registry(ch)
    BY <1>1, <1>2, <2>3, <2>4
  <2>. HIDE DEF all, q
  <2>6. \A e, f \in Registry(ch) : e.start = f.start => e = f
    <3>1. \A e \in Registry(ch) : e = Entry(e.start, ch[e.start].size)
      BY <1>1, RegistryFacts
    <3>. QED
      BY <3>1
  <2>7. OneEach(all)
    <3> SUFFICES ASSUME NEW i \in DOMAIN all, NEW j \in DOMAIN all, all[i].start = all[j].start
                 PROVE  i = j
      BY DEF OneEach
    <3>1. all[i] = all[j]
      <4>1. all[i] \in Range(all) /\ all[j] \in Range(all)
        BY DEF Range
      <4>. QED
        BY <2>5, <2>6, <4>1
    <3>2. \A k \in DOMAIN all : (k \in DOMAIN alive => all[k] \in Live(t))
                                /\ (k \notin DOMAIN alive => all[k] \in Waiting(t))
      <4> SUFFICES ASSUME NEW k \in DOMAIN all
                   PROVE  (k \in DOMAIN alive => all[k] \in Live(t))
                          /\ (k \notin DOMAIN alive => all[k] \in Waiting(t))
        OBVIOUS
      <4>1. k \in DOMAIN alive => all[k] \in Range(alive)
        BY <2>3 DEF Range
      <4>2. k \notin DOMAIN alive => all[k] \in Range(q)
        BY <2>3 DEF Range
      <4>. QED
        BY <1>2, <2>4, <4>1, <4>2
    <3>3. CASE i \in DOMAIN alive /\ j \in DOMAIN alive
      <4>1. alive[i].start = alive[j].start
        BY <2>3, <3>1, <3>3
      <4>. QED
        BY <1>2, <3>3, <4>1, AscendingFacts
    <3>4. CASE i \notin DOMAIN alive /\ j \notin DOMAIN alive
      <4>1. /\ i - Len(alive) \in DOMAIN q /\ j - Len(alive) \in DOMAIN q
            /\ q[i - Len(alive)].start = q[j - Len(alive)].start
        BY <2>3, <3>1, <3>4
      <4>2. i - Len(alive) = j - Len(alive)
        BY <2>1, <4>1 DEF OneEach
      <4>3. i \in Int /\ j \in Int /\ Len(alive) \in Int
        BY <1>2, <2>3, SeqFacts
      <4>. QED
        BY <4>2, <4>3
    <3>. QED
      BY <1>1, <3>1, <3>2, <3>3, <3>4
  <2>8. /\ c \in [DOMAIN all -> Range(all)] /\ Range(c) = Range(all)
        /\ \A i, j \in DOMAIN c : i < j => c[i].start < c[j].start
    BY <2>3, <2>7, SortedFacts DEF Arranged
  <2>. HIDE DEF c
  <2>9. \A i \in DOMAIN c : c[i] \in Registry(ch)
    BY <2>5, <2>8
  <2>10. c \in Seq(Entries)
    <3>1. c \in [1 .. Len(all) -> Entries]
      <4>1. \A i \in 1 .. Len(all) : c[i] \in Entries
        BY <1>1, <2>3, <2>8, <2>9, RegistryFacts
      <4>. QED
        BY <2>3, <2>8, <4>1
    <3>. QED
      BY <2>3, <3>1
  <2>11. Ascending(c)
    <3> SUFFICES ASSUME NEW i \in DOMAIN c, NEW j \in DOMAIN c, i < j PROVE Before(c[i], c[j])
      BY DEF Ascending
    <3> DEFINE a == c[i].start
               b == c[j].start
    <3>1. /\ a \in Starts(ch, "gc") /\ b \in Starts(ch, "gc") /\ a < b
          /\ c[i].size = ch[a].size
      BY <1>1, <2>8, <2>9, RegistryFacts
    <3>. HIDE DEF a, b
    <3>2. a \in Addr /\ b \in Addr /\ ch[a].owner # "none" /\ ch[b].owner # "none"
      BY <3>1 DEF Starts
    <3>3. a + Words(ch[a].size) <= b
      BY <1>1, <3>1, <3>2 DEF HeapOK
    <3>. QED
      BY <3>1, <3>3 DEF Before, a, b
  <2>12. IndexOK(r.index, <<>>)
    <3>1. t.index.cap \in Nat \ {0}
      BY <2>1 DEF IndexOK, IsIndex
    <3> DEFINE g == FreshIndex(t.index.cap)
    <3>2. IsIndex(g) /\ g.cap = t.index.cap /\ g.used = 0 /\ Leads(g, <<>>, {})
      BY <3>1, FreshFacts
    <3>. HIDE DEF g
    <3>3. DOMAIN <<>> = {} /\ g.used < g.cap
      BY <3>1, <3>2
    <3>4. IndexOK(g, <<>>)
      BY <3>1, <3>2, <3>3 DEF IndexOK
    <3>. QED
      BY <2>2, <3>4 DEF g
  <2>. QED
    BY <2>2, <2>5, <2>8, <2>10, <2>11, <2>12 DEF Clean, r
<1>. QED
  BY <1>4, <1>5

(***************************************************************************)
(* The collection.                                                         *)
(***************************************************************************)
\* What the marked entries leave of the table and of the heap.
MarkedAt(r, V) ==
    {i \in DOMAIN r.blocks : r.blocks[i] \in UNION {FindContaining(r, v) : v \in V}}

FreedBy(r, V) == {r.blocks[i].start : i \in DOMAIN r.blocks \ MarkedAt(r, V)}

Without(ch, G) == [a \in Addr |-> IF a \in G THEN NoChunk ELSE ch[a]]

LEMMA WithoutFacts ==
  ASSUME NEW ch, HeapOK(ch), NEW G, NEW dh, dh = Without(ch, G)
  PROVE  /\ HeapOK(dh) /\ Starts(dh, "gc") = Starts(ch, "gc") \ G
         /\ \A a \in Addr \ G : dh[a] = ch[a]
         /\ \A a \in Addr : a \in G => dh[a] = NoChunk
<1>1. /\ ch \in [Addr -> Chunk] /\ NoChunk \in Chunk /\ NoChunk.owner = "none"
  BY DEF HeapOK, NoChunk, Chunk
<1>2. /\ \A a \in Addr \ G : dh[a] = ch[a]
      /\ \A a \in Addr : a \in G => dh[a] = NoChunk
      /\ dh = [a \in Addr |-> dh[a]]
  BY DEF Without
<1>3. dh \in [Addr -> Chunk]
  BY <1>1, <1>2
<1>4. \A a \in Addr : dh[a].owner # "none" => dh[a] = ch[a]
  BY <1>1, <1>2
<1>5. HeapOK(dh)
  BY <1>3, <1>4 DEF HeapOK
<1>6. Starts(dh, "gc") = Starts(ch, "gc") \ G
  BY <1>1, <1>2 DEF Starts
<1>. QED
  BY <1>2, <1>5, <1>6

LEMMA CleanFacts ==
  ASSUME NEW r, NEW ch, HeapOK(ch), Clean(r, ch)
  PROVE  /\ DeadAt(r.blocks) = {} /\ Live(r) = Registry(ch)
         /\ \A i \in DOMAIN r.blocks :
               /\ r.blocks[i] \in Registry(ch) /\ r.blocks[i].start \in Starts(ch, "gc")
               /\ r.blocks[i].start \in Addr
               /\ r.blocks[i].size = ch[r.blocks[i].start].size
         /\ OneEach(r.blocks)
         /\ \A a \in Starts(ch, "gc") : \E i \in DOMAIN r.blocks : r.blocks[i].start = a
<1>1. /\ r.blocks \in Seq(Entries) /\ Ascending(r.blocks) /\ Range(r.blocks) = Registry(ch)
  BY DEF Clean
<1>2. \A i \in DOMAIN r.blocks : r.blocks[i] \in Registry(ch)
  BY <1>1 DEF Range
<1>3. \A e \in Registry(ch) : /\ e.start \in Starts(ch, "gc") /\ e.start \in Addr
                              /\ e.size = ch[e.start].size /\ e.dead = FALSE
  BY RegistryFacts
<1>4. DeadAt(r.blocks) = {}
  BY <1>2, <1>3 DEF DeadAt
<1>5. Live(r) = Registry(ch)
  BY <1>1, <1>4 DEF Live, Range
<1>6. OneEach(r.blocks)
  BY <1>1, AscendingFacts DEF OneEach
<1>7. ASSUME NEW a \in Starts(ch, "gc") PROVE \E i \in DOMAIN r.blocks : r.blocks[i].start = a
  <2>1. Entry(a, ch[a].size) \in Range(r.blocks) /\ Entry(a, ch[a].size).start = a
    BY <1>1 DEF Registry, Entry
  <2>2. PICK i \in DOMAIN r.blocks : r.blocks[i] = Entry(a, ch[a].size)
    BY <2>1 DEF Range
  <2>. QED
    BY <2>1, <2>2
<1>. QED
  BY <1>2, <1>3, <1>4, <1>5, <1>6, <1>7

\* Sweeping frees the entries that are not marked, and what a marked word points
\* into stays.
LEMMA SweptFacts ==
  ASSUME NEW r, NEW ch, HeapOK(ch), Clean(r, ch), NEW V \in SUBSET Addr,
         NEW u, u = [r EXCEPT !.blocks = Compacted(r.blocks, MarkedAt(r, V))],
         NEW dh, dh = Without(ch, FreedBy(r, V))
  PROVE  /\ Tells(u, dh)
         /\ LiveBytes(r.blocks, MarkedAt(r, V)) = Total(dh) /\ Total(dh) \in Nat
         /\ FreedBy(r, V) \subseteq Starts(ch, "gc")
         /\ \A v \in V : Around(ch, v) \cap FreedBy(r, V) = {}
<1> DEFINE s == r.blocks
           K == MarkedAt(r, V)
           G == FreedBy(r, V)
           c == Compacted(s, K)
<1>1. /\ s \in Seq(Entries) /\ Ascending(s) /\ Range(s) = Registry(ch)
      /\ DOMAIN r = {"blocks", "dead", "pending", "index"}
      /\ r.dead = 0 /\ r.pending = <<>> /\ IndexOK(r.index, <<>>)
  BY DEF Clean
<1>2. K \in SUBSET (DOMAIN s) /\ G = {s[i].start : i \in DOMAIN s \ K}
  BY DEF MarkedAt, FreedBy
<1>3. \A i \in DOMAIN s :
         /\ s[i] \in Registry(ch) /\ s[i].start \in Starts(ch, "gc") /\ s[i].start \in Addr
         /\ s[i].size = ch[s[i].start].size
  BY CleanFacts
<1>4. G \subseteq Starts(ch, "gc")
  BY <1>2, <1>3
<1>5. /\ HeapOK(dh) /\ Starts(dh, "gc") = Starts(ch, "gc") \ G
      /\ \A a \in Addr \ G : dh[a] = ch[a]
  BY WithoutFacts
<1>6. Packed(c, s, K)
  BY <1>1, <1>2, CompactedFacts
<1>7. ASSUME NEW v \in V PROVE Around(ch, v) \cap G = {}
  <2> SUFFICES ASSUME NEW i \in DOMAIN s \ K, s[i].start \in Around(ch, v) PROVE FALSE
    BY <1>2
  <2>1. s[i] \in Live(r) /\ Inside(s[i], v)
    BY <1>3, CleanFacts DEF Around, Inside
  <2>2. v \in Nat
    BY AddrAssumption
  <2>3. FindContaining(r, v) = {e \in Live(r) : Inside(e, v)}
    BY <1>1, <2>2, ContainingFacts
  <2>4. s[i] \in FindContaining(r, v)
    BY <2>1, <2>3
  <2>. QED
    BY <2>4 DEF MarkedAt
<1>. HIDE DEF K, G, c
<1>8. \A i \in DOMAIN s : s[i].start \in G <=> i \notin K
  <2> SUFFICES ASSUME NEW i \in DOMAIN s PROVE s[i].start \in G <=> i \notin K
    OBVIOUS
  <2>1. \A j \in DOMAIN s : s[j].start = s[i].start => j = i
    BY CleanFacts DEF OneEach
  <2>. QED
    BY <1>2, <2>1
<1>9. Starts(dh, "gc") = {s[i].start : i \in K}
  <2>1. ASSUME NEW a \in Starts(dh, "gc") PROVE a \in {s[i].start : i \in K}
    <3>1. a \in Starts(ch, "gc") /\ a \notin G
      BY <1>5
    <3>2. PICK i \in DOMAIN s : s[i].start = a
      BY <3>1, CleanFacts
    <3>. QED
      BY <1>8, <3>1, <3>2
  <2>2. ASSUME NEW i \in K PROVE s[i].start \in Starts(dh, "gc")
    <3>1. i \in DOMAIN s
      BY <1>2
    <3>. QED
      BY <1>3, <1>5, <1>8, <3>1
  <2>. QED
    BY <2>1, <2>2
<1>10. \A i \in K : s[i] = Entry(s[i].start, dh[s[i].start].size)
  <2> SUFFICES ASSUME NEW i \in K PROVE s[i] = Entry(s[i].start, dh[s[i].start].size)
    OBVIOUS
  <2>1. i \in DOMAIN s /\ s[i] \in Registry(ch)
    BY <1>2, <1>3
  <2>2. s[i] = Entry(s[i].start, ch[s[i].start].size)
    BY <2>1, RegistryFacts
  <2>3. dh[s[i].start] = ch[s[i].start]
    BY <1>3, <1>5, <1>8, <2>1
  <2>. QED
    BY <2>2, <2>3
<1>11. Picks(s, K) = Registry(dh)
  <2>1. ASSUME NEW e \in Picks(s, K) PROVE e \in Registry(dh)
    <3>1. PICK i \in K : e = s[i]
      BY DEF Picks
    <3>. QED
      BY <1>9, <1>10, <3>1 DEF Registry
  <2>2. ASSUME NEW a \in Starts(dh, "gc") PROVE Entry(a, dh[a].size) \in Picks(s, K)
    <3>1. PICK i \in K : s[i].start = a
      BY <1>9
    <3>. QED
      BY <1>10, <3>1 DEF Picks
  <2>. QED
    BY <2>1, <2>2 DEF Registry
<1>12. /\ DOMAIN u = {"blocks", "dead", "pending", "index"} /\ u.blocks = c
       /\ u.dead = 0 /\ u.pending = <<>> /\ u.index = r.index
  BY <1>1 DEF c, K
<1>13. c \in Seq(Entries) /\ Ascending(c) /\ Range(c) = Registry(dh)
  BY <1>6, <1>11 DEF Packed
<1>14. Clean(u, dh)
  BY <1>1, <1>12, <1>13 DEF Clean
<1>15. Tells(u, dh)
  <2>1. DeadAt(u.blocks) = {} /\ Live(u) = Registry(dh)
    BY <1>5, <1>14, CleanFacts
  <2>2. Waiting(u) = {} /\ u.pending \in Seq(Entries) /\ OneEach(u.pending)
    <3>1. <<>> \in Seq(Entries) /\ DOMAIN <<>> = {}
      OBVIOUS
    <3> DEFINE q == u.pending
    <3>2. q \in Seq(Entries) /\ DOMAIN q = {}
      BY <1>12, <3>1
    <3>. HIDE DEF q
    <3>3. OneEach(q) /\ {q[i] : i \in DOMAIN q} = {}
      BY <3>2 DEF OneEach
    <3>. QED
      BY <3>2, <3>3 DEF q, Waiting
  <2>3. u.dead = Cardinality(DeadAt(u.blocks))
    BY <1>12, <2>1, FS_EmptySet
  <2>4. TableOK(u)
    BY <1>1, <1>12, <1>13, <2>2, <2>3 DEF TableOK, IsTable
  <2>. QED
    BY <1>5, <2>1, <2>2, <2>4 DEF Tells, Told
<1>16. LiveBytes(s, K) = Total(dh) /\ Total(dh) \in Nat
  <2>1. \A i \in K : i \in DOMAIN s /\ dh[s[i].start].size = s[i].size
    BY <1>2, <1>3, <1>5, <1>8
  <2>2. OneEach(s)
    BY CleanFacts
  <2>3. LiveBytes(s, K) = Weight(dh, Starts(dh, "gc")) /\ IsFiniteSet(Starts(dh, "gc"))
    BY <1>1, <1>2, <1>9, <2>1, <2>2, LiveBytesFacts
  <2>4. Weighed(dh, Starts(dh, "gc"))
    BY <1>5, ChunkFacts DEF Weighed, Starts
  <2>5. Weight(dh, Starts(dh, "gc")) \in Nat
    BY <2>3, <2>4, WeightFacts
  <2>. QED
    BY <2>3, <2>5 DEF Total, Weight
<1>. QED
  BY <1>4, <1>7, <1>15, <1>16 DEF G, K

\* What a step with a collection in it may have done to the heap ch.
Collected(ch, dh, pn, held) ==
    \E G \in SUBSET Starts(ch, "gc") :
        /\ dh = Without(ch, G)
        /\ \A v \in held \cup {pn[i].start : i \in DOMAIN pn} : Around(ch, v) \cap G = {}

LEMMA CollectFacts ==
  ASSUME NEW t, NEW ch, Tells(t, ch), NEW pn, PinsOK(pn, ch), NEW held \in SUBSET Addr,
         CollectFrom(t, ch, pn, held)
  PROVE  /\ Tells(table', chunk') /\ Collected(ch, chunk', pn, held)
         /\ GaugeOK(gauge', chunk')
<1> DEFINE r == Rebuilt(t)
           must == held \cup {pn[i].start : i \in DOMAIN pn}
<1>1. HeapOK(ch) /\ Clean(r, ch)
  BY RebuiltClean DEF Tells
<1>2. must \in SUBSET Addr
  <2>1. \A i \in DOMAIN pn : pn[i] \in [start : Addr, count : Nat \ {0}]
    BY SeqFacts DEF PinsOK
  <2>. QED
    BY <2>1
<1>. HIDE DEF r, must
<1>3. PICK R \in SUBSET (Addr \ must) :
         LET found == UNION {FindContaining(r, v) : v \in must \cup R}
             marked == {i \in DOMAIN r.blocks : r.blocks[i] \in found}
             freed == {r.blocks[i].start : i \in DOMAIN r.blocks \ marked}
             live == LiveBytes(r.blocks, marked)
         IN  /\ table' = [r EXCEPT !.blocks = Compacted(r.blocks, marked)]
             /\ chunk' = [a \in Addr |-> IF a \in freed THEN NoChunk ELSE ch[a]]
             /\ gauge' = [since |-> 0, live |-> live,
                          threshold |-> IF 2 * live < Floor THEN Floor ELSE 2 * live]
  BY DEF CollectFrom, r, must
<1> DEFINE V == must \cup R
           K == MarkedAt(r, V)
           G == FreedBy(r, V)
           live == LiveBytes(r.blocks, K)
<1>4. /\ table' = [r EXCEPT !.blocks = Compacted(r.blocks, K)]
      /\ chunk' = Without(ch, G)
      /\ gauge' = [since |-> 0, live |-> live,
                   threshold |-> IF 2 * live < Floor THEN Floor ELSE 2 * live]
  BY <1>3 DEF MarkedAt, FreedBy, Without
<1>5. V \in SUBSET Addr
  BY <1>2
<1>. HIDE DEF V
<1>6. /\ Tells(table', chunk') /\ live = Total(chunk') /\ Total(chunk') \in Nat
      /\ G \subseteq Starts(ch, "gc") /\ \A v \in V : Around(ch, v) \cap G = {}
  BY <1>1, <1>4, <1>5, SweptFacts
<1>. HIDE DEF G, K, live
<1>7. Collected(ch, chunk', pn, held)
  BY <1>4, <1>6 DEF Collected, V, must
<1>8. GaugeOK(gauge', chunk')
  <2>1. live \in Nat /\ Floor \in Nat \ {0}
    BY <1>6, PressureAssumption
  <2> DEFINE h == IF 2 * live < Floor THEN Floor ELSE 2 * live
  <2>2. h \in Nat /\ 0 < h
    BY <2>1
  <2>. HIDE DEF h
  <2>3. gauge' = [since |-> 0, live |-> live, threshold |-> h]
    BY <1>4 DEF h
  <2>4. gauge' \in [since : Nat, threshold : Nat, live : Nat]
    BY <2>1, <2>2, <2>3
  <2>5. gauge'.since = 0 /\ gauge'.threshold = h /\ gauge'.live = live
    BY <2>3
  <2>6. Total(chunk') <= live + 0
    BY <1>6, <2>1
  <2>. QED
    BY <2>2, <2>4, <2>5, <2>6 DEF GaugeOK
<1>. QED
  BY <1>6, <1>7, <1>8

\* A pinned block has words, so a collection leaves it.
LEMMA PinsStay ==
  ASSUME NEW ch, HeapOK(ch), NEW pn, PinsOK(pn, ch), NEW dh, NEW held,
         Collected(ch, dh, pn, held)
  PROVE  PinsOK(pn, dh)
<1>1. PICK G \in SUBSET Starts(ch, "gc") :
         /\ dh = Without(ch, G)
         /\ \A v \in held \cup {pn[i].start : i \in DOMAIN pn} : Around(ch, v) \cap G = {}
  BY DEF Collected
<1>2. ASSUME NEW i \in DOMAIN pn PROVE dh[pn[i].start] = ch[pn[i].start]
  <2> DEFINE a == pn[i].start
  <2>1. pn[i] \in [start : Addr, count : Nat \ {0}]
    BY SeqFacts DEF PinsOK
  <2>2. a \in Addr /\ ch[a].owner = "gc" /\ ch[a].size # 0 /\ Around(ch, a) \cap G = {}
    BY <1>1, <2>1 DEF PinsOK
  <2>. HIDE DEF a
  <2>3. a \in Nat /\ ch[a].size \in Nat /\ a \in Starts(ch, "gc")
    BY <2>2, ChunkFacts
  <2>4. a \in Around(ch, a)
    BY <2>2, <2>3 DEF Around
  <2>5. a \in Addr \ G
    BY <2>2, <2>4
  <2>6. dh[a] = ch[a]
    BY <1>1, <2>5, WithoutFacts
  <2>. QED
    BY <2>6 DEF a
<1>. QED
  BY <1>2 DEF PinsOK

(***************************************************************************)
(* libc's part: a chunk is placed where there is room.                     *)
(***************************************************************************)
\* ch with a chunk of n words at p, the chunks at Gone given back.
Replaced(dh, ch, Gone, p, who, n) ==
    /\ dh \in [Addr -> Chunk]
    /\ dh[p].owner = who /\ dh[p].size = n
    /\ \A a \in Addr \ (Gone \cup {p}) : dh[a] = ch[a]
    /\ \A a \in Gone \ {p} : dh[a] = NoChunk

LEMMA ReplacedHeap ==
  ASSUME NEW ch, HeapOK(ch), NEW Gone \in SUBSET Addr, NEW p \in Addr, NEW n \in Nat,
         NEW who \in {"gc", "manual"}, CanPlace(ch, p, n, Gone),
         NEW dh, Replaced(dh, ch, Gone, p, who, n)
  PROVE  HeapOK(dh) /\ (p \in Gone \/ ch[p].owner = "none")
<1>0. /\ ch \in [Addr -> Chunk] /\ dh \in [Addr -> Chunk] /\ NoChunk.owner = "none"
      /\ p \in Nat /\ \A a \in Addr : a \in Nat /\ ch[a].size \in Nat
  BY AddrAssumption, ChunkFacts DEF HeapOK, Replaced, NoChunk
<1>1. \A k \in Nat : Words(k) \in Nat \ {0}
  BY DEF Words
<1>2. ASSUME NEW a \in Addr \ Gone, ch[a].owner # "none"
      PROVE  a + Words(ch[a].size) <= p \/ p + Words(n) <= a
  <2> DEFINE x == Words(ch[a].size)
             y == Words(n)
  <2>1. (p .. p + y - 1) \cap (a .. a + x - 1) = {}
    <3>1. Span(p, n) \cap Span(a, ch[a].size) = {}
      BY <1>2 DEF CanPlace, Starts
    <3>2. Span(p, n) = p .. p + y - 1 /\ Span(a, ch[a].size) = a .. a + x - 1
      BY DEF Span, Words
    <3>. HIDE DEF x, y
    <3>. QED
      BY <3>1, <3>2
  <2>2. x \in Nat \ {0} /\ y \in Nat \ {0} /\ a \in Nat
    BY <1>0, <1>1
  <2>. HIDE DEF x, y
  <2>3. a \in p .. p + y - 1 \/ p \in a .. a + x - 1 \/ a + x <= p \/ p + y <= a
    BY <1>0, <2>2
  <2>4. a \in a .. a + x - 1 /\ p \in p .. p + y - 1
    BY <1>0, <2>2
  <2>5. a + x <= p \/ p + y <= a
    BY <2>1, <2>3, <2>4
  <2>. QED
    BY <2>5 DEF x, y
<1>3. p \in Gone \/ ch[p].owner = "none"
  <2> SUFFICES ASSUME p \notin Gone, ch[p].owner # "none" PROVE FALSE
    OBVIOUS
  <2>1. p + Words(ch[p].size) <= p \/ p + Words(n) <= p
    BY <1>2
  <2>2. Words(ch[p].size) \in Nat \ {0} /\ Words(n) \in Nat \ {0}
    BY <1>0, <1>1
  <2>. QED
    BY <1>0, <2>1, <2>2
<1>4. \A a \in Addr \ {p} : dh[a].owner # "none" =>
         a \notin Gone /\ dh[a] = ch[a] /\ ch[a].owner # "none"
  BY <1>0 DEF Replaced
<1>5. ASSUME NEW a \in Addr, NEW b \in Addr, dh[a].owner # "none", dh[b].owner # "none", a < b
      PROVE  a + Words(dh[a].size) <= b
  <2>1. dh[p].size = n
    BY DEF Replaced
  <2>2. CASE a # p /\ b # p
    BY <1>4, <1>5, <2>2 DEF HeapOK
  <2>3. CASE a = p
    <3>1. b # p /\ b \notin Gone /\ ch[b].owner # "none"
      BY <1>0, <1>4, <1>5, <2>3
    <3>2. b + Words(ch[b].size) <= p \/ p + Words(n) <= b
      BY <1>2, <3>1
    <3>3. Words(ch[b].size) \in Nat \ {0} /\ b \in Nat
      BY <1>0, <1>1
    <3>. QED
      BY <1>0, <1>5, <2>1, <2>3, <3>2, <3>3
  <2>4. CASE b = p
    <3>1. a # p /\ a \notin Gone /\ ch[a].owner # "none" /\ dh[a] = ch[a]
      BY <1>0, <1>4, <1>5, <2>4
    <3>2. a + Words(ch[a].size) <= p \/ p + Words(n) <= a
      BY <1>2, <3>1
    <3>3. Words(n) \in Nat \ {0} /\ a \in Nat
      BY <1>0, <1>1
    <3>. QED
      BY <1>0, <1>5, <2>4, <3>1, <3>2, <3>3
  <2>. QED
    BY <2>2, <2>3, <2>4
<1>6. HeapOK(dh)
  BY <1>0, <1>5 DEF HeapOK
<1>. QED
  BY <1>3, <1>6

\* The blocks after that, if who is the collector.
Grown(dh, ch, Gone, p, n) ==
    /\ HeapOK(dh) /\ p \notin Starts(ch, "gc") \ Gone
    /\ Starts(dh, "gc") = (Starts(ch, "gc") \ Gone) \cup {p}
    /\ \A a \in Starts(ch, "gc") \ Gone : dh[a] = ch[a]
    /\ dh[p].size = n /\ dh[p].owner = "gc"
    /\ Registry(dh) = {e \in Registry(ch) : e.start \notin Gone} \cup {Entry(p, n)}

LEMMA ReplacedBlocks ==
  ASSUME NEW ch, HeapOK(ch), NEW Gone \in SUBSET Starts(ch, "gc"), NEW p \in Addr,
         NEW n \in Nat, CanPlace(ch, p, n, Gone),
         NEW dh, Replaced(dh, ch, Gone, p, "gc", n)
  PROVE  Grown(dh, ch, Gone, p, n)
<1>1. Gone \in SUBSET Addr
  BY DEF Starts
<1>2. HeapOK(dh) /\ (p \in Gone \/ ch[p].owner = "none")
  BY <1>1, ReplacedHeap
<1>3. p \notin Starts(ch, "gc") \ Gone
  BY <1>2 DEF Starts
<1>4. NoChunk.owner = "none" /\ dh[p].owner = "gc" /\ dh[p].size = n
      /\ (\A a \in Addr \ (Gone \cup {p}) : dh[a] = ch[a])
      /\ (\A a \in Gone \ {p} : dh[a] = NoChunk)
  BY DEF NoChunk, Replaced
<1>5. Starts(dh, "gc") = (Starts(ch, "gc") \ Gone) \cup {p}
  BY <1>1, <1>3, <1>4 DEF Starts
<1>6. \A a \in Starts(ch, "gc") \ Gone : dh[a] = ch[a]
  BY <1>3, <1>4 DEF Starts
<1>7. Registry(dh) = {e \in Registry(ch) : e.start \notin Gone} \cup {Entry(p, n)}
  <2>1. ASSUME NEW a \in Starts(dh, "gc")
        PROVE  Entry(a, dh[a].size) \in {e \in Registry(ch) : e.start \notin Gone} \cup {Entry(p, n)}
    <3>1. CASE a = p
      BY <1>4, <3>1
    <3>2. CASE a # p
      <4>1. a \in Starts(ch, "gc") \ Gone /\ dh[a] = ch[a]
        BY <1>5, <1>6, <3>2
      <4>2. Entry(a, ch[a].size) \in Registry(ch) /\ Entry(a, ch[a].size).start = a
        BY <4>1 DEF Registry, Entry
      <4>. QED
        BY <4>1, <4>2
    <3>. QED
      BY <3>1, <3>2
  <2>2. ASSUME NEW e \in Registry(ch), e.start \notin Gone PROVE e \in Registry(dh)
    <3>1. e.start \in Starts(ch, "gc") /\ e = Entry(e.start, ch[e.start].size)
      BY RegistryFacts
    <3>2. e.start \in Starts(dh, "gc") /\ dh[e.start] = ch[e.start]
      BY <1>5, <1>6, <2>2, <3>1
    <3>. QED
      BY <3>1, <3>2 DEF Registry
  <2>3. Entry(p, n) \in Registry(dh)
    BY <1>4, <1>5 DEF Registry
  <2>. QED
    BY <2>1, <2>2, <2>3 DEF Registry
<1>. QED
  BY <1>2, <1>3, <1>4, <1>5, <1>6, <1>7 DEF Grown

\* The blocks are as many as the entries.
LEMMA StartsFinite ==
  ASSUME NEW t, NEW ch, Tells(t, ch)
  PROVE  IsFiniteSet(Starts(ch, "gc"))
<1> DEFINE s == t.blocks
           K == DOMAIN s \ DeadAt(s)
           q == t.pending
           A == {s[i].start : i \in K}
           B == {q[i].start : i \in DOMAIN q}
<1>1. /\ HeapOK(ch) /\ s \in Seq(Entries) /\ Ascending(s) /\ q \in Seq(Entries) /\ OneEach(q)
      /\ K \in SUBSET (DOMAIN s) /\ DOMAIN q \in SUBSET (DOMAIN q)
      /\ \A i \in K : s[i] \in Registry(ch)
      /\ \A i \in DOMAIN q : q[i] \in Registry(ch)
  BY TellsEntries DEF Tells
<1>2. \A e \in Registry(ch) : ch[e.start].size = e.size
  BY <1>1, RegistryFacts
<1>3. OneEach(s)
  BY <1>1, AscendingFacts DEF OneEach
<1>4. Starts(ch, "gc") \subseteq A \cup B
  <2> SUFFICES ASSUME NEW a \in Starts(ch, "gc") PROVE a \in A \cup B
    OBVIOUS
  <2>1. a \in Addr
    BY DEF Starts
  <2>2. (\E i \in K : s[i].start = a) \/ (\E i \in DOMAIN q : q[i].start = a)
    BY <2>1, TellsExact
  <2>. QED
    BY <2>2
<1>. HIDE DEF s, K, q
<1>5. IsFiniteSet(A)
  BY <1>1, <1>2, <1>3, LiveBytesFacts
<1>6. IsFiniteSet(B)
  BY <1>1, <1>2, LiveBytesFacts
<1>. HIDE DEF A, B
<1>7. IsFiniteSet(A \cup B)
  BY <1>5, <1>6, FS_Union
<1>. QED
  BY <1>4, <1>7, FS_Subset

LEMMA TotalFacts ==
  ASSUME NEW t, NEW ch, Tells(t, ch)
  PROVE  /\ Total(ch) \in Nat /\ Total(ch) = Weight(ch, Starts(ch, "gc"))
         /\ Weighed(ch, Starts(ch, "gc"))
<1>1. Weighed(ch, Starts(ch, "gc"))
  BY ChunkFacts DEF Weighed, Starts, Tells
<1>2. Total(ch) = Weight(ch, Starts(ch, "gc"))
  BY DEF Total, Weight
<1>. QED
  BY <1>1, <1>2, StartsFinite, WeightFacts

\* A placed block adds its words; a block given back takes its own along.
LEMMA ReplacedTotal ==
  ASSUME NEW t, NEW ch, Tells(t, ch), NEW Gone \in SUBSET Starts(ch, "gc"),
         Gone = {} \/ \E old \in Starts(ch, "gc") : Gone = {old},
         NEW p \in Addr, NEW n \in Nat, CanPlace(ch, p, n, Gone),
         NEW dh, Replaced(dh, ch, Gone, p, "gc", n)
  PROVE  Total(dh) <= Total(ch) + n
<1> DEFINE S == Starts(ch, "gc")
           D == S \ Gone
           U == D \cup {p}
<1>1. /\ IsFiniteSet(S) /\ Total(ch) = Weight(ch, S) /\ Weighed(ch, S) /\ Total(ch) \in Nat
  BY StartsFinite, TotalFacts
<1>2. /\ p \notin D /\ Starts(dh, "gc") = U /\ \A a \in D : dh[a] = ch[a]
      /\ dh[p].size = n
  <2>1. HeapOK(ch)
    BY DEF Tells
  <2>2. Grown(dh, ch, Gone, p, n)
    BY <2>1, ReplacedBlocks
  <2>. QED
    BY <2>2 DEF Grown
<1>3. Total(dh) = Weight(dh, U)
  BY <1>2 DEF Total, Weight
<1>4. IsFiniteSet(D) /\ IsFiniteSet(U) /\ U \ {p} = D /\ p \in U
  <2>1. D \in SUBSET S
    OBVIOUS
  <2>. HIDE DEF D
  <2>2. IsFiniteSet(D)
    BY <1>1, <2>1, FS_Subset
  <2>3. IsFiniteSet(D \cup {p})
    BY <2>2, FS_AddElement
  <2>. QED
    BY <1>2, <2>2, <2>3
<1>5. Weighed(ch, D) /\ Weighed(dh, U)
  BY <1>1, <1>2 DEF Weighed
<1>6. Weight(ch, D) <= Weight(ch, S) /\ Weight(ch, D) \in Nat
  <2>1. Weight(ch, D) \in Nat /\ Weight(ch, S) \in Nat
    BY <1>1, <1>4, <1>5, WeightFacts
  <2>2. CASE Gone = {}
    BY <2>1, <2>2
  <2>3. CASE Gone # {}
    <3>1. PICK old \in S : Gone = {old}
      BY <2>3
    <3>. HIDE DEF S
    <3>2. Weight(ch, S) = ch[old].size + Weight(ch, S \ {old})
      BY <1>1, WeightFacts
    <3>3. ch[old].size \in Nat /\ S \ {old} = D
      BY <1>1, <3>1 DEF Weighed
    <3>. HIDE DEF D
    <3>. QED
      BY <2>1, <3>2, <3>3
  <2>. QED
    BY <2>2, <2>3
<1>. HIDE DEF U
<1>7. Weight(dh, U) = n + Weight(dh, D)
  BY <1>2, <1>4, <1>5, WeightFacts
<1>8. Weight(dh, D) = Weight(ch, D)
  <2>1. \A a \in D : dh[a].size = ch[a].size
    BY <1>2
  <2>. HIDE DEF D
  <2>. QED
    BY <1>4, <1>5, <2>1, WeightSame
<1>. HIDE DEF D, S
<1>. QED
  BY <1>1, <1>3, <1>6, <1>7, <1>8

\* A change of libc's that no block notices.
LEMMA TellsStill ==
  ASSUME NEW t, NEW ch, Tells(t, ch), NEW dh, HeapOK(dh),
         Starts(dh, "gc") = Starts(ch, "gc"), \A a \in Starts(ch, "gc") : dh[a] = ch[a]
  PROVE  Tells(t, dh) /\ Total(dh) = Total(ch)
<1>1. Registry(dh) = Registry(ch)
  BY DEF Registry
<1>2. Tells(t, dh)
  BY <1>1 DEF Tells, Told
<1>3. Weight(dh, Starts(ch, "gc")) = Weight(ch, Starts(ch, "gc"))
  BY StartsFinite, TotalFacts, WeightSame
<1>. QED
  BY <1>2, <1>3 DEF Total, Weight

(***************************************************************************)
(* g_pins.                                                                 *)
(***************************************************************************)
PinEntry == [start : Addr, count : Nat \ {0}]

\* The last entry fills the hole at i.
HoleFill(s, i) == Front([s EXCEPT ![i] = s[Len(s)]])

LEMMA HoleFilled ==
  ASSUME NEW X, NEW s \in Seq(X), NEW i \in DOMAIN s, NEW n, n = Len(s)
  PROVE  /\ HoleFill(s, i) \in Seq(X) /\ DOMAIN HoleFill(s, i) = 1 .. n - 1
         /\ \A j \in 1 .. n - 1 : HoleFill(s, i)[j] = s[IF j = i THEN n ELSE j]
<1> DEFINE q == HoleFill(s, i)
           last == s[n]
           x == [s EXCEPT ![i] = last]
<1>1. n \in Nat /\ DOMAIN s = 1 .. n /\ i \in 1 .. n /\ n \in 1 .. n /\ last \in X
  BY SeqFacts
<1>2. q = SubSeq(x, 1, n - 1)
  <2>1. Len(x) = n
    BY <1>1
  <2>. HIDE DEF x
  <2>2. q = SubSeq(x, 1, Len(x) - 1)
    BY DEF Front, HoleFill, x
  <2>. QED
    BY <2>1, <2>2
<1>. HIDE DEF last, q
<1>3. x \in Seq(X) /\ Len(x) = n /\ \A j \in 1 .. n : x[j] = IF j = i THEN last ELSE s[j]
  BY <1>1
<1>. HIDE DEF x
<1>4. q \in Seq(X) /\ Len(q) = n - 1 /\ \A j \in 1 .. n - 1 : q[j] = x[j]
  <2> DEFINE m == n - 1
  <2>1. m \in Nat /\ m <= Len(x) /\ Len(x) \in Nat
    BY <1>1, <1>3
  <2>. HIDE DEF m
  <2>2. /\ SubSeq(x, 1, m) \in Seq(X) /\ Len(SubSeq(x, 1, m)) = m
        /\ \A j \in 1 .. m : SubSeq(x, 1, m)[j] = x[j]
    BY <1>3, <2>1
  <2>. QED
    BY <1>2, <2>2 DEF m
<1>5. DOMAIN q = 1 .. n - 1
  BY <1>4
<1>6. \A j \in 1 .. n - 1 : j \in 1 .. n
  BY <1>1
<1>. QED
  BY <1>3, <1>4, <1>5, <1>6 DEF last, q

LEMMA PinFacts ==
  ASSUME NEW pn, NEW ch, HeapOK(ch), PinsOK(pn, ch)
  PROVE  /\ pn \in Seq(PinEntry) /\ OneEach(pn) /\ Len(pn) \in Nat /\ DOMAIN pn = 1 .. Len(pn)
         /\ \A i \in DOMAIN pn :
               /\ pn[i] \in PinEntry /\ pn[i].start \in Addr /\ pn[i].count \in Nat \ {0}
               /\ ch[pn[i].start].owner = "gc" /\ ch[pn[i].start].size # 0
               /\ pn[i].start \in Starts(ch, "gc") /\ pn[i].start \in Around(ch, pn[i].start)
<1>1. pn \in Seq(PinEntry) /\ OneEach(pn)
      /\ \A i \in DOMAIN pn : ch[pn[i].start].owner = "gc" /\ ch[pn[i].start].size # 0
  BY DEF PinsOK, PinEntry
<1>2. Len(pn) \in Nat /\ DOMAIN pn = 1 .. Len(pn) /\ \A i \in DOMAIN pn : pn[i] \in PinEntry
  BY <1>1, SeqFacts
<1>3. \A e \in PinEntry : e.start \in Addr /\ e.count \in Nat \ {0}
  BY DEF PinEntry
<1>4. ASSUME NEW i \in DOMAIN pn
      PROVE  pn[i].start \in Starts(ch, "gc") /\ pn[i].start \in Around(ch, pn[i].start)
  <2> DEFINE a == pn[i].start
  <2>1. a \in Addr /\ ch[a].owner = "gc" /\ ch[a].size # 0
    BY <1>1, <1>2, <1>3
  <2>. HIDE DEF a
  <2>2. a \in Nat /\ ch[a].size \in Nat /\ a \in Starts(ch, "gc")
    BY <2>1, ChunkFacts
  <2>3. a <= a /\ a < a + ch[a].size
    BY <2>1, <2>2
  <2>4. a \in Around(ch, a)
    BY <2>2, <2>3 DEF Around
  <2>. QED
    BY <2>2, <2>4 DEF a
<1>. QED
  BY <1>1, <1>2, <1>3, <1>4

\* The pins do not notice a change elsewhere.
LEMMA PinsStill ==
  ASSUME NEW pn, NEW ch, HeapOK(ch), PinsOK(pn, ch), NEW dh,
         \A a \in Starts(ch, "gc") : dh[a] = ch[a]
  PROVE  PinsOK(pn, dh)
BY PinFacts DEF PinsOK

\* turf_gc_reregister_block gives the pin's entry the new start.
PinsMoved(pn, old, p) ==
    [i \in DOMAIN pn |->
        IF i \in FindPin(pn, old) THEN [pn[i] EXCEPT !.start = p] ELSE pn[i]]

LEMMA PinsMovedFacts ==
  ASSUME NEW pn, NEW ch, HeapOK(ch), PinsOK(pn, ch), NEW old, NEW p \in Addr,
         NEW qn, qn = PinsMoved(pn, old, p)
  PROVE  /\ qn \in Seq(PinEntry) /\ DOMAIN qn = DOMAIN pn
         /\ \A i \in DOMAIN pn :
               /\ qn[i].count = pn[i].count
               /\ qn[i].start = IF pn[i].start = old THEN p ELSE pn[i].start
<1>1. /\ DOMAIN pn = 1 .. Len(pn) /\ Len(pn) \in Nat
      /\ \A i \in DOMAIN pn : pn[i] \in PinEntry
  BY PinFacts
<1>2. DOMAIN qn = DOMAIN pn
  BY DEF PinsMoved
<1>3. ASSUME NEW i \in DOMAIN pn
      PROVE  /\ qn[i] \in PinEntry /\ qn[i].count = pn[i].count
             /\ qn[i].start = IF pn[i].start = old THEN p ELSE pn[i].start
  <2> DEFINE e == pn[i]
             d == [e EXCEPT !.start = p]
  <2>1. e \in PinEntry
    BY <1>1
  <2>2. qn[i] = IF e.start = old THEN d ELSE e
    BY DEF PinsMoved, FindPin
  <2>. HIDE DEF e
  <2>3. d \in PinEntry /\ d.count = e.count /\ d.start = p
    BY <2>1 DEF PinEntry
  <2>. HIDE DEF d
  <2>. QED
    BY <2>1, <2>2, <2>3 DEF e
<1>4. qn = [i \in 1 .. Len(pn) |-> qn[i]]
  BY <1>1 DEF PinsMoved
<1>5. \A i \in 1 .. Len(pn) : qn[i] \in PinEntry
  BY <1>1, <1>3
<1>6. qn \in [1 .. Len(pn) -> PinEntry]
  BY <1>4, <1>5
<1>7. qn \in Seq(PinEntry)
  BY <1>1, <1>6
<1>. QED
  BY <1>2, <1>3, <1>7

LEMMA PinsMovedOK ==
  ASSUME NEW pn, NEW ch, HeapOK(ch), PinsOK(pn, ch), NEW old \in Starts(ch, "gc"),
         NEW p \in Addr, NEW n \in Nat \ {0}, NEW dh, Grown(dh, ch, {old}, p, n)
  PROVE  PinsOK(PinsMoved(pn, old, p), dh)
<1> DEFINE qn == PinsMoved(pn, old, p)
<1>1. /\ qn \in Seq(PinEntry) /\ DOMAIN qn = DOMAIN pn
      /\ \A i \in DOMAIN pn : qn[i].start = IF pn[i].start = old THEN p ELSE pn[i].start
  BY PinsMovedFacts
<1>. HIDE DEF qn
<1>2. /\ OneEach(pn)
      /\ \A i \in DOMAIN pn :
            /\ ch[pn[i].start].owner = "gc" /\ ch[pn[i].start].size # 0
            /\ pn[i].start \in Starts(ch, "gc")
  BY PinFacts
<1>3. /\ p \notin Starts(ch, "gc") \ {old} /\ \A a \in Starts(ch, "gc") \ {old} : dh[a] = ch[a]
      /\ dh[p].size = n /\ dh[p].owner = "gc"
  BY DEF Grown
<1>4. OneEach(qn)
  BY <1>1, <1>2, <1>3 DEF OneEach
<1>5. \A i \in DOMAIN qn : dh[qn[i].start].owner = "gc" /\ dh[qn[i].start].size # 0
  BY <1>1, <1>2, <1>3
<1>. QED
  BY <1>1, <1>4, <1>5 DEF PinsOK, PinEntry, qn

\* turf_rt_pin and turf_rt_unpin as changes of the list.
PinnedMore(pn, b) ==
    IF FindPin(pn, b) = {} THEN Append(pn, [start |-> b, count |-> 1])
    ELSE [i \in DOMAIN pn |->
             IF i \in FindPin(pn, b) THEN [pn[i] EXCEPT !.count = @ + 1] ELSE pn[i]]

PinnedLess(pn, i) ==
    IF pn[i].count > 1 THEN [pn EXCEPT ![i].count = @ - 1]
    ELSE Front([pn EXCEPT ![i] = pn[Len(pn)]])

\* What the entries of a list say, whatever their order.
CountIn(pn, a) ==
    IF FindPin(pn, a) = {} THEN 0 ELSE pn[CHOOSE i \in FindPin(pn, a) : TRUE].count

LEMMA CountFacts ==
  ASSUME NEW pn, OneEach(pn), NEW a
  PROVE  /\ (\A i \in DOMAIN pn : pn[i].start # a) => CountIn(pn, a) = 0
         /\ \A i \in DOMAIN pn : pn[i].start = a => CountIn(pn, a) = pn[i].count
<1>1. ASSUME NEW i \in DOMAIN pn, pn[i].start = a PROVE CountIn(pn, a) = pn[i].count
  <2>1. FindPin(pn, a) = {i}
    BY <1>1 DEF FindPin, OneEach
  <2>. QED
    BY <2>1 DEF CountIn
<1>2. ASSUME \A i \in DOMAIN pn : pn[i].start # a PROVE CountIn(pn, a) = 0
  BY <1>2 DEF CountIn, FindPin
<1>. QED
  BY <1>1, <1>2

\* qn counts as pn does, but c at b.
Recount(qn, pn, b, c) ==
    CountIn(qn, b) = c /\ \A a \in Addr \ {b} : CountIn(qn, a) = CountIn(pn, a)

LEMMA PinnedMoreOK ==
  ASSUME NEW pn, NEW ch, HeapOK(ch), PinsOK(pn, ch), NEW b \in Addr,
         ch[b].owner = "gc", ch[b].size # 0, NEW qn, qn = PinnedMore(pn, b)
  PROVE  PinsOK(qn, ch) /\ CountIn(pn, b) \in Nat /\ Recount(qn, pn, b, CountIn(pn, b) + 1)
<1> DEFINE at == FindPin(pn, b)
           m == Len(pn)
           e == [start |-> b, count |-> 1]
<1>1. /\ pn \in Seq(PinEntry) /\ OneEach(pn) /\ m \in Nat /\ DOMAIN pn = 1 .. m
      /\ \A i \in 1 .. m :
            /\ pn[i] \in PinEntry /\ pn[i].count \in Nat \ {0} /\ pn[i].start \in Addr
            /\ ch[pn[i].start].owner = "gc" /\ ch[pn[i].start].size # 0
  BY PinFacts
<1>2. at = {i \in 1 .. m : pn[i].start = b}
  BY <1>1 DEF FindPin
<1>3. CASE at = {}
  <2>1. e \in PinEntry /\ e.start = b /\ e.count = 1
    BY DEF PinEntry
  <2>. HIDE DEF e
  <2>2. Appended(qn, pn, e, PinEntry)
    <3>1. qn = Append(pn, e)
      BY <1>3 DEF PinnedMore, e
    <3>. QED
      BY <1>1, <2>1, <3>1, AppendFacts
  <2>3. /\ qn \in Seq(PinEntry) /\ DOMAIN qn = 1 .. m + 1 /\ qn[m + 1] = e
        /\ \A i \in 1 .. m : qn[i] = pn[i]
    BY <2>2 DEF Appended
  <2>4. \A i \in 1 .. m + 1 : i \in 1 .. m \/ i = m + 1
    BY <1>1
  <2>5. \A i \in 1 .. m : pn[i].start # b
    BY <1>2, <1>3
  <2>6. OneEach(qn)
    <3> SUFFICES ASSUME NEW i \in 1 .. m + 1, NEW j \in 1 .. m + 1, qn[i].start = qn[j].start
                 PROVE  i = j
      BY <2>3 DEF OneEach
    <3>. QED
      BY <1>1, <2>1, <2>3, <2>4, <2>5 DEF OneEach
  <2>7. \A i \in 1 .. m + 1 : ch[qn[i].start].owner = "gc" /\ ch[qn[i].start].size # 0
    BY <1>1, <2>1, <2>3, <2>4
  <2>8. PinsOK(qn, ch)
    BY <2>3, <2>6, <2>7 DEF PinsOK, PinEntry
  <2>9. CountIn(pn, b) = 0
    BY <1>1, <2>5, CountFacts
  <2>10. CountIn(qn, b) = 1
    <3>1. m + 1 \in DOMAIN qn
      BY <1>1, <2>3
    <3>. QED
      BY <2>1, <2>3, <2>6, <3>1, CountFacts
  <2>11. ASSUME NEW a \in Addr \ {b} PROVE CountIn(qn, a) = CountIn(pn, a)
    <3>1. CASE \E i \in 1 .. m : pn[i].start = a
      <4>1. PICK i \in 1 .. m : pn[i].start = a
        BY <3>1
      <4>2. i \in DOMAIN pn /\ i \in DOMAIN qn /\ qn[i] = pn[i]
        BY <1>1, <2>3, <4>1
      <4>. QED
        BY <1>1, <2>6, <4>1, <4>2, CountFacts
    <3>2. CASE ~\E i \in 1 .. m : pn[i].start = a
      <4>1. \A i \in DOMAIN pn : pn[i].start # a
        BY <1>1, <3>2
      <4>2. \A i \in DOMAIN qn : qn[i].start # a
        BY <2>1, <2>3, <2>4, <3>2
      <4>. QED
        BY <1>1, <2>6, <4>1, <4>2, CountFacts
    <3>. QED
      BY <3>1, <3>2
  <2>. QED
    BY <2>8, <2>9, <2>10, <2>11 DEF Recount
<1>4. CASE at # {}
  <2>1. qn = [i \in DOMAIN pn |->
                 IF i \in at THEN [pn[i] EXCEPT !.count = @ + 1] ELSE pn[i]]
    BY <1>4 DEF PinnedMore
  <2>2. ASSUME NEW i \in 1 .. m
        PROVE  /\ qn[i] \in PinEntry /\ qn[i].start = pn[i].start
               /\ qn[i].count = IF pn[i].start = b THEN pn[i].count + 1 ELSE pn[i].count
    <3> DEFINE f == pn[i]
               d == [f EXCEPT !.count = @ + 1]
    <3>1. f \in PinEntry /\ f.count \in Nat \ {0}
      BY <1>1
    <3>2. qn[i] = IF f.start = b THEN d ELSE f
      BY <1>1, <1>2, <2>1
    <3>. HIDE DEF f
    <3>3. d \in PinEntry /\ d.start = f.start /\ d.count = f.count + 1
      BY <3>1 DEF PinEntry
    <3>. HIDE DEF d
    <3>. QED
      BY <3>1, <3>2, <3>3 DEF f
  <2>3. DOMAIN qn = 1 .. m /\ qn = [i \in 1 .. m |-> qn[i]]
    BY <1>1, <2>1
  <2>4. qn \in [1 .. m -> PinEntry]
    BY <2>2, <2>3
  <2>5. qn \in Seq(PinEntry)
    BY <1>1, <2>4
  <2>6. OneEach(qn)
    BY <1>1, <2>2, <2>3 DEF OneEach
  <2>7. PinsOK(qn, ch)
    BY <1>1, <2>2, <2>3, <2>5, <2>6 DEF PinsOK, PinEntry
  <2>8. PICK i \in 1 .. m : pn[i].start = b
    BY <1>2, <1>4
  <2>9. CountIn(pn, b) = pn[i].count /\ CountIn(qn, b) = pn[i].count + 1 /\ pn[i].count \in Nat
    <3>1. CountIn(pn, b) = pn[i].count
      BY <1>1, <2>8, CountFacts
    <3>2. CountIn(qn, b) = qn[i].count
      BY <2>2, <2>3, <2>6, <2>8, CountFacts
    <3>. QED
      BY <1>1, <2>2, <2>8, <3>1, <3>2
  <2>10. ASSUME NEW a \in Addr \ {b} PROVE CountIn(qn, a) = CountIn(pn, a)
    <3>1. CASE \E j \in 1 .. m : pn[j].start = a
      <4>1. PICK j \in 1 .. m : pn[j].start = a
        BY <3>1
      <4>2. qn[j].start = a /\ qn[j].count = pn[j].count
        BY <2>2, <4>1
      <4>. QED
        BY <1>1, <2>3, <2>6, <4>1, <4>2, CountFacts
    <3>2. CASE ~\E j \in 1 .. m : pn[j].start = a
      <4>1. \A j \in DOMAIN pn : pn[j].start # a
        BY <1>1, <3>2
      <4>2. \A j \in DOMAIN qn : qn[j].start # a
        BY <2>2, <2>3, <3>2
      <4>. QED
        BY <1>1, <2>6, <4>1, <4>2, CountFacts
    <3>. QED
      BY <3>1, <3>2
  <2>. QED
    BY <2>7, <2>9, <2>10 DEF Recount
<1>. QED
  BY <1>3, <1>4

LEMMA PinnedLessOK ==
  ASSUME NEW pn, NEW ch, HeapOK(ch), PinsOK(pn, ch), NEW i \in DOMAIN pn,
         NEW qn, qn = PinnedLess(pn, i)
  PROVE  /\ PinsOK(qn, ch) /\ CountIn(pn, pn[i].start) \in Nat \ {0}
         /\ Recount(qn, pn, pn[i].start, CountIn(pn, pn[i].start) - 1)
<1> DEFINE m == Len(pn)
           b == pn[i].start
           c == pn[i].count
<1>1. /\ pn \in Seq(PinEntry) /\ OneEach(pn) /\ m \in Nat /\ DOMAIN pn = 1 .. m
      /\ \A j \in 1 .. m :
            /\ pn[j] \in PinEntry /\ pn[j].count \in Nat \ {0} /\ pn[j].start \in Addr
            /\ ch[pn[j].start].owner = "gc" /\ ch[pn[j].start].size # 0
  BY PinFacts
<1>2. i \in 1 .. m /\ CountIn(pn, b) = c /\ c \in Nat \ {0}
  <2>1. i \in 1 .. m
    BY <1>1
  <2>2. CountIn(pn, b) = c
    BY <1>1, CountFacts
  <2>. QED
    BY <1>1, <2>1, <2>2
<1>. HIDE DEF m
<1>3. \A j \in 1 .. m : pn[j].start = b => j = i
  BY <1>1, <1>2 DEF OneEach
<1>4. CASE c > 1
  <2> DEFINE d == [pn[i] EXCEPT !.count = @ - 1]
  <2>1. d \in PinEntry /\ d.start = b /\ d.count = c - 1
    <3> DEFINE f == pn[i]
    <3>1. f \in PinEntry /\ f.count \in Nat \ {0} /\ f.count > 1
      BY <1>1, <1>2, <1>4
    <3>2. [f EXCEPT !.count = @ - 1] \in PinEntry
          /\ [f EXCEPT !.count = @ - 1].start = f.start
          /\ [f EXCEPT !.count = @ - 1].count = f.count - 1
      <4>. HIDE DEF f
      <4>. QED
        BY <3>1 DEF PinEntry
    <3>. QED
      BY <3>2
  <2>2. qn = [pn EXCEPT ![i] = d]
    BY <1>4 DEF PinnedLess
  <2>. HIDE DEF d
  <2>3. /\ qn \in Seq(PinEntry) /\ DOMAIN qn = 1 .. m
        /\ \A j \in 1 .. m : qn[j] = IF j = i THEN d ELSE pn[j]
    BY <1>1, <1>2, <2>1, <2>2
  <2>4. \A j \in 1 .. m : qn[j].start = pn[j].start
    BY <2>1, <2>3
  <2>5. OneEach(qn)
    BY <1>1, <2>3, <2>4 DEF OneEach
  <2>6. PinsOK(qn, ch)
    BY <1>1, <2>3, <2>4, <2>5 DEF PinsOK, PinEntry
  <2>7. CountIn(qn, b) = c - 1
    <3>1. i \in DOMAIN qn /\ qn[i].start = b /\ qn[i].count = c - 1
      BY <1>2, <2>1, <2>3
    <3>. HIDE DEF b, c
    <3>. QED
      BY <2>5, <3>1, CountFacts
  <2>8. ASSUME NEW a \in Addr \ {b} PROVE CountIn(qn, a) = CountIn(pn, a)
    <3>1. CASE \E j \in 1 .. m : pn[j].start = a
      <4>1. PICK j \in 1 .. m : pn[j].start = a
        BY <3>1
      <4>2. j # i /\ qn[j] = pn[j]
        BY <2>3, <4>1
      <4>. QED
        BY <1>1, <2>3, <2>5, <4>1, <4>2, CountFacts
    <3>2. CASE ~\E j \in 1 .. m : pn[j].start = a
      <4>1. \A j \in DOMAIN pn : pn[j].start # a
        BY <1>1, <3>2
      <4>2. \A j \in DOMAIN qn : qn[j].start # a
        BY <2>3, <2>4, <3>2
      <4>. QED
        BY <1>1, <2>5, <4>1, <4>2, CountFacts
    <3>. QED
      BY <3>1, <3>2
  <2>. QED
    BY <1>2, <2>6, <2>7, <2>8 DEF Recount
<1>5. CASE ~(c > 1)
  <2> DEFINE from(j) == IF j = i THEN m ELSE j
  <2>1. c = 1
    BY <1>2, <1>5
  <2>2. /\ qn \in Seq(PinEntry) /\ DOMAIN qn = 1 .. m - 1
        /\ \A j \in 1 .. m - 1 : qn[j] = pn[from(j)]
    <3>1. qn = HoleFill(pn, i)
      BY <1>5 DEF PinnedLess, HoleFill
    <3>. QED
      BY <1>1, <3>1, HoleFilled DEF m
  <2>3. \A j \in 1 .. m - 1 : from(j) \in 1 .. m /\ from(j) # i
    BY <1>1, <1>2
  <2>4. \A j \in 1 .. m - 1, k \in 1 .. m - 1 : from(j) = from(k) => j = k
    BY <1>1
  <2>5. \A k \in 1 .. m : k # i => \E j \in 1 .. m - 1 : from(j) = k
    <3> SUFFICES ASSUME NEW k \in 1 .. m, k # i PROVE \E j \in 1 .. m - 1 : from(j) = k
      OBVIOUS
    <3>1. CASE k = m
      <4>1. i \in 1 .. m - 1
        BY <1>1, <1>2, <3>1
      <4>. QED
        BY <3>1, <4>1
    <3>2. CASE k # m
      <4>1. k \in 1 .. m - 1
        BY <1>1, <3>2
      <4>. QED
        BY <4>1
    <3>. QED
      BY <3>1, <3>2
  <2>. HIDE DEF from
  <2>6. OneEach(qn)
    BY <1>1, <2>2, <2>3, <2>4 DEF OneEach
  <2>7. \A j \in 1 .. m - 1 : qn[j].start # b /\ ch[qn[j].start].owner = "gc"
                               /\ ch[qn[j].start].size # 0
    BY <1>1, <1>3, <2>2, <2>3
  <2>8. PinsOK(qn, ch)
    BY <2>2, <2>6, <2>7 DEF PinsOK, PinEntry
  <2>9. CountIn(qn, b) = 0
    BY <2>2, <2>6, <2>7, CountFacts
  <2>10. ASSUME NEW a \in Addr \ {b} PROVE CountIn(qn, a) = CountIn(pn, a)
    <3>1. CASE \E k \in 1 .. m : pn[k].start = a
      <4>1. PICK k \in 1 .. m : pn[k].start = a
        BY <3>1
      <4>2. k # i
        BY <4>1
      <4>3. PICK j \in 1 .. m - 1 : from(j) = k
        BY <2>5, <4>2
      <4>4. qn[j] = pn[k] /\ j \in DOMAIN qn /\ k \in DOMAIN pn
        BY <1>1, <2>2, <4>3
      <4>. QED
        BY <1>1, <2>6, <4>1, <4>4, CountFacts
    <3>2. CASE ~\E k \in 1 .. m : pn[k].start = a
      <4>1. \A k \in DOMAIN pn : pn[k].start # a
        BY <1>1, <3>2
      <4>2. \A j \in DOMAIN qn : qn[j].start # a
        BY <2>2, <2>3, <3>2
      <4>. QED
        BY <1>1, <2>6, <4>1, <4>2, CountFacts
    <3>. QED
      BY <3>1, <3>2
  <2>11. c - 1 = 0
    BY <2>1
  <2>. QED
    BY <1>2, <2>8, <2>9, <2>10, <2>11 DEF Recount
<1>. QED
  BY <1>4, <1>5

(***************************************************************************)
(* The steps.                                                              *)
(***************************************************************************)
\* turf_gc_note_alloc, with the block of n words at p registered.
LEMMA NoteAllocFacts ==
  ASSUME NEW t, NEW ch, Tells(t, ch), NEW pn, PinsOK(pn, ch), NEW p \in Addr, NEW n \in Nat,
         gauge \in [since : Nat, threshold : Nat, live : Nat],
         Total(ch) <= gauge.live + gauge.since + n,
         NoteAlloc(t, ch, pn, p, n)
  PROVE  /\ Tells(table', chunk') /\ Collected(ch, chunk', pn, {p})
         /\ GaugeOK(gauge', chunk')
<1>1. CASE Stress \/ gauge.since + n >= gauge.threshold
  <2>1. CollectFrom(t, ch, pn, {p})
    BY <1>1 DEF NoteAlloc
  <2>2. {p} \in SUBSET Addr
    OBVIOUS
  <2>. QED
    BY <2>1, <2>2, CollectFacts
<1>2. CASE ~(Stress \/ gauge.since + n >= gauge.threshold)
  <2>1. table' = t /\ chunk' = ch /\ gauge' = [gauge EXCEPT !.since = @ + n]
    BY <1>2 DEF NoteAlloc
  <2>2. Collected(ch, chunk', pn, {p})
    <3>1. ch \in [Addr -> Chunk]
      BY DEF Tells, HeapOK
    <3>2. chunk' = Without(ch, {})
      BY <2>1, <3>1 DEF Without
    <3>. QED
      BY <3>2 DEF Collected
  <2>3. GaugeOK(gauge', chunk')
    <3> DEFINE g == gauge
               h == [g EXCEPT !.since = @ + n]
    <3>1. g.since \in Nat /\ g.threshold \in Nat /\ g.live \in Nat
          /\ ~(g.since + n >= g.threshold) /\ Total(ch) <= g.live + g.since + n
      BY <1>2
    <3>2. h \in [since : Nat, threshold : Nat, live : Nat] /\ h.since = g.since + n
          /\ h.threshold = g.threshold /\ h.live = g.live
      BY <3>1
    <3>3. gauge' = h
      BY <2>1
    <3>. HIDE DEF h, g
    <3>4. Total(ch) \in Nat
      BY TotalFacts
    <3>5. h.since < h.threshold /\ Total(ch) <= h.live + h.since
      BY <3>1, <3>2, <3>4
    <3>. QED
      BY <2>1, <3>2, <3>3, <3>5 DEF GaugeOK
  <2>. QED
    BY <2>1, <2>2, <2>3
<1>. QED
  BY <1>1, <1>2

\* What it does to register a new block at p, and to collect: dh is the heap
\* before a collection.
LEMMA NewBlockFacts ==
  ASSUME NEW ch, Tells(table, ch), HeapOK(ch), PinsOK(pins, ch), GaugeOK(gauge, ch),
         NEW p \in Addr, NEW n \in Nat, CanPlace(ch, p, n, {}), pins' = pins,
         NEW dh, dh = [ch EXCEPT ![p] = [owner |-> "gc", size |-> n]],
         NoteAlloc(Registered(table, p, n), dh, pins, p, n)
  PROVE  /\ Tells(table', chunk') /\ GaugeOK(gauge', chunk') /\ PinsOK(pins', chunk')
         /\ HeapOK(dh) /\ PinsOK(pins, dh) /\ Grown(dh, ch, {}, p, n)
         /\ Collected(dh, chunk', pins, {p})
<1>2. Replaced(dh, ch, {}, p, "gc", n)
  BY DEF HeapOK, Replaced, Chunk
<1>3. Grown(dh, ch, {}, p, n)
  <2>1. {} \in SUBSET Starts(ch, "gc")
    OBVIOUS
  <2>. QED
    BY <1>2, <2>1, ReplacedBlocks
<1>4. /\ HeapOK(dh) /\ p \notin Starts(ch, "gc")
      /\ (\A a \in Starts(ch, "gc") : dh[a] = ch[a])
      /\ Registry(dh) = Registry(ch) \cup {Entry(p, n)}
  BY <1>3 DEF Grown
<1> DEFINE u == Registered(table, p, n)
<1>5. Tells(u, dh)
  <2>1. Records(u, Registry(ch) \cup {Entry(p, n)})
    BY <1>4, NewlyRegisteredOK
  <2>. QED
    BY <1>4, <2>1 DEF Records, Tells, Told
<1>6. PinsOK(pins, dh)
  BY <1>4, PinsStill
<1>7. Total(dh) <= gauge.live + gauge.since + n
      /\ gauge \in [since : Nat, threshold : Nat, live : Nat]
  <2>1. {} \in SUBSET Starts(ch, "gc")
    OBVIOUS
  <2>2. Total(dh) <= Total(ch) + n
    BY <1>2, <2>1, ReplacedTotal
  <2>3. Total(dh) \in Nat /\ Total(ch) \in Nat
    BY <1>5, TotalFacts
  <2> DEFINE g == gauge
  <2>4. /\ g \in [since : Nat, threshold : Nat, live : Nat]
        /\ Total(ch) <= g.live + g.since
    BY DEF GaugeOK
  <2>5. g.live \in Nat /\ g.since \in Nat
    BY <2>4
  <2>. HIDE DEF g
  <2>6. Total(dh) <= g.live + g.since + n
    BY <2>2, <2>3, <2>4, <2>5
  <2>. QED
    BY <2>4, <2>6 DEF g
<1>. HIDE DEF u
<1>8. /\ Tells(table', chunk') /\ Collected(dh, chunk', pins, {p})
      /\ GaugeOK(gauge', chunk')
  BY <1>5, <1>6, <1>7, NoteAllocFacts DEF u
<1>9. PinsOK(pins', chunk')
  BY <1>4, <1>6, <1>8, PinsStay
<1>. QED
  BY <1>3, <1>4, <1>6, <1>8, <1>9

\* What turf_rt_alloc does.
LEMMA AllocFacts ==
  ASSUME IInv, NEW p \in Addr, NEW n \in Sizes, Alloc(p, n),
         NEW dh, dh = [chunk EXCEPT ![p] = [owner |-> "gc", size |-> n]]
  PROVE  /\ Tells(table', chunk') /\ GaugeOK(gauge', chunk') /\ PinsOK(pins', chunk')
         /\ HeapOK(dh) /\ PinsOK(pins, dh) /\ Grown(dh, chunk, {}, p, n)
         /\ Collected(dh, chunk', pins, {p})
<1>1. /\ Tells(table, chunk) /\ HeapOK(chunk) /\ PinsOK(pins, chunk) /\ GaugeOK(gauge, chunk)
      /\ n \in Nat /\ pins' = pins /\ CanPlace(chunk, p, n, {})
      /\ NoteAlloc(Registered(table, p, n), dh, pins, p, n)
  BY SizesAssumption DEF IInv, Tells, Alloc
<1>. QED
  BY <1>1, NewBlockFacts

\* What turf_rt_realloc of old leaves: dh is the heap before a collection, with
\* the block it becomes at p.
Becomes(dh, old, p, n) ==
    /\ Tells(table', chunk') /\ GaugeOK(gauge', chunk') /\ PinsOK(pins', chunk')
    /\ HeapOK(dh) /\ PinsOK(pins', dh)
    /\ p \notin Starts(chunk, "gc") \ {old}
    /\ dh[p].size = n /\ dh[p].owner = "gc"
    /\ Collected(dh, chunk', pins', {p}) /\ pins' = PinsMoved(pins, old, p)

\* What turf_rt_realloc of a block does.
LEMMA ReallocFacts ==
  ASSUME IInv, NEW old \in Starts(chunk, "gc"), NEW p \in Addr, NEW n \in Sizes \ {0},
         Realloc(old, p, n),
         NEW dh, dh = [chunk EXCEPT ![old] = NoChunk, ![p] = [owner |-> "gc", size |-> n]]
  PROVE  Becomes(dh, old, p, n)
<1>1. /\ Tells(table, chunk) /\ HeapOK(chunk) /\ PinsOK(pins, chunk) /\ GaugeOK(gauge, chunk)
      /\ n \in Nat \ {0} /\ pins' = PinsMoved(pins, old, p) /\ CanPlace(chunk, p, n, {old})
      /\ NoteAlloc(Reregistered(table, old, p, n), dh, pins', p, n)
  BY SizesAssumption DEF IInv, Tells, Realloc, PinsMoved
<1>2. Replaced(dh, chunk, {old}, p, "gc", n)
  <2>1. chunk \in [Addr -> Chunk] /\ old \in Addr /\ NoChunk \in Chunk
        /\ [owner |-> "gc", size |-> n] \in Chunk
    BY <1>1 DEF HeapOK, Starts, NoChunk, Chunk
  <2> DEFINE new == [owner |-> "gc", size |-> n]
  <2>2. new.owner = "gc" /\ new.size = n /\ new \in Chunk
    BY <2>1
  <2>3. dh = [[chunk EXCEPT ![old] = NoChunk] EXCEPT ![p] = new]
    OBVIOUS
  <2>. HIDE DEF new
  <2>4. dh \in [Addr -> Chunk] /\ dh[p] = new
        /\ (\A a \in Addr \ {old, p} : dh[a] = chunk[a])
        /\ (old # p => dh[old] = NoChunk)
    BY <2>1, <2>2, <2>3
  <2>. QED
    BY <2>2, <2>4 DEF Replaced
<1>3. {old} \in SUBSET Starts(chunk, "gc")
  OBVIOUS
<1>4. Grown(dh, chunk, {old}, p, n)
  BY <1>1, <1>2, <1>3, ReplacedBlocks
<1>5. /\ HeapOK(dh) /\ p \notin Starts(chunk, "gc") \ {old}
      /\ Registry(dh) = {e \in Registry(chunk) : e.start \notin {old}} \cup {Entry(p, n)}
  BY <1>4 DEF Grown
<1> DEFINE u == Reregistered(table, old, p, n)
           o == Entry(old, chunk[old].size)
<1>6. Registry(dh) = (Registry(chunk) \ {o}) \cup {Entry(p, n)}
  <2>1. o.start = old
    BY DEF Entry
  <2>2. \A e \in Registry(chunk) : e = Entry(e.start, chunk[e.start].size)
    BY <1>1, RegistryFacts
  <2>3. \A e \in Registry(chunk) : e.start = old <=> e = o
    BY <2>1, <2>2
  <2>. HIDE DEF o
  <2>. QED
    BY <1>5, <2>3
<1>7. Tells(u, dh)
  <2>1. Records(u, (Registry(chunk) \ {o}) \cup {Entry(p, n)})
    BY <1>1, <1>5, ReregisteredOK
  <2>. HIDE DEF u, o
  <2>. QED
    BY <1>5, <1>6, <2>1 DEF Records, Tells, Told
<1>8. PinsOK(pins', dh)
  BY <1>1, <1>4, PinsMovedOK
<1>9. Total(dh) <= gauge.live + gauge.since + n
      /\ gauge \in [since : Nat, threshold : Nat, live : Nat]
  <2>1. Total(dh) <= Total(chunk) + n
    BY <1>1, <1>2, <1>3, ReplacedTotal
  <2>2. Total(dh) \in Nat /\ Total(chunk) \in Nat
    BY <1>1, <1>7, TotalFacts
  <2> DEFINE g == gauge
  <2>3. /\ g \in [since : Nat, threshold : Nat, live : Nat]
        /\ Total(chunk) <= g.live + g.since
    BY <1>1 DEF GaugeOK
  <2>4. g.live \in Nat /\ g.since \in Nat
    BY <2>3
  <2>. HIDE DEF g
  <2>5. Total(dh) <= g.live + g.since + n
    BY <1>1, <2>1, <2>2, <2>3, <2>4
  <2>. QED
    BY <2>3, <2>5 DEF g
<1>. HIDE DEF u
<1>10. /\ Tells(table', chunk') /\ Collected(dh, chunk', pins', {p})
       /\ GaugeOK(gauge', chunk')
  BY <1>1, <1>7, <1>8, <1>9, NoteAllocFacts DEF u
<1>11. PinsOK(pins', chunk')
  BY <1>5, <1>8, <1>10, PinsStay
<1>. QED
  BY <1>1, <1>4, <1>8, <1>10, <1>11 DEF Becomes, Grown

\* gc_collect().
LEMMA CollectDoes ==
  ASSUME IInv, Collect
  PROVE  /\ Tells(table', chunk') /\ GaugeOK(gauge', chunk') /\ PinsOK(pins', chunk')
         /\ Collected(chunk, chunk', pins, {})
<1>1. /\ Tells(table, chunk) /\ HeapOK(chunk) /\ PinsOK(pins, chunk) /\ pins' = pins
      /\ CollectFrom(table, chunk, pins, {})
  BY DEF IInv, Tells, Collect
<1>2. {} \in SUBSET Addr
  OBVIOUS
<1>3. /\ Tells(table', chunk') /\ Collected(chunk, chunk', pins, {}) /\ GaugeOK(gauge', chunk')
  BY <1>1, <1>2, CollectFacts
<1>4. PinsOK(pins', chunk')
  BY <1>1, <1>3, PinsStay
<1>. QED
  BY <1>3, <1>4

\* mem::alloc and mem::free change no block.
Aside(dh, ch) ==
    /\ HeapOK(dh) /\ Starts(dh, "gc") = Starts(ch, "gc")
    /\ \A a \in Starts(ch, "gc") : dh[a] = ch[a]

LEMMA ManualAllocAside ==
  ASSUME IInv, NEW p \in Addr, NEW n \in ManualSizes, ManualAlloc(p, n)
  PROVE  Aside(chunk', chunk)
<1> DEFINE new == [owner |-> "manual", size |-> n]
<1>1. /\ HeapOK(chunk) /\ n \in Nat /\ CanPlace(chunk, p, n, {})
      /\ chunk' = [chunk EXCEPT ![p] = new]
  BY SizesAssumption DEF IInv, ManualAlloc
<1>2. new \in Chunk /\ new.owner = "manual" /\ new.size = n /\ chunk \in [Addr -> Chunk]
  BY <1>1 DEF Chunk, HeapOK
<1>. HIDE DEF new
<1>3. Replaced(chunk', chunk, {}, p, "manual", n)
  BY <1>1, <1>2 DEF Replaced
<1>4. HeapOK(chunk') /\ chunk[p].owner = "none"
  <2>1. {} \in SUBSET Addr
    OBVIOUS
  <2>. QED
    BY <1>1, <1>3, <2>1, ReplacedHeap
<1>5. chunk'[p].owner = "manual" /\ \A a \in Addr \ {p} : chunk'[a] = chunk[a]
  BY <1>1, <1>2
<1>6. Starts(chunk', "gc") = Starts(chunk, "gc")
  BY <1>4, <1>5 DEF Starts
<1>7. \A a \in Starts(chunk, "gc") : chunk'[a] = chunk[a]
  BY <1>4, <1>5 DEF Starts
<1>. QED
  BY <1>4, <1>6, <1>7 DEF Aside

LEMMA FreedAside ==
  ASSUME NEW ch, HeapOK(ch), NEW a \in Addr, a \notin Starts(ch, "gc")
  PROVE  Aside([ch EXCEPT ![a] = NoChunk], ch)
<1> DEFINE dh == [ch EXCEPT ![a] = NoChunk]
<1>1. dh = Without(ch, {a})
  BY DEF Without, HeapOK
<1>2. /\ HeapOK(dh) /\ Starts(dh, "gc") = Starts(ch, "gc") \ {a}
      /\ \A b \in Addr \ {a} : dh[b] = ch[b]
  <2>. HIDE DEF dh
  <2>. QED
    BY <1>1, WithoutFacts
<1>3. \A b \in Starts(ch, "gc") : dh[b] = ch[b]
  <2>. HIDE DEF dh
  <2>. QED
    BY <1>2 DEF Starts
<1>. HIDE DEF dh
<1>. QED
  BY <1>2, <1>3 DEF Aside, dh

LEMMA CheckedFreeDoes ==
  ASSUME IInv, NEW a \in Starts(chunk, "gc") \cup Starts(chunk, "manual"), CheckedFree(a)
  PROVE  \/ a \in Starts(chunk, "gc") /\ Panic("cross-heap free")
         \/ /\ a \in Starts(chunk, "manual") /\ Aside(chunk', chunk)
            /\ chunk' = [chunk EXCEPT ![a] = NoChunk]
            /\ UNCHANGED <<table, pins, gauge, panic>>
<1>1. Tells(table, chunk) /\ HeapOK(chunk) /\ a \in Addr /\ chunk \in [Addr -> Chunk]
  BY DEF IInv, Tells, Starts, HeapOK
<1>2. IsRegistered(table, a) <=> a \in Starts(chunk, "gc")
  BY <1>1, TellsExact DEF IsRegistered
<1>3. CASE a \in Starts(chunk, "gc")
  BY <1>2, <1>3 DEF CheckedFree
<1>4. CASE a \notin Starts(chunk, "gc")
  <2>1. /\ chunk' = [chunk EXCEPT ![a] = NoChunk]
        /\ UNCHANGED <<table, pins, gauge, panic>> /\ a \in Starts(chunk, "manual")
    BY <1>2, <1>4 DEF CheckedFree
  <2>2. Aside(chunk', chunk)
    BY <1>1, <1>4, <2>1, FreedAside
  <2>. QED
    BY <1>4, <2>1, <2>2
<1>. QED
  BY <1>3, <1>4

\* The block a pin or unpin of v is about.
LEMMA AimedAt ==
  ASSUME IInv, NEW v \in Addr, NEW e \in FindContainingAny(table, v)
  PROVE  /\ e.start \in Around(chunk, v) /\ e.start \in Addr
         /\ chunk[e.start].owner = "gc" /\ chunk[e.start].size # 0
<1>1. Tells(table, chunk) /\ HeapOK(chunk)
  BY DEF IInv, Tells
<1> DEFINE b == e.start
<1>2. b \in Around(chunk, v)
  BY <1>1, TellsInside
<1>. HIDE DEF b
<1>3. b \in Addr /\ chunk[b].owner = "gc" /\ b <= v /\ v < b + chunk[b].size
  BY <1>2 DEF Around, Starts
<1>4. b \in Nat /\ v \in Nat /\ chunk[b].size \in Nat
  BY <1>1, <1>3, ChunkFacts
<1>. QED
  BY <1>2, <1>3, <1>4 DEF b

LEMMA PinDoes ==
  ASSUME IInv, NEW v \in Addr, Pin(v)
  PROVE  \E b \in Around(chunk, v) :
            /\ b \in Addr /\ chunk[b].owner = "gc" /\ chunk[b].size # 0
            /\ pins' = PinnedMore(pins, b) /\ UNCHANGED <<table, gauge, chunk, panic>>
<1>1. PICK e \in FindContainingAny(table, v) :
         pins' = IF FindPin(pins, e.start) = {}
                 THEN Append(pins, [start |-> e.start, count |-> 1])
                 ELSE [i \in DOMAIN pins |->
                          IF i \in FindPin(pins, e.start) THEN [pins[i] EXCEPT !.count = @ + 1]
                          ELSE pins[i]]
  BY DEF Pin
<1>2. pins' = PinnedMore(pins, e.start)
  BY <1>1 DEF PinnedMore
<1>3. UNCHANGED <<table, gauge, chunk, panic>>
  BY DEF Pin
<1>. QED
  BY <1>2, <1>3, AimedAt

LEMMA UnpinDoes ==
  ASSUME IInv, NEW v \in Addr, Unpin(v)
  PROVE  \E b \in Around(chunk, v) :
            \/ FindPin(pins, b) = {} /\ Panic("unpin of unpinned object")
            \/ \E i \in FindPin(pins, b) :
                  pins' = PinnedLess(pins, i) /\ UNCHANGED <<table, gauge, chunk, panic>>
<1>1. PICK e \in FindContainingAny(table, v) :
         \/ /\ FindPin(pins, e.start) = {}
            /\ Panic("unpin of unpinned object")
         \/ \E i \in FindPin(pins, e.start) :
               /\ pins' = IF pins[i].count > 1
                          THEN [pins EXCEPT ![i].count = @ - 1]
                          ELSE Front([pins EXCEPT ![i] = pins[Len(pins)]])
               /\ UNCHANGED <<table, gauge, chunk, panic>>
  BY DEF Unpin
<1>2. CASE FindPin(pins, e.start) = {} /\ Panic("unpin of unpinned object")
  BY <1>2, AimedAt
<1>3. CASE \E i \in FindPin(pins, e.start) :
              /\ pins' = IF pins[i].count > 1
                         THEN [pins EXCEPT ![i].count = @ - 1]
                         ELSE Front([pins EXCEPT ![i] = pins[Len(pins)]])
              /\ UNCHANGED <<table, gauge, chunk, panic>>
  <2>1. PICK i \in FindPin(pins, e.start) :
           /\ pins' = IF pins[i].count > 1
                      THEN [pins EXCEPT ![i].count = @ - 1]
                      ELSE Front([pins EXCEPT ![i] = pins[Len(pins)]])
           /\ UNCHANGED <<table, gauge, chunk, panic>>
    BY <1>3
  <2>2. pins' = PinnedLess(pins, i)
    BY <2>1 DEF PinnedLess
  <2>. QED
    BY <2>1, <2>2, AimedAt
<1>. QED
  BY <1>1, <1>2, <1>3

(***************************************************************************)
(* The theorems.                                                           *)
(***************************************************************************)
LEMMA InitInvariant == Init => IInv
<1> SUFFICES ASSUME Init PROVE IInv
  OBVIOUS
<1>1. /\ table = [blocks |-> <<>>, dead |-> 0, pending |-> <<>>, index |-> NoIndex]
      /\ pins = <<>> /\ gauge = [since |-> 0, threshold |-> Floor, live |-> 0]
      /\ chunk = [a \in Addr |-> NoChunk]
  BY DEF Init
<1>2. NoChunk \in Chunk /\ NoChunk.owner = "none"
  BY DEF NoChunk, Chunk
<1>3. HeapOK(chunk) /\ Starts(chunk, "gc") = {}
  BY <1>1, <1>2 DEF HeapOK, Starts
<1>4. <<>> \in Seq(Entries) /\ DOMAIN <<>> = {} /\ <<>> \in Seq(PinEntry)
  OBVIOUS
<1>5. IndexOK(NoIndex, <<>>)
  <2> DEFINE ix == NoIndex
  <2>1. DOMAIN ix = {"cap", "used", "slot"} /\ ix.cap = 0 /\ ix.used = 0 /\ ix.slot = <<>>
    BY DEF NoIndex
  <2>. HIDE DEF ix
  <2>2. Slots(ix) = {} /\ Filled(ix) = {}
    BY <2>1 DEF Slots, Filled
  <2>3. ix.slot \in [{} -> [key : Nat, at : Nat]]
    BY <2>1
  <2>4. ix.used = Cardinality(Filled(ix))
    BY <2>1, <2>2, FS_EmptySet
  <2>5. IsIndex(ix)
    BY <2>1, <2>2, <2>3, <2>4 DEF IsIndex
  <2>6. Leads(ix, <<>>, DOMAIN <<>>)
    BY <1>4, <2>2 DEF Leads
  <2>. QED
    BY <2>1, <2>5, <2>6 DEF IndexOK, ix
<1>6. Tells(table, chunk)
  <2> DEFINE t == table
  <2>1. /\ DOMAIN t = {"blocks", "dead", "pending", "index"} /\ t.blocks = <<>>
        /\ t.dead = 0 /\ t.pending = <<>> /\ t.index = NoIndex
    BY <1>1
  <2>. HIDE DEF t
  <2>2. IsTable(t)
    BY <1>4, <2>1 DEF IsTable
  <2> DEFINE q == t.blocks
  <2>3. q = t.pending /\ DOMAIN q = {} /\ q = t.blocks
    BY <1>4, <2>1
  <2>. HIDE DEF q
  <2>4. Ascending(q) /\ OneEach(q) /\ DeadAt(q) = {} /\ {q[i] : i \in DOMAIN q} = {}
        /\ {q[i] : i \in DOMAIN q \ DeadAt(q)} = {}
    BY <2>3 DEF Ascending, OneEach, DeadAt
  <2>5. t.dead = Cardinality(DeadAt(t.blocks))
    BY <2>1, <2>3, <2>4, FS_EmptySet
  <2>6. TableOK(t)
    BY <1>5, <2>1, <2>2, <2>3, <2>4, <2>5 DEF TableOK
  <2>7. Live(t) = {} /\ Waiting(t) = {}
    BY <2>3, <2>4 DEF Live, Waiting
  <2>8. Registry(chunk) = {}
    BY <1>3 DEF Registry
  <2>. QED
    BY <1>3, <2>6, <2>7, <2>8 DEF Tells, Told, t
<1>7. PinsOK(pins, chunk)
  BY <1>1, <1>4 DEF PinsOK, PinEntry, OneEach
<1>8. GaugeOK(gauge, chunk)
  <2> DEFINE g == gauge
  <2>1. Total(chunk) = 0
    <3>1. Weighed(chunk, {})
      BY DEF Weighed
    <3>2. Weight(chunk, {}) = 0
      BY <3>1, FS_EmptySet, WeightFacts
    <3>. QED
      BY <1>3, <3>2 DEF Total, Weight
  <2>2. /\ g \in [since : Nat, threshold : Nat, live : Nat]
        /\ g.since = 0 /\ g.threshold = Floor /\ g.live = 0
    BY <1>1, PressureAssumption
  <2>. HIDE DEF g
  <2>3. g.since < g.threshold /\ 0 <= g.live + g.since
    BY <2>2, PressureAssumption
  <2>. QED
    BY <2>1, <2>2, <2>3 DEF GaugeOK, g
<1>. QED
  BY <1>3, <1>6, <1>7, <1>8 DEF IInv, Tells

\* The blocks, the pins and the gauge are unmoved by what happens aside.
LEMMA AsideTells ==
  ASSUME IInv, NEW dh, Aside(dh, chunk)
  PROVE  Tells(table, dh) /\ HeapOK(dh) /\ PinsOK(pins, dh) /\ GaugeOK(gauge, dh)
<1>1. Tells(table, chunk) /\ HeapOK(chunk) /\ PinsOK(pins, chunk) /\ GaugeOK(gauge, chunk)
  BY DEF IInv, Tells
<1>2. /\ HeapOK(dh) /\ Starts(dh, "gc") = Starts(chunk, "gc")
      /\ \A a \in Starts(chunk, "gc") : dh[a] = chunk[a]
  BY DEF Aside
<1>3. Tells(table, dh) /\ Total(dh) = Total(chunk)
  BY <1>1, <1>2, TellsStill
<1>4. PinsOK(pins, dh)
  BY <1>1, <1>2, PinsStill
<1>5. GaugeOK(gauge, dh)
  BY <1>1, <1>3 DEF GaugeOK
<1>. QED
  BY <1>2, <1>3, <1>4, <1>5

LEMMA AsideKeeps ==
  ASSUME IInv, Aside(chunk', chunk), UNCHANGED <<table, pins, gauge>>
  PROVE  IInv'
  BY AsideTells DEF IInv, Tells

\* What turf_rt_realloc of a chunk of mem::alloc does: the table has no entry of
\* it, so it is as if the chunk had been freed and a new block registered.
LEMMA AdoptFacts ==
  ASSUME IInv, NEW old \in Starts(chunk, "manual"), NEW p \in Addr,
         NEW n \in Sizes \ {0}, Realloc(old, p, n),
         NEW dh, dh = [chunk EXCEPT ![old] = NoChunk, ![p] = [owner |-> "gc", size |-> n]]
  PROVE  Becomes(dh, old, p, n)
<1> DEFINE ch == [chunk EXCEPT ![old] = NoChunk]
<1>1. /\ Tells(table, chunk) /\ HeapOK(chunk) /\ PinsOK(pins, chunk)
      /\ n \in Nat /\ old \in Addr /\ chunk \in [Addr -> Chunk]
      /\ old \notin Starts(chunk, "gc")
      /\ pins' = PinsMoved(pins, old, p) /\ CanPlace(chunk, p, n, {old})
      /\ NoteAlloc(Reregistered(table, old, p, n), dh, pins', p, n)
  BY SizesAssumption DEF IInv, Tells, Realloc, PinsMoved, HeapOK, Starts
<1>2. Aside(ch, chunk)
  BY <1>1, FreedAside
<1>3. dh = [ch EXCEPT ![p] = [owner |-> "gc", size |-> n]]
  OBVIOUS
<1>4. CanPlace(ch, p, n, {})
  <2>1. /\ \A b \in Addr \ {old} : ch[b] = chunk[b]
        /\ ch[old] = NoChunk
    BY <1>1
  <2>. HIDE DEF ch
  <2>2. Starts(ch, "none") = Starts(chunk, "none") \cup {old}
    BY <1>1, <2>1 DEF Starts, NoChunk
  <2>. QED
    BY <1>1, <2>1, <2>2 DEF CanPlace
<1>. HIDE DEF ch
<1>5. Tells(table, ch) /\ HeapOK(ch) /\ PinsOK(pins, ch) /\ GaugeOK(gauge, ch)
      /\ Starts(ch, "gc") = Starts(chunk, "gc")
  BY <1>2, AsideTells DEF Aside
<1>6. Reregistered(table, old, p, n) = Registered(table, p, n)
  <2>1. FindExactInPending(table, old) = {} /\ FindExactInBlocks(table, old) = {}
    BY <1>1, TellsExact
  <2>2. (CHOOSE u \in {table} : TRUE) = table
    OBVIOUS
  <2>. QED
    BY <2>1, <2>2 DEF Reregistered
<1>7. pins' = pins
  <2>1. /\ pins \in Seq([start : Addr, count : Nat \ {0}])
        /\ \A i \in DOMAIN pins : pins[i].start \in Starts(chunk, "gc")
    BY <1>1, PinFacts DEF PinsOK
  <2>2. \A i \in DOMAIN pins : i \notin FindPin(pins, old)
    BY <1>1, <2>1 DEF FindPin
  <2>3. PinsMoved(pins, old, p) = [i \in DOMAIN pins |-> pins[i]]
    BY <2>2 DEF PinsMoved
  <2>. QED
    BY <1>1, <2>1, <2>3
<1>8. /\ Tells(table', chunk') /\ GaugeOK(gauge', chunk') /\ PinsOK(pins', chunk')
      /\ HeapOK(dh) /\ PinsOK(pins, dh) /\ Grown(dh, ch, {}, p, n)
      /\ Collected(dh, chunk', pins, {p})
  <2>1. NoteAlloc(Registered(table, p, n), dh, pins, p, n)
    BY <1>1, <1>6, <1>7
  <2>. QED
    BY <1>1, <1>3, <1>4, <1>5, <1>7, <2>1, NewBlockFacts
<1>. QED
  BY <1>1, <1>5, <1>7, <1>8 DEF Grown, Becomes

\* What turf_rt_realloc does, whichever heap the chunk was of.
LEMMA ReallocDoes ==
  ASSUME IInv, NEW old \in Starts(chunk, "gc") \cup Starts(chunk, "manual"),
         NEW p \in Addr, NEW n \in Sizes \ {0}, Realloc(old, p, n),
         NEW dh, dh = [chunk EXCEPT ![old] = NoChunk, ![p] = [owner |-> "gc", size |-> n]]
  PROVE  Becomes(dh, old, p, n)
<1>1. CASE old \in Starts(chunk, "gc")
  BY <1>1, ReallocFacts
<1>2. CASE old \in Starts(chunk, "manual")
  BY <1>2, AdoptFacts
<1>. QED
  BY <1>1, <1>2

LEMMA StepInvariant == IInv /\ [Next]_vars => IInv'
<1> SUFFICES ASSUME IInv, [Next]_vars PROVE IInv'
  OBVIOUS
<1>0. HeapOK(chunk) /\ PinsOK(pins, chunk)
  BY DEF IInv
<1>1. ASSUME NEW p \in Addr, NEW n \in Sizes, Alloc(p, n) PROVE IInv'
  <2> DEFINE dh == [chunk EXCEPT ![p] = [owner |-> "gc", size |-> n]]
  <2>. HIDE DEF dh
  <2>1. Tells(table', chunk') /\ GaugeOK(gauge', chunk') /\ PinsOK(pins', chunk')
    BY <1>1, AllocFacts DEF dh
  <2>. QED
    BY <2>1 DEF IInv, Tells
<1>2. ASSUME NEW old \in Starts(chunk, "gc") \cup Starts(chunk, "manual"),
             NEW p \in Addr, NEW n \in Sizes \ {0}, Realloc(old, p, n)
      PROVE  IInv'
  <2>1. Tells(table', chunk') /\ GaugeOK(gauge', chunk') /\ PinsOK(pins', chunk')
    BY <1>2, ReallocDoes DEF Becomes
  <2>. QED
    BY <2>1 DEF IInv, Tells
<1>3. CASE Collect
  BY <1>3, CollectDoes DEF IInv, Tells
<1>4. ASSUME NEW p \in Addr, NEW n \in ManualSizes, ManualAlloc(p, n) PROVE IInv'
  <2>1. Aside(chunk', chunk) /\ UNCHANGED <<table, pins, gauge>>
    BY <1>4, ManualAllocAside DEF ManualAlloc
  <2>. QED
    BY <2>1, AsideKeeps
<1>5. ASSUME NEW a \in Starts(chunk, "gc") \cup Starts(chunk, "manual"), CheckedFree(a)
      PROVE  IInv'
  <2>1. CASE Panic("cross-heap free")
    BY <2>1 DEF Panic, IInv
  <2>2. CASE Aside(chunk', chunk) /\ UNCHANGED <<table, pins, gauge, panic>>
    BY <2>2, AsideKeeps
  <2>. QED
    BY <1>5, <2>1, <2>2, CheckedFreeDoes
<1>6. ASSUME NEW v \in Addr, Pin(v) PROVE IInv'
  <2>1. PICK b \in Addr :
           /\ chunk[b].owner = "gc" /\ chunk[b].size # 0
           /\ pins' = PinnedMore(pins, b) /\ UNCHANGED <<table, gauge, chunk, panic>>
    BY <1>6, PinDoes
  <2>2. PinsOK(pins', chunk)
    BY <1>0, <2>1, PinnedMoreOK
  <2>. QED
    BY <2>1, <2>2 DEF IInv
<1>7. ASSUME NEW v \in Addr, Unpin(v) PROVE IInv'
  <2>1. PICK b : \/ Panic("unpin of unpinned object")
                 \/ \E i \in FindPin(pins, b) :
                       pins' = PinnedLess(pins, i) /\ UNCHANGED <<table, gauge, chunk, panic>>
    BY <1>7, UnpinDoes
  <2>2. CASE Panic("unpin of unpinned object")
    BY <2>2 DEF Panic, IInv
  <2>3. CASE \E i \in FindPin(pins, b) :
                pins' = PinnedLess(pins, i) /\ UNCHANGED <<table, gauge, chunk, panic>>
    <3>1. PICK i \in DOMAIN pins :
             pins' = PinnedLess(pins, i) /\ UNCHANGED <<table, gauge, chunk, panic>>
      BY <2>3 DEF FindPin
    <3>2. PinsOK(pins', chunk)
      BY <1>0, <3>1, PinnedLessOK
    <3>. QED
      BY <3>1, <3>2 DEF IInv
  <2>. QED
    BY <2>1, <2>2, <2>3
<1>8. CASE UNCHANGED vars
  BY <1>8 DEF vars, IInv
<1>. QED
  BY <1>1, <1>2, <1>3, <1>4, <1>5, <1>6, <1>7, <1>8 DEF Next

\* The table, the pins and the pressure stay as they should, whatever is asked of
\* the runtime.
THEOREM Invariance == Spec => []IInv
  BY InitInvariant, StepInvariant, PTL DEF Spec

\* What the runs check of the table follows from the invariant.
LEMMA ShapeHolds == IInv => TableShape
<1> SUFFICES ASSUME IInv PROVE TableShape
  OBVIOUS
<1> DEFINE t == table
           ix == t.index
           pd == t.pending
<1>. HIDE DEF t
<1>1. Tells(t, chunk) /\ TableOK(t)
  BY DEF IInv, Tells, t
<1>2. /\ t.blocks \in Seq(Entries) /\ Ascending(t.blocks)
      /\ t.dead = Cardinality(DeadAt(t.blocks)) /\ OneEach(pd) /\ IndexOK(ix, pd)
      /\ \A i \in DOMAIN pd : pd[i].start \in Addr
  BY <1>1, TableFacts
<1>3. \A i, j \in DOMAIN t.blocks : i < j => t.blocks[i].start < t.blocks[j].start
  BY <1>2, AscendingFacts
<1>4. t.dead = Cardinality({i \in DOMAIN t.blocks : t.blocks[i].dead})
  BY <1>2 DEF DeadAt
<1>5. ASSUME ix.cap > 0
      PROVE  /\ \A i \in DOMAIN pd : FindExactInPending(t, pd[i].start) = {i}
             /\ \A s \in DOMAIN ix.slot :
                   \/ ix.slot[s].key \in {Empty, Deleted}
                   \/ \E i \in DOMAIN pd : pd[i].start = ix.slot[s].key
             /\ \E s \in DOMAIN ix.slot : ix.slot[s].key = Empty
             /\ ix.used = Cardinality({s \in DOMAIN ix.slot : ix.slot[s].key # Empty})
  <2>1. /\ IsIndex(ix) /\ Leads(ix, pd, DOMAIN pd) /\ DOMAIN ix.slot = Slots(ix)
        /\ ix.used = Cardinality(Filled(ix))
    BY <1>2 DEF IndexOK, IsIndex
  <2>2. ix.used < ix.cap
    BY <1>2, <1>5 DEF IndexOK
  <2>3. ASSUME NEW i \in DOMAIN pd PROVE FindExactInPending(t, pd[i].start) = {i}
    <3> DEFINE a == pd[i].start
    <3>1. a \in Addr
      BY <1>2
    <3>2. \A j \in DOMAIN pd : pd[j].start = a <=> j = i
      BY <1>2 DEF OneEach
    <3>. HIDE DEF a
    <3>3. FindExactInPending(t, a) = {j \in DOMAIN pd : pd[j].start = a}
      BY <1>1, <3>1, TellsExact
    <3>. QED
      BY <3>2, <3>3 DEF a
  <2>4. \A s \in Slots(ix) :
           \/ ix.slot[s].key \in {Empty, Deleted}
           \/ \E i \in DOMAIN pd : pd[i].start = ix.slot[s].key
    BY <2>1 DEF Leads
  <2>5. \E s \in Slots(ix) : ix.slot[s].key = Empty
    BY <2>1, <2>2, EmptySlot
  <2>6. ix.used = Cardinality({s \in Slots(ix) : ix.slot[s].key # Empty})
    BY <2>1 DEF Filled
  <2>. QED
    BY <2>1, <2>3, <2>4, <2>5, <2>6
<1>. QED
  BY <1>3, <1>4, <1>5 DEF TableShape, t

LEMMA TruthHolds == IInv => TableIsTruth
<1> SUFFICES ASSUME IInv, NEW a \in Addr
             PROVE  /\ IsRegistered(table, a) <=> a \in Starts(chunk, "gc")
                    /\ {e.start : e \in FindContainingAny(table, a)} = Around(chunk, a)
                    /\ StringCapacity(table, a) =
                          IF a \in Starts(chunk, "gc") THEN chunk[a].size
                          ELSE LET b == CHOOSE c \in Around(chunk, a) : TRUE
                               IN  IF Around(chunk, a) = {} THEN -1
                                   ELSE b + chunk[b].size - a
  BY DEF TableIsTruth
<1>1. Tells(table, chunk)
  BY DEF IInv, Tells
<1>2. IsRegistered(table, a) <=> a \in Starts(chunk, "gc")
  BY <1>1, TellsExact DEF IsRegistered
<1>3. {e.start : e \in FindContainingAny(table, a)} = Around(chunk, a)
  BY <1>1, TellsInside
<1>. QED
  BY <1>1, <1>2, <1>3, TellsCapacity

\* g_blocks stays sorted with no start twice, its dead entries are counted, and
\* g_pidx leads every pending start to its index, leads to nothing else, and always
\* has an empty slot for a probe to end at: TableShape, for every hash function and
\* every load.
THEOREM TableShapeAlways == Spec => []TableShape
  BY Invariance, ShapeHolds, PTL

\* turf_rt_is_gc_pointer, the lookup behind the pins and turf_rt_string_capacity
\* answer with the truth at every address, whatever moved where since the last
\* collection: TableIsTruth.
THEOREM TableIsTruthAlways == Spec => []TableIsTruth
  BY Invariance, TruthHolds, PTL

\* The heap is never larger than what survived the last collection and what the
\* threshold let through since: HeapIsBounded.
THEOREM HeapIsBoundedAlways == Spec => []HeapIsBounded
<1>1. IInv => HeapIsBounded
  BY DEF IInv, GaugeOK, HeapIsBounded
<1>. QED
  BY <1>1, Invariance, PTL

(***************************************************************************)
(* The table, the pins and the collection implement the block map.         *)
(***************************************************************************)
Counts(pn) == [a \in Addr |-> CountIn(pn, a)]

LEMMA CountIs ==
  /\ [a \in Addr |-> PinCount(a)] = Counts(pins)
  /\ [a \in Addr |-> PinCount(a)]' = Counts(pins')
BY DEF PinCount, FindPin, CountIn, Counts

\* The block map speaks of libc's heap in the words this module uses.
LEMMA SameWords ==
  ASSUME NEW ch
  PROVE  /\ \A who : Promise!Starts(ch, who) = Starts(ch, who)
         /\ \A v : Promise!Around(ch, v) = Around(ch, v)
         /\ \A p, n, Gone : Promise!CanPlace(ch, p, n, Gone) <=> CanPlace(ch, p, n, Gone)
         /\ \A G : Promise!Without(ch, G) = Without(ch, G)
         /\ \A ct : Promise!Unpinned(ch, ct) = {a \in Starts(ch, "gc") : ct[a] = 0}
         /\ Promise!NoChunk = NoChunk
BY DEF Promise!Starts, Starts, Promise!Around, Around, Promise!CanPlace, CanPlace,
       Promise!Span, Span, Promise!Without, Without, Promise!Unpinned,
       Promise!NoChunk, NoChunk

\* A collection takes no block that is pinned, or that a word it saw points into.
LEMMA TakesUnpinned ==
  ASSUME NEW ch, HeapOK(ch), NEW pn, PinsOK(pn, ch), NEW held, NEW dh,
         Collected(ch, dh, pn, held)
  PROVE  \E G \in SUBSET {a \in Starts(ch, "gc") : Counts(pn)[a] = 0} :
            dh = Without(ch, G) /\ \A v \in held : Around(ch, v) \cap G = {}
<1>1. PICK G \in SUBSET Starts(ch, "gc") :
         /\ dh = Without(ch, G)
         /\ \A v \in held \cup {pn[i].start : i \in DOMAIN pn} : Around(ch, v) \cap G = {}
  BY DEF Collected
<1>2. ASSUME NEW a \in G PROVE Counts(pn)[a] = 0
  <2>1. \A i \in DOMAIN pn : pn[i].start \in Around(ch, pn[i].start)
    BY PinFacts
  <2>2. \A i \in DOMAIN pn : pn[i].start # a
    BY <1>1, <1>2, <2>1
  <2>3. OneEach(pn) /\ a \in Addr
    BY PinFacts DEF Starts
  <2>4. CountIn(pn, a) = 0
    BY <2>2, <2>3, CountFacts
  <2>. QED
    BY <2>3, <2>4 DEF Counts
<1>. QED
  BY <1>1, <1>2

LEMMA AllocImplements ==
  ASSUME IInv, NEW p \in Addr, NEW n \in Sizes, Alloc(p, n)
  PROVE  Promise!Allocate
<1> DEFINE dh == [chunk EXCEPT ![p] = [owner |-> "gc", size |-> n]]
           U == {a \in Starts(dh, "gc") : Counts(pins)[a] = 0}
<1>1. /\ HeapOK(dh) /\ PinsOK(pins, dh) /\ Collected(dh, chunk', pins, {p})
      /\ dh[p].size = n /\ dh[p].owner = "gc"
  <2>. HIDE DEF dh
  <2>1. /\ HeapOK(dh) /\ PinsOK(pins, dh) /\ Collected(dh, chunk', pins, {p})
        /\ Grown(dh, chunk, {}, p, n)
    BY AllocFacts DEF dh
  <2>. QED
    BY <2>1 DEF Grown
<1>2. CanPlace(chunk, p, n, {}) /\ UNCHANGED <<pins, panic>> /\ n \in Nat
  BY SizesAssumption DEF Alloc
<1>3. PICK G \in SUBSET U : chunk' = Without(dh, G) /\ Around(dh, p) \cap G = {}
  <2>. HIDE DEF dh
  <2>. QED
    BY <1>1, TakesUnpinned
<1>4. ASSUME n > 0 PROVE p \notin G
  <2>. HIDE DEF dh
  <2>1. p \in Nat /\ p \in Starts(dh, "gc")
    BY <1>1, ChunkFacts
  <2>2. p <= p /\ p < p + dh[p].size
    BY <1>1, <1>2, <1>4, <2>1
  <2>3. p \in Around(dh, p)
    BY <2>1, <2>2 DEF Around
  <2>. QED
    BY <1>3, <2>3
<1>5. Promise!CanPlace(chunk, p, n, {})
  BY <1>2, SameWords
<1>6. G \in SUBSET Promise!Unpinned(dh, [a \in Addr |-> PinCount(a)])
      /\ chunk' = Promise!Without(dh, G)
  <2>. HIDE DEF dh
  <2>1. [a \in Addr |-> PinCount(a)] = Counts(pins)
    BY CountIs
  <2>. QED
    BY <1>3, <2>1, SameWords
<1>7. UNCHANGED <<[a \in Addr |-> PinCount(a)], panic>>
  BY <1>2, CountIs
<1>. QED
  BY <1>4, <1>5, <1>6, <1>7 DEF Promise!Allocate

LEMMA CollectImplements ==
  ASSUME IInv, Collect
  PROVE  Promise!Collect
<1>1. /\ HeapOK(chunk) /\ PinsOK(pins, chunk) /\ Collected(chunk, chunk', pins, {})
      /\ UNCHANGED <<pins, panic>>
  BY CollectDoes DEF IInv, Collect
<1>2. PICK G \in SUBSET {a \in Starts(chunk, "gc") : Counts(pins)[a] = 0} :
         chunk' = Without(chunk, G)
  BY <1>1, TakesUnpinned
<1>3. [a \in Addr |-> PinCount(a)] = Counts(pins)
  BY CountIs
<1>4. G \in SUBSET Promise!Unpinned(chunk, [a \in Addr |-> PinCount(a)])
      /\ chunk' = Promise!Without(chunk, G)
  BY <1>2, <1>3, SameWords
<1>5. UNCHANGED <<[a \in Addr |-> PinCount(a)], panic>>
  BY <1>1, CountIs
<1>. QED
  BY <1>4, <1>5 DEF Promise!Collect

LEMMA ManualAllocImplements ==
  ASSUME IInv, NEW p \in Addr, NEW n \in ManualSizes, ManualAlloc(p, n)
  PROVE  Promise!ManualAlloc
<1>1. /\ CanPlace(chunk, p, n, {}) /\ UNCHANGED <<pins, panic>>
      /\ chunk' = [chunk EXCEPT ![p] = [owner |-> "manual", size |-> n]]
  BY DEF ManualAlloc
<1>2. Promise!CanPlace(chunk, p, n, {})
  BY <1>1, SameWords
<1>3. UNCHANGED <<[a \in Addr |-> PinCount(a)], panic>>
  BY <1>1, CountIs
<1>. QED
  BY <1>1, <1>2, <1>3 DEF Promise!ManualAlloc

LEMMA CheckedFreeImplements ==
  ASSUME IInv, NEW a \in Starts(chunk, "gc") \cup Starts(chunk, "manual"), CheckedFree(a)
  PROVE  Promise!CheckedFree
<1>1. CASE a \in Starts(chunk, "gc") /\ Panic("cross-heap free")
  <2>1. panic' = "cross-heap free" /\ UNCHANGED <<chunk, pins>>
    BY <1>1 DEF Panic
  <2>2. UNCHANGED [b \in Addr |-> PinCount(b)]
    BY <2>1, CountIs
  <2>3. Promise!Panic("cross-heap free")
    BY <2>1, <2>2 DEF Promise!Panic
  <2>4. Promise!Starts(chunk, "gc") # {}
    BY <1>1, SameWords
  <2>. QED
    BY <2>3, <2>4 DEF Promise!CheckedFree
<1>2. CASE /\ a \in Starts(chunk, "manual") /\ chunk' = [chunk EXCEPT ![a] = NoChunk]
           /\ UNCHANGED <<table, pins, gauge, panic>>
  <2>1. UNCHANGED <<[b \in Addr |-> PinCount(b)], panic>>
    BY <1>2, CountIs
  <2>2. a \in Promise!Starts(chunk, "manual") /\ chunk' = [chunk EXCEPT ![a] = Promise!NoChunk]
    BY <1>2, SameWords
  <2>. QED
    BY <2>1, <2>2 DEF Promise!CheckedFree
<1>. QED
  BY <1>1, <1>2, CheckedFreeDoes

\* The moved block takes its count along, and leaves none behind.
LEMMA CountsMoved ==
  ASSUME NEW pn, NEW ch, HeapOK(ch), PinsOK(pn, ch), NEW old \in Addr,
         NEW p \in Addr, p \notin Starts(ch, "gc") \ {old},
         NEW qn, qn = PinsMoved(pn, old, p), NEW dh, PinsOK(qn, dh)
  PROVE  Counts(qn) = [Counts(pn) EXCEPT ![old] = 0, ![p] = Counts(pn)[old]]
<1>1. /\ OneEach(pn) /\ OneEach(qn) /\ old \in Addr
      /\ \A i \in DOMAIN pn : pn[i].start \in Starts(ch, "gc")
  BY PinFacts DEF PinsOK, Starts
<1>2. /\ DOMAIN qn = DOMAIN pn
      /\ \A i \in DOMAIN pn :
            /\ qn[i].count = pn[i].count
            /\ qn[i].start = IF pn[i].start = old THEN p ELSE pn[i].start
  BY PinsMovedFacts
<1>3. CountIn(qn, p) = CountIn(pn, old)
  <2>1. CASE \E i \in DOMAIN pn : pn[i].start = old
    <3>1. PICK i \in DOMAIN pn : pn[i].start = old
      BY <2>1
    <3>2. qn[i].start = p /\ qn[i].count = pn[i].count /\ i \in DOMAIN qn
      BY <1>2, <3>1
    <3>. QED
      BY <1>1, <3>1, <3>2, CountFacts
  <2>2. CASE \A i \in DOMAIN pn : pn[i].start # old
    <3>1. \A i \in DOMAIN qn : qn[i].start # p
      BY <1>1, <1>2, <2>2
    <3>. QED
      BY <1>1, <2>2, <3>1, CountFacts
  <2>. QED
    BY <2>1, <2>2
<1>4. ASSUME old # p PROVE CountIn(qn, old) = 0
  BY <1>1, <1>2, <1>4, CountFacts
<1>5. ASSUME NEW a \in Addr, a # p, a # old PROVE CountIn(qn, a) = CountIn(pn, a)
  <2>1. \A i \in DOMAIN pn : qn[i].start = a <=> pn[i].start = a
    BY <1>2, <1>5
  <2>2. CASE \E i \in DOMAIN pn : pn[i].start = a
    <3>1. PICK i \in DOMAIN pn : pn[i].start = a
      BY <2>2
    <3>. QED
      BY <1>1, <1>2, <2>1, <3>1, CountFacts
  <2>3. CASE \A i \in DOMAIN pn : pn[i].start # a
    BY <1>1, <1>2, <2>1, <2>3, CountFacts
  <2>. QED
    BY <2>2, <2>3
<1> DEFINE f == Counts(qn)
           g == [Counts(pn) EXCEPT ![old] = 0, ![p] = Counts(pn)[old]]
<1>6. f = [a \in Addr |-> CountIn(qn, a)]
      /\ g = [a \in Addr |-> IF a = p THEN CountIn(pn, old)
                            ELSE IF a = old THEN 0 ELSE CountIn(pn, a)]
  BY <1>1 DEF Counts
<1>7. \A a \in Addr : CountIn(qn, a) = IF a = p THEN CountIn(pn, old)
                                       ELSE IF a = old THEN 0 ELSE CountIn(pn, a)
  BY <1>3, <1>4, <1>5
<1>. HIDE DEF f, g
<1>8. f = g
  BY <1>6, <1>7
<1>. QED
  BY <1>8 DEF f, g

LEMMA ReallocImplements ==
  ASSUME IInv, NEW old \in Starts(chunk, "gc") \cup Starts(chunk, "manual"), NEW p \in Addr, NEW n \in Sizes \ {0},
         Realloc(old, p, n)
  PROVE  Promise!Reallocate
<1> DEFINE dh == [chunk EXCEPT ![old] = NoChunk, ![p] = [owner |-> "gc", size |-> n]]
           U == {a \in Starts(dh, "gc") : Counts(pins')[a] = 0}
<1>0. HeapOK(chunk) /\ PinsOK(pins, chunk)
  BY DEF IInv
<1>1. /\ HeapOK(dh) /\ PinsOK(pins', dh) /\ Collected(dh, chunk', pins', {p})
      /\ dh[p].size = n /\ dh[p].owner = "gc" /\ p \notin Starts(chunk, "gc") \ {old}
      /\ pins' = PinsMoved(pins, old, p)
  <2>. HIDE DEF dh
  <2>1. Becomes(dh, old, p, n)
    BY ReallocDoes DEF dh
  <2>. QED
    BY <2>1 DEF Becomes
<1>2. CanPlace(chunk, p, n, {old}) /\ UNCHANGED panic /\ n \in Nat \ {0}
      /\ old \in Addr
  BY SizesAssumption DEF Realloc, Starts
<1>3. PICK G \in SUBSET U : chunk' = Without(dh, G) /\ Around(dh, p) \cap G = {}
  <2>. HIDE DEF dh
  <2>. QED
    BY <1>1, TakesUnpinned
<1>4. p \notin G
  <2>. HIDE DEF dh
  <2>1. p \in Nat /\ p \in Starts(dh, "gc")
    BY <1>1, ChunkFacts
  <2>2. p <= p /\ p < p + dh[p].size
    BY <1>1, <1>2, <2>1
  <2>3. p \in Around(dh, p)
    BY <2>1, <2>2 DEF Around
  <2>. QED
    BY <1>3, <2>3
<1>5. /\ Promise!CanPlace(chunk, p, n, {old})
      /\ old \in Promise!Starts(chunk, "gc") \cup Promise!Starts(chunk, "manual")
  BY <1>2, SameWords
<1>6. G \in SUBSET Promise!Unpinned(dh, [a \in Addr |-> PinCount(a)]')
      /\ chunk' = Promise!Without(dh, G)
  <2>. HIDE DEF dh
  <2>1. [a \in Addr |-> PinCount(a)]' = Counts(pins')
    BY CountIs
  <2> DEFINE ct == [a \in Addr |-> PinCount(a)]'
  <2>2. Promise!Unpinned(dh, ct) = {a \in Starts(dh, "gc") : ct[a] = 0}
    <3>. HIDE DEF ct
    <3>. QED
      BY SameWords
  <2>. QED
    BY <1>3, <2>1, <2>2, SameWords
<1>7. [a \in Addr |-> PinCount(a)]' =
         [[a \in Addr |-> PinCount(a)] EXCEPT ![old] = 0,
                                              ![p] = [a \in Addr |-> PinCount(a)][old]]
  <2>1. Counts(pins') = [Counts(pins) EXCEPT ![old] = 0, ![p] = Counts(pins)[old]]
    <3>. HIDE DEF dh
    <3>. QED
      BY <1>0, <1>1, <1>2, CountsMoved
  <2>. QED
    BY <2>1, CountIs
<1>8. dh = [chunk EXCEPT ![old] = Promise!NoChunk, ![p] = [owner |-> "gc", size |-> n]]
  BY SameWords
<1>. QED
  BY <1>2, <1>4, <1>5, <1>6, <1>7, <1>8 DEF Promise!Reallocate

LEMMA RecountIs ==
  ASSUME NEW pn, NEW qn, NEW b \in Addr, NEW c, Recount(qn, pn, b, c)
  PROVE  Counts(qn) = [Counts(pn) EXCEPT ![b] = c] /\ Counts(pn)[b] = CountIn(pn, b)
BY DEF Recount, Counts

LEMMA PinImplements ==
  ASSUME IInv, NEW v \in Addr, Pin(v)
  PROVE  Promise!Pin
<1>1. PICK b \in Around(chunk, v) :
         /\ b \in Addr /\ chunk[b].owner = "gc" /\ chunk[b].size # 0
         /\ pins' = PinnedMore(pins, b) /\ UNCHANGED <<table, gauge, chunk, panic>>
  BY PinDoes
<1>2. HeapOK(chunk) /\ PinsOK(pins, chunk)
  BY DEF IInv
<1>3. Recount(pins', pins, b, CountIn(pins, b) + 1)
  BY <1>1, <1>2, PinnedMoreOK
<1>4. Counts(pins') = [Counts(pins) EXCEPT ![b] = Counts(pins)[b] + 1]
  <2> DEFINE c == CountIn(pins, b) + 1
  <2>. HIDE DEF c
  <2>1. Recount(pins', pins, b, c)
    BY <1>3 DEF c
  <2>2. Counts(pins') = [Counts(pins) EXCEPT ![b] = c] /\ Counts(pins)[b] = CountIn(pins, b)
    <3>1. b \in Addr
      BY <1>1
    <3>. QED
      BY <2>1, <3>1, RecountIs
  <2>. QED
    BY <2>2 DEF c
<1>5. [a \in Addr |-> PinCount(a)]' = [[a \in Addr |-> PinCount(a)] EXCEPT ![b] = @ + 1]
  BY <1>4, CountIs
<1>6. b \in Promise!Around(chunk, v)
  BY <1>1, SameWords
<1>. QED
  BY <1>1, <1>5, <1>6 DEF Promise!Pin

LEMMA UnpinImplements ==
  ASSUME IInv, NEW v \in Addr, Unpin(v)
  PROVE  Promise!Unpin
<1>1. PICK b \in Around(chunk, v) :
         \/ FindPin(pins, b) = {} /\ Panic("unpin of unpinned object")
         \/ \E i \in FindPin(pins, b) :
               pins' = PinnedLess(pins, i) /\ UNCHANGED <<table, gauge, chunk, panic>>
  BY UnpinDoes
<1>2. HeapOK(chunk) /\ PinsOK(pins, chunk) /\ b \in Addr /\ b \in Promise!Around(chunk, v)
  BY <1>1, SameWords DEF IInv, Around, Starts
<1>3. [a \in Addr |-> PinCount(a)] = Counts(pins)
      /\ [a \in Addr |-> PinCount(a)]' = Counts(pins')
      /\ Counts(pins)[b] = CountIn(pins, b)
  BY <1>2, CountIs DEF Counts
<1>4. CASE FindPin(pins, b) = {} /\ Panic("unpin of unpinned object")
  <2>1. panic' = "unpin of unpinned object" /\ UNCHANGED <<chunk, pins>>
    BY <1>4 DEF Panic
  <2>2. [a \in Addr |-> PinCount(a)][b] = 0
    BY <1>3, <1>4 DEF CountIn
  <2>3. UNCHANGED [a \in Addr |-> PinCount(a)]
    BY <1>3, <2>1
  <2>4. Promise!Panic("unpin of unpinned object")
    BY <2>1, <2>3 DEF Promise!Panic
  <2>. QED
    BY <1>2, <2>2, <2>4 DEF Promise!Unpin
<1>5. CASE \E i \in FindPin(pins, b) :
              pins' = PinnedLess(pins, i) /\ UNCHANGED <<table, gauge, chunk, panic>>
  <2>1. PICK i \in DOMAIN pins :
           /\ pins[i].start = b /\ pins' = PinnedLess(pins, i)
           /\ UNCHANGED <<table, gauge, chunk, panic>>
    BY <1>5 DEF FindPin
  <2>2. CountIn(pins, b) \in Nat \ {0} /\ Recount(pins', pins, b, CountIn(pins, b) - 1)
    BY <1>2, <2>1, PinnedLessOK
  <2>3. Counts(pins') = [Counts(pins) EXCEPT ![b] = Counts(pins)[b] - 1]
    <3> DEFINE c == CountIn(pins, b) - 1
    <3>. HIDE DEF c
    <3>1. Recount(pins', pins, b, c)
      BY <2>2 DEF c
    <3>2. Counts(pins') = [Counts(pins) EXCEPT ![b] = c] /\ Counts(pins)[b] = CountIn(pins, b)
      BY <1>2, <3>1, RecountIs
    <3>. QED
      BY <3>2 DEF c
  <2>4. [a \in Addr |-> PinCount(a)][b] > 0
    BY <1>3, <2>2
  <2>5. [a \in Addr |-> PinCount(a)]' = [[a \in Addr |-> PinCount(a)] EXCEPT ![b] = @ - 1]
    BY <1>3, <2>3
  <2>. QED
    BY <1>2, <2>1, <2>4, <2>5 DEF Promise!Unpin
<1>. QED
  BY <1>1, <1>4, <1>5

LEMMA InitImplements == Init => Promise!Init
<1> SUFFICES ASSUME Init PROVE Promise!Init
  OBVIOUS
<1>1. chunk = [a \in Addr |-> NoChunk] /\ pins = <<>> /\ panic = "none"
  BY DEF Init
<1>2. [a \in Addr |-> PinCount(a)] = [a \in Addr |-> 0]
  BY <1>1 DEF PinCount, FindPin
<1>. QED
  BY <1>1, <1>2 DEF Promise!Init, Promise!NoChunk, NoChunk

LEMMA StepImplements == IInv /\ [Next]_vars => [Promise!Next]_(Promise!blockVars)
<1> SUFFICES ASSUME IInv, [Next]_vars PROVE Promise!Next \/ UNCHANGED Promise!blockVars
  OBVIOUS
<1>1. CASE UNCHANGED vars
  <2>1. UNCHANGED <<chunk, pins, panic>>
    BY <1>1 DEF vars
  <2>2. UNCHANGED [a \in Addr |-> PinCount(a)]
    BY <2>1, CountIs
  <2>. QED
    BY <2>1, <2>2 DEF Promise!blockVars
<1>2. CASE Next
  <2>1. panic = "none"
    BY <1>2 DEF Next
  <2>2. \/ Promise!Allocate \/ Promise!Reallocate \/ Promise!Collect
        \/ Promise!ManualAlloc \/ Promise!CheckedFree \/ Promise!Pin \/ Promise!Unpin
    BY <1>2, AllocImplements, ReallocImplements, CollectImplements, ManualAllocImplements,
       CheckedFreeImplements, PinImplements, UnpinImplements DEF Next
  <2>. QED
    BY <2>1, <2>2 DEF Promise!Next
<1>. QED
  BY <1>1, <1>2

\* The table, the pin list and the collection implement the block map the headers
\* promise: no pinned block is ever taken, a pin moves with its block, and a
\* cross-heap free or an unpin too many is always caught.  KeepsBlockMap.
THEOREM KeepsBlockMapAlways == Spec => KeepsBlockMap
  BY Invariance, InitImplements, StepImplements, PTL DEF Spec, KeepsBlockMap, Promise!Spec

=============================================================================
