------------------------ MODULE TurfSequences_proofs ------------------------
(***************************************************************************)
(* What TLAPS proves of TurfSequences: for any elements, ranking, first    *)
(* capacity, number of collections and bound on their lengths, the buffer  *)
(* behaves as the plain sequence of PlainSequence.                         *)
(***************************************************************************)
EXTENDS TurfSequences, SequenceTheorems, WellFoundedInduction, TLAPS

\* A set of naturals that is not empty has a least element.
LEMMA Least ==
  ASSUME NEW T \in SUBSET Nat, T # {}
  PROVE  \E x \in T : \A y \in T : x <= y
<1> DEFINE R == OpToRel(<, Nat)
<1>1. IsWellFoundedOn(R, Nat)
  BY NatLessThanWellFounded
<1>2. \A x, y \in Nat : y < x => <<y, x>> \in R
  BY DEF OpToRel
<1>. HIDE DEF R
<1>3. \E x \in T : \A y \in T : ~(<<y, x>> \in R)
  BY <1>1, WFMin
<1>4. PICK x \in T : \A y \in T : ~(<<y, x>> \in R)
  BY <1>3
<1>5. ASSUME NEW y \in T PROVE x <= y
  <2>1. x \in Nat /\ y \in Nat
    OBVIOUS
  <2>2. ~(y < x)
    BY <1>2, <1>4, <2>1
  <2>. QED
    BY <2>1, <2>2
<1>. QED
  BY <1>5

\* Induction over the naturals, for a set.
LEMMA Upwards ==
  ASSUME NEW T \in SUBSET Nat, 0 \in T, \A n \in T : n + 1 \in T
  PROVE  \A n \in Nat : n \in T
<1> SUFFICES ASSUME Nat \ T # {} PROVE FALSE
  OBVIOUS
<1>1. PICK x \in Nat \ T : \A y \in Nat \ T : x <= y
  BY Least
<1>2. x # 0 /\ x - 1 \in Nat
  BY <1>1
<1>3. x - 1 \in T
  BY <1>1, <1>2
<1>. QED
  BY <1>1, <1>2, <1>3

\* A function on 0 .. n that begins with base and goes on by step.
Iterates(f, n, S, base, step) ==
    /\ f \in [0 .. n -> S]
    /\ f[0] = base /\ \A i \in 1 .. n : f[i] = step[i][f[i - 1]]

LEMMA Iteration ==
  ASSUME NEW n \in Nat, NEW S, NEW base \in S, NEW step \in [1 .. n -> [S -> S]]
  PROVE  \E f : Iterates(f, n, S, base, step)
<1> DEFINE Good(m, f) == /\ f \in [0 .. m -> S] /\ f[0] = base
                         /\ \A i \in 1 .. m : f[i] = step[i][f[i - 1]]
           T == {m \in Nat : m <= n => \E f \in [0 .. m -> S] : Good(m, f)}
<1>1. 0 \in T
  <2> DEFINE f == [i \in 0 .. 0 |-> base]
  <2>1. f \in [0 .. 0 -> S] /\ f[0] = base
    OBVIOUS
  <2>2. Good(0, f)
    BY <2>1
  <2>. HIDE DEF f
  <2>. QED
    BY <2>1, <2>2
<1>2. ASSUME NEW m \in T PROVE m + 1 \in T
  <2> SUFFICES ASSUME m + 1 <= n PROVE \E f \in [0 .. m + 1 -> S] : Good(m + 1, f)
    OBVIOUS
  <2>1. PICK g \in [0 .. m -> S] : Good(m, g)
    OBVIOUS
  <2> DEFINE x == step[m + 1][g[m]]
             f == [i \in 0 .. m + 1 |-> IF i = m + 1 THEN x ELSE g[i]]
  <2>2. m \in 0 .. m /\ m + 1 \in 1 .. n
    OBVIOUS
  <2>3. x \in S
    BY <2>2
  <2>. HIDE DEF x
  <2>4. f \in [0 .. m + 1 -> S] /\ f[m + 1] = x /\ \A i \in 0 .. m : f[i] = g[i]
    BY <2>3
  <2>. HIDE DEF f
  <2>5. f[0] = base
    BY <2>1, <2>4
  <2>6. ASSUME NEW i \in 1 .. m + 1 PROVE f[i] = step[i][f[i - 1]]
    <3>1. CASE i = m + 1
      BY <3>1, <2>2, <2>4 DEF x
    <3>2. CASE i # m + 1
      <4>1. i \in 1 .. m /\ i \in 0 .. m /\ i - 1 \in 0 .. m
        BY <3>2
      <4>. QED
        BY <4>1, <2>1, <2>4
    <3>. QED
      BY <3>1, <3>2
  <2>. QED
    BY <2>4, <2>5, <2>6
<1>3. n \in T
  <2>. HIDE DEF T
  <2>1. T \in SUBSET Nat
    BY DEF T
  <2>. QED
    BY <1>1, <1>2, <2>1, Upwards
<1>4. PICK f \in [0 .. n -> S] : Good(n, f)
  BY <1>3
<1>. QED
  BY <1>4 DEF Iterates

\* What holds at the beginning and from each place to the next holds to the end.
LEMMA Along ==
  ASSUME NEW n \in Nat, NEW T \in SUBSET Nat, 0 \in T,
         \A i \in 1 .. n : i - 1 \in T => i \in T
  PROVE  \A i \in 0 .. n : i \in T
<1> DEFINE U == {i \in Nat : i <= n => i \in T}
<1>1. 0 \in U
  OBVIOUS
<1>2. ASSUME NEW i \in U PROVE i + 1 \in U
  <2> SUFFICES ASSUME i + 1 <= n PROVE i + 1 \in T
    OBVIOUS
  <2>1. i + 1 \in 1 .. n /\ (i + 1) - 1 = i /\ i \in T
    OBVIOUS
  <2>. QED
    BY <2>1
<1>3. U \in SUBSET Nat
  OBVIOUS
<1>. HIDE DEF U
<1>4. \A i \in Nat : i \in U
  BY <1>1, <1>2, <1>3, Upwards
<1>. QED
  BY <1>4 DEF U

(***************************************************************************)
(* Capacities: 0, and what doubling makes of it.                           *)
(***************************************************************************)
DoublingSets == {S \in SUBSET Nat : 0 \in S /\ \A c \in S : Doubled(c) \in S}
Caps == {c \in Nat : \A S \in DoublingSets : c \in S}

\* Doubling takes a capacity to a greater one.
LEMMA DoubledType ==
  ASSUME NEW c \in Nat PROVE Doubled(c) \in Nat /\ Doubled(c) > c
BY FirstAssumption DEF Doubled

\* The capacities are the least set of naturals that doubling keeps.
LEMMA CapsFacts ==
  /\ Caps \in SUBSET Nat /\ 0 \in Caps
  /\ \A c \in Caps : Doubled(c) \in Caps
  /\ \A S \in DoublingSets : Caps \subseteq S
BY DoubledType DEF Caps, DoublingSets

\* The least capacity after 0 is the first.
LEMMA CapsFromFirst == \A c \in Caps : c = 0 \/ c >= First
<1> DEFINE S == {c \in Nat : c = 0 \/ c >= First}
<1>1. S \in DoublingSets
  <2>1. S \in SUBSET Nat /\ 0 \in S
    OBVIOUS
  <2>2. ASSUME NEW c \in S PROVE Doubled(c) \in S
    BY FirstAssumption DEF Doubled
  <2>. QED
    BY <2>1, <2>2 DEF DoublingSets
<1>. QED
  BY <1>1, CapsFacts

\* Between a capacity and its double there is none.
LEMMA CapsApart ==
  \A c, d \in Caps : d <= c \/ Doubled(c) <= d
<1> DEFINE S == {c \in Caps : \A d \in Caps : d <= c \/ Doubled(c) <= d}
<1>1. Caps \in SUBSET Nat /\ 0 \in Caps /\ First \in Nat \ {0}
      /\ \A c \in Caps : Doubled(c) \in Caps
  BY CapsFacts, FirstAssumption
<1>2. 0 \in S
  BY <1>1, CapsFromFirst DEF Doubled
<1>3. ASSUME NEW c \in S PROVE Doubled(c) \in S
  <2> DEFINE cc == Doubled(c)
             T == {d \in Caps : d <= cc \/ Doubled(cc) <= d}
  <2>1. c \in Nat /\ cc \in Caps /\ cc \in Nat /\ cc > c
    BY <1>1, DoubledType
  <2>. HIDE DEF cc
  <2>2. 0 \in T
    BY <1>1, <2>1
  <2>3. ASSUME NEW d \in T PROVE Doubled(d) \in T
    <3>1. d \in Caps /\ d \in Nat /\ Doubled(d) \in Caps /\ Doubled(d) \in Nat
      BY <1>1
    <3>2. CASE d <= c
      <4>1. CASE d = 0 /\ c # 0
        <5>1. Doubled(d) = First /\ c >= First
          BY <1>1, <2>1, <4>1, CapsFromFirst DEF Doubled
        <5>. QED
          BY <2>1, <3>1, <5>1, <1>1
      <4>2. CASE d # 0 \/ c = 0
        <5>1. Doubled(d) <= cc
          BY <1>1, <2>1, <3>1, <3>2, <4>2 DEF Doubled, cc
        <5>. QED
          BY <3>1, <5>1
      <4>. QED
        BY <4>1, <4>2
    <3>3. CASE d > c
      <4>1. cc <= d
        BY <2>1, <3>1, <3>3 DEF cc
      <4>2. CASE d = cc
        BY <3>1, <4>2
      <4>3. CASE d # cc
        <5>1. Doubled(cc) <= d /\ d < Doubled(d) /\ Doubled(cc) \in Nat
          BY <2>1, <3>1, <4>1, <4>3, DoubledType
        <5>. QED
          BY <3>1, <5>1
      <4>. QED
        BY <4>2, <4>3
    <3>. QED
      BY <2>1, <3>1, <3>2, <3>3
  <2>4. T \in DoublingSets
    BY <1>1, <2>2, <2>3 DEF DoublingSets
  <2>5. Caps \subseteq T
    BY <2>4, CapsFacts
  <2>. QED
    BY <2>1, <2>5 DEF cc
<1>4. S \in DoublingSets
  BY <1>1, <1>2, <1>3 DEF DoublingSets
<1>. QED
  BY <1>4, CapsFacts

(***************************************************************************)
(* Headers.                                                                *)
(***************************************************************************)
Header == [data : Seq(Elem), len : Nat, cap : Caps, head : Nat]

\* The live elements are in cells that were written, and those in the buffer.
Fits(h) == h.head + h.len <= Len(h.data) /\ Len(h.data) <= h.cap

ItemsOf(h) == SubSeq(h.data, h.head + 1, h.head + h.len)

\* The fields of a header.
LEMMA HeaderType ==
  ASSUME NEW h \in Header
  PROVE  /\ h.data \in Seq(Elem) /\ Len(h.data) \in Nat
         /\ h.len \in Nat /\ h.head \in Nat /\ h.cap \in Caps /\ h.cap \in Nat
         /\ Doubled(h.cap) \in Caps /\ Doubled(h.cap) \in Nat /\ Doubled(h.cap) > h.cap
<1>1. h.data \in Seq(Elem) /\ h.len \in Nat /\ h.head \in Nat /\ h.cap \in Caps
  BY DEF Header
<1>2. h.cap \in Nat /\ Doubled(h.cap) \in Caps
  BY <1>1, CapsFacts
<1>3. Len(h.data) \in Nat
  BY <1>1
<1>. QED
  BY <1>1, <1>2, <1>3, DoubledType

\* A segment of a sequence.
LEMMA Cells ==
  ASSUME NEW d \in Seq(Elem), NEW hd \in Nat, NEW n \in Nat, hd + n <= Len(d)
  PROVE  /\ SubSeq(d, hd + 1, hd + n) \in Seq(Elem)
         /\ Len(SubSeq(d, hd + 1, hd + n)) = n
         /\ \A i \in 1 .. n : SubSeq(d, hd + 1, hd + n)[i] = d[hd + i]
<1>1. \A i \in hd + 1 .. hd + n : d[i] \in Elem
  OBVIOUS
<1>2. (hd + n) - (hd + 1) + 1 = n /\ hd + 1 \in Int /\ hd + n \in Int
      /\ \A i \in 1 .. n : (hd + 1) + i - 1 = hd + i
  OBVIOUS
<1> DEFINE s == SubSeq(d, hd + 1, hd + n)
<1>3. /\ s \in Seq(Elem)
      /\ Len(s) = IF hd + 1 <= hd + n THEN (hd + n) - (hd + 1) + 1 ELSE 0
      /\ \A i \in 1 .. (hd + n) - (hd + 1) + 1 : s[i] = d[(hd + 1) + i - 1]
  BY <1>1, <1>2, SubSeqProperties
<1>. HIDE DEF s
<1>4. Len(s) = n
  BY <1>3
<1>5. \A i \in 1 .. n : s[i] = d[hd + i]
  BY <1>2, <1>3
<1>. QED
  BY <1>3, <1>4, <1>5 DEF s

\* The live elements are the cells from head on.
LEMMA ItemsFacts ==
  ASSUME NEW h \in Header, Fits(h)
  PROVE  /\ ItemsOf(h) \in Seq(Elem)
         /\ Len(ItemsOf(h)) = h.len
         /\ \A i \in 1 .. h.len : ItemsOf(h)[i] = h.data[h.head + i]
BY HeaderType, Cells DEF ItemsOf, Fits

\* A write of a cell already written, or of the next one.
LEMMA WrittenFacts ==
  ASSUME NEW d \in Seq(Elem), NEW i \in Nat, i <= Len(d), NEW x \in Elem
  PROVE  /\ Written(d, i, x) \in Seq(Elem)
         /\ Len(Written(d, i, x)) = IF i = Len(d) THEN i + 1 ELSE Len(d)
         /\ Written(d, i, x)[i + 1] = x
         /\ \A k \in 1 .. Len(d) : k # i + 1 => Written(d, i, x)[k] = d[k]
<1>1. CASE i = Len(d)
  BY <1>1 DEF Written
<1>2. CASE i # Len(d)
  BY <1>2 DEF Written
<1>. QED
  BY <1>1, <1>2

\* An element put after the n live ones, the first of them at hd.
LEMMA Appended ==
  ASSUME NEW d \in Seq(Elem), NEW hd \in Nat, NEW n \in Nat, hd + n <= Len(d),
         NEW x \in Elem
  PROVE  SubSeq(Written(d, hd + n, x), hd + 1, hd + (n + 1))
         = Append(SubSeq(d, hd + 1, hd + n), x)
<1> DEFINE e == Written(d, hd + n, x)
           s == SubSeq(d, hd + 1, hd + n)
           t == SubSeq(e, hd + 1, hd + (n + 1))
           a == Append(s, x)
<1>1. /\ e \in Seq(Elem)
      /\ Len(e) = IF hd + n = Len(d) THEN hd + n + 1 ELSE Len(d)
      /\ e[hd + n + 1] = x
      /\ \A k \in 1 .. Len(d) : k # hd + n + 1 => e[k] = d[k]
  BY WrittenFacts, hd + n \in Nat
<1>2. s \in Seq(Elem) /\ Len(s) = n /\ \A i \in 1 .. n : s[i] = d[hd + i]
  BY Cells
<1>. HIDE DEF e, s
<1>3. n + 1 \in Nat /\ hd + (n + 1) <= Len(e) /\ hd + (n + 1) = hd + n + 1
  BY <1>1
<1>4. t \in Seq(Elem) /\ Len(t) = n + 1 /\ \A i \in 1 .. n + 1 : t[i] = e[hd + i]
  BY <1>1, <1>3, Cells
<1>5. /\ a \in Seq(Elem) /\ Len(a) = n + 1 /\ a[n + 1] = x
      /\ \A i \in 1 .. n : a[i] = s[i]
  BY <1>2
<1>. HIDE DEF t, a
<1>6. ASSUME NEW i \in 1 .. n PROVE t[i] = a[i]
  <2>1. hd + i \in 1 .. Len(d) /\ hd + i # hd + n + 1 /\ i \in 1 .. n + 1
    OBVIOUS
  <2>2. e[hd + i] = d[hd + i]
    BY <1>1, <2>1
  <2>. QED
    BY <2>1, <2>2, <1>2, <1>4, <1>5
<1>7. t[n + 1] = a[n + 1]
  <2>1. n + 1 \in 1 .. n + 1
    OBVIOUS
  <2>. QED
    BY <2>1, <1>1, <1>3, <1>4, <1>5
<1>8. \A i \in 1 .. n + 1 : i \in 1 .. n \/ i = n + 1
  OBVIOUS
<1>9. \A i \in 1 .. Len(t) : t[i] = a[i]
  BY <1>4, <1>6, <1>7, <1>8
<1>10. t = a
  BY <1>4, <1>5, <1>9, SeqEqual
<1>. QED
  BY <1>10 DEF t, a, e, s

\* What a header h becomes when x is put at its end, in Push and in Enqueue.
Grown(h, x, cap) == [data |-> Written(h.data, h.head + h.len, x), len |-> h.len + 1,
                     cap |-> cap, head |-> h.head]

\* If there is room, the header it becomes is sound and holds x last.
LEMMA GrownFacts ==
  ASSUME NEW h \in Header, Fits(h), NEW x \in Elem, NEW c \in Caps,
         h.cap <= c, h.head + h.len < c
  PROVE  /\ Grown(h, x, c) \in Header /\ Fits(Grown(h, x, c))
         /\ ItemsOf(Grown(h, x, c)) = Append(ItemsOf(h), x)
<1> DEFINE d == h.data
           hd == h.head
           n == h.len
           e == Written(d, hd + n, x)
<1>1. /\ d \in Seq(Elem) /\ Len(d) \in Nat /\ hd \in Nat /\ n \in Nat /\ hd + n \in Nat
      /\ h.cap \in Nat /\ c \in Nat
  BY HeaderType, CapsFacts
<1>2. hd + n <= Len(d) /\ Len(d) <= h.cap
  BY DEF Fits
<1>3. e \in Seq(Elem) /\ Len(e) = IF hd + n = Len(d) THEN hd + n + 1 ELSE Len(d)
  <2>. HIDE DEF d, hd, n
  <2>. QED
    BY <1>1, <1>2, WrittenFacts DEF e
<1>4. SubSeq(e, hd + 1, hd + (n + 1)) = Append(SubSeq(d, hd + 1, hd + n), x)
  BY <1>1, <1>2, Appended
<1>5. hd + (n + 1) <= Len(e) /\ Len(e) <= c
  BY <1>1, <1>2, <1>3
<1>6. Grown(h, x, c) = [data |-> e, len |-> n + 1, cap |-> c, head |-> hd]
  BY DEF Grown
<1>7. Grown(h, x, c) \in Header
  <2>. HIDE DEF e, d, hd, n
  <2>1. n + 1 \in Nat
    BY <1>1
  <2>. QED
    BY <1>1, <1>3, <1>6, <2>1 DEF Header
<1>8. Fits(Grown(h, x, c)) /\ ItemsOf(Grown(h, x, c)) = Append(ItemsOf(h), x)
  <2>. HIDE DEF e, d, hd, n
  <2>1. Fits(Grown(h, x, c))
    BY <1>5, <1>6 DEF Fits
  <2>2. ItemsOf(Grown(h, x, c)) = SubSeq(e, hd + 1, hd + (n + 1))
    <3>1. /\ Grown(h, x, c).data = e /\ Grown(h, x, c).head = hd
          /\ Grown(h, x, c).len = n + 1
      BY <1>6
    <3>. QED
      BY <3>1, Zenon DEF ItemsOf
  <2>3. ItemsOf(h) = SubSeq(d, hd + 1, hd + n)
    BY DEF ItemsOf, d, hd, n
  <2>. QED
    BY <1>4, <2>1, <2>2, <2>3
<1>. QED
  BY <1>7, <1>8

\* List.push and Stack.push: the capacity doubles only where it is reached.
LEMMA PushIsGrown ==
  ASSUME NEW h \in Header, Fits(h), h.head = 0, NEW x \in Elem
  PROVE  \E c \in Caps :
            /\ Push(h, x) = Grown(h, x, c)
            /\ h.cap <= c /\ h.head + h.len < c
            /\ c # h.cap => c = Doubled(h.cap) /\ h.len = h.cap
<1> DEFINE c == IF h.len = h.cap THEN Doubled(h.cap) ELSE h.cap
<1>1. Push(h, x) = [h EXCEPT !.cap = c, !.data = Written(h.data, h.len, x),
                             !.len = h.len + 1]
  BY DEF Push
<1>2. h.head + h.len = h.len /\ h.len <= h.cap
  BY HeaderType DEF Fits
<1>3. c \in Caps /\ h.cap <= c /\ h.head + h.len < c
  BY <1>2, HeaderType
<1>4. c # h.cap => c = Doubled(h.cap) /\ h.len = h.cap
  OBVIOUS
<1>. HIDE DEF c
<1>5. Push(h, x) = Grown(h, x, c)
  BY <1>1, <1>2 DEF Grown, Header
<1>. QED
  BY <1>3, <1>4, <1>5

(***************************************************************************)
(* The operations.  A function that a LET defines by recursion is one that *)
(* Iteration gives.                                                        *)
(***************************************************************************)
\* Moving the live elements to the front, one by one from the first, overwrites
\* none before it has moved.
LEMMA AtFrontFacts ==
  ASSUME NEW h \in Header, Fits(h), h.head > 0
  PROVE  /\ AtFront(h) \in Header /\ Fits(AtFront(h))
         /\ AtFront(h).head = 0 /\ AtFront(h).len = h.len /\ AtFront(h).cap = h.cap
         /\ ItemsOf(AtFront(h)) = ItemsOf(h)
<1> DEFINE d == h.data
           hd == h.head
           n == h.len
           L == Len(d)
           S == {s \in Seq(Elem) : Len(s) = L}
           R(f) == f = [i \in 0 .. h.len |->
                           IF i = 0 THEN h.data
                           ELSE [f[i - 1] EXCEPT ![i] = f[i - 1][h.head + i]]]
           move == [i \in 1 .. n |-> [s \in S |-> [s EXCEPT ![i] = s[hd + i]]]]
<1>1. /\ d \in Seq(Elem) /\ L \in Nat /\ hd \in Nat /\ n \in Nat /\ hd > 0
      /\ h.cap \in Nat /\ h.cap \in Caps
  BY HeaderType
<1>2. hd + n <= L /\ L <= h.cap
  BY DEF Fits
<1>. HIDE DEF d, hd, n
<1>3. \A i \in 1 .. n : i \in 1 .. L /\ hd + i \in 1 .. L /\ hd + i > i
  BY <1>1, <1>2 DEF L
<1>4. ASSUME NEW i \in 1 .. n, NEW s \in S
      PROVE  /\ [s EXCEPT ![i] = s[hd + i]] \in S
             /\ [s EXCEPT ![i] = s[hd + i]][i] = s[hd + i]
             /\ \A k \in 1 .. L : k # i => [s EXCEPT ![i] = s[hd + i]][k] = s[k]
  BY <1>1, <1>3
<1>5. move \in [1 .. n -> [S -> S]]
  BY <1>4
<1>6. d \in S
  BY <1>1
<1>7. \E f : Iterates(f, n, S, d, move)
  <2>1. n \in Nat
    BY <1>1
  <2>. HIDE DEF S, move
  <2>. QED
    BY <2>1, <1>5, <1>6, Iteration
<1>8. ASSUME NEW f, Iterates(f, n, S, d, move) PROVE R(f)
  <2>1. f \in [0 .. n -> S] /\ f[0] = d /\ \A i \in 1 .. n : f[i] = move[i][f[i - 1]]
    BY <1>8 DEF Iterates
  <2>2. ASSUME NEW i \in 0 .. n, i # 0
        PROVE  f[i] = [f[i - 1] EXCEPT ![i] = f[i - 1][hd + i]]
    <3>1. i \in 1 .. n /\ i - 1 \in 0 .. n
      BY <1>1, <2>2
    <3>2. f[i - 1] \in S
      BY <2>1, <3>1
    <3>. QED
      BY <2>1, <3>1, <3>2
  <2>3. f = [i \in 0 .. n |-> IF i = 0 THEN d
                              ELSE [f[i - 1] EXCEPT ![i] = f[i - 1][hd + i]]]
    BY <2>1, <2>2
  <2>. QED
    BY <2>3 DEF d, hd, n
<1> DEFINE m == CHOOSE f : R(f)
<1>9. R(m)
  BY <1>7, <1>8
<1>10. AtFront(h) = [h EXCEPT !.data = m[h.len], !.head = 0]
  BY DEF AtFront
<1>11. m = [i \in 0 .. n |-> IF i = 0 THEN d
                             ELSE [m[i - 1] EXCEPT ![i] = m[i - 1][hd + i]]]
  <2>. HIDE DEF m
  <2>. QED
    BY <1>9 DEF d, hd, n
<1>. HIDE DEF m, R, move
<1> DEFINE Good(s, i) == /\ s \in S
                         /\ \A k \in 1 .. i : s[k] = d[hd + k]
                         /\ \A k \in i + 1 .. L : s[k] = d[k]
           T == {i \in 0 .. n : Good(m[i], i)}
<1>12. 0 \in T
  <2>1. m[0] = d
    BY <1>1, <1>11
  <2>. QED
    BY <1>1, <1>6, <2>1
<1>13. ASSUME NEW i \in 1 .. n, i - 1 \in T PROVE i \in T
  <2>1. i \in 0 .. n /\ i # 0 /\ i - 1 \in 0 .. n /\ i \in Nat
    BY <1>1
  <2> DEFINE s == m[i - 1]
             t == m[i]
  <2>2. t = [s EXCEPT ![i] = s[hd + i]]
    BY <1>11, <2>1
  <2>3. Good(s, i - 1)
    BY <1>13
  <2>. HIDE DEF s, t
  <2>4. t \in S /\ t[i] = s[hd + i] /\ \A k \in 1 .. L : k # i => t[k] = s[k]
    BY <1>4, <2>2, <2>3
  <2>5. s[hd + i] = d[hd + i]
    <3>1. hd + i \in (i - 1) + 1 .. L
      BY <1>1, <1>3, <2>1
    <3>. QED
      BY <2>3, <3>1
  <2>6. ASSUME NEW k \in 1 .. i PROVE t[k] = d[hd + k]
    <3>1. CASE k = i
      BY <2>4, <2>5, <3>1
    <3>2. CASE k # i
      <4>1. k \in 1 .. i - 1 /\ k \in 1 .. L
        BY <1>3, <2>1, <3>2, <1>1
      <4>. QED
        BY <2>3, <2>4, <3>2, <4>1
    <3>. QED
      BY <3>1, <3>2
  <2>7. ASSUME NEW k \in i + 1 .. L PROVE t[k] = d[k]
    <3>1. k \in 1 .. L /\ k # i /\ k \in (i - 1) + 1 .. L
      BY <2>1, <1>1
    <3>. QED
      BY <2>3, <2>4, <3>1
  <2>8. Good(t, i)
    BY <2>4, <2>6, <2>7
  <2>. QED
    BY <2>1, <2>8 DEF t
<1> DEFINE t == m[n]
<1>14. Good(t, n)
  <2>1. T \in SUBSET Nat
    BY <1>1
  <2>. HIDE DEF T
  <2>2. \A i \in 0 .. n : i \in T
    BY <1>1, <1>12, <1>13, <2>1, Along
  <2>3. n \in T
    BY <1>1, <2>2
  <2>. QED
    BY <2>3 DEF T
<1>15. AtFront(h) = [data |-> t, len |-> n, cap |-> h.cap, head |-> 0]
  BY <1>10 DEF Header, n
<1>. HIDE DEF t
<1>16. t \in Seq(Elem) /\ Len(t) = L /\ 0 + n <= Len(t)
  BY <1>1, <1>2, <1>14
<1>17. AtFront(h) \in Header /\ Fits(AtFront(h))
  BY <1>1, <1>2, <1>15, <1>16 DEF Header, Fits
<1>18. /\ AtFront(h).head = 0 /\ AtFront(h).len = n /\ AtFront(h).cap = h.cap
       /\ AtFront(h).data = t
  BY <1>15
<1>19. ItemsOf(AtFront(h)) = ItemsOf(h)
  <2>1. /\ ItemsOf(AtFront(h)) \in Seq(Elem) /\ Len(ItemsOf(AtFront(h))) = n
        /\ \A i \in 1 .. n : ItemsOf(AtFront(h))[i] = t[0 + i]
    BY <1>17, <1>18, ItemsFacts
  <2>2. /\ ItemsOf(h) \in Seq(Elem) /\ Len(ItemsOf(h)) = n
        /\ \A i \in 1 .. n : ItemsOf(h)[i] = d[hd + i]
    BY ItemsFacts DEF n, d, hd
  <2>3. \A i \in 1 .. n : 0 + i = i /\ t[i] = d[hd + i]
    BY <1>14
  <2>. QED
    BY <2>1, <2>2, <2>3, SeqEqual
<1>. QED
  BY <1>17, <1>18, <1>19 DEF n

\* Room for one more, which is then put at the end.
LEMMA EnqueueIsGrown ==
  ASSUME NEW h \in Header, Fits(h), NEW x \in Elem
  PROVE  \E g \in Header, c \in Caps :
            /\ Fits(g) /\ ItemsOf(g) = ItemsOf(h) /\ g.len = h.len /\ g.cap = h.cap
            /\ h.head = 0 => g = h
            /\ Enqueue(h, x) = Grown(g, x, c)
            /\ g.cap <= c /\ g.head + g.len < c
            /\ c # h.cap => c = Doubled(h.cap) /\ h.len = h.cap
<1> DEFINE r == WithRoom(h)
<1>1. Enqueue(h, x) = [r EXCEPT !.data = Written(r.data, r.head + r.len, x),
                                !.len = r.len + 1]
  BY DEF Enqueue
<1>2. h.head + h.len <= h.cap /\ (h.head # 0 => h.head > 0)
  BY HeaderType DEF Fits
<1>3. CASE h.head + h.len # h.cap
  <2>1. r = h
    BY <1>3 DEF WithRoom
  <2>2. Enqueue(h, x) = Grown(h, x, h.cap)
    BY <1>1, <2>1 DEF Grown, Header
  <2>. QED
    BY <1>2, <1>3, <2>2, HeaderType
<1>4. CASE h.head + h.len = h.cap /\ h.head > 0
  <2> DEFINE g == AtFront(h)
  <2>1. r = g
    BY <1>4 DEF WithRoom
  <2>2. /\ g \in Header /\ Fits(g)
        /\ g.head = 0 /\ g.len = h.len /\ g.cap = h.cap
        /\ ItemsOf(g) = ItemsOf(h)
    BY <1>4, AtFrontFacts
  <2>. HIDE DEF g, r
  <2>3. Enqueue(h, x) = Grown(g, x, h.cap)
    BY <1>1, <2>1, <2>2 DEF Grown, Header
  <2>4. g.head + g.len < h.cap /\ h.head # 0 /\ g.cap <= h.cap
    BY <1>4, <2>2, HeaderType
  <2>. QED
    BY <2>2, <2>3, <2>4, HeaderType
<1>5. CASE h.head + h.len = h.cap /\ h.head = 0
  <2> DEFINE c == Doubled(h.cap)
  <2>1. r = [h EXCEPT !.cap = c]
    BY <1>5, HeaderType DEF WithRoom
  <2>2. Enqueue(h, x) = Grown(h, x, c)
    BY <1>1, <2>1 DEF Grown, Header
  <2>3. h.cap <= c /\ h.head + h.len < c /\ c \in Caps /\ h.len = h.cap
    BY <1>5, HeaderType
  <2>. QED
    BY <2>2, <2>3
<1>. QED
  BY <1>2, <1>3, <1>4, <1>5

\* In a header that was filled and never taken from, no smaller capacity would do.
Tight(h) == \A c \in Caps : c < h.cap => c < h.len

Put(k, h, x) == IF k = "queue" THEN Enqueue(h, x) ELSE Push(h, x)

\* What push and enqueue leave of a header.
LEMMA PutFacts ==
  ASSUME NEW k, NEW h \in Header, Fits(h), k # "queue" => h.head = 0, NEW x \in Elem
  PROVE  /\ Put(k, h, x) \in Header /\ Fits(Put(k, h, x))
         /\ Put(k, h, x).len = h.len + 1
         /\ h.head = 0 => Put(k, h, x).head = 0
         /\ ItemsOf(Put(k, h, x)) = Append(ItemsOf(h), x)
         /\ Put(k, h, x).cap # h.cap =>
               Put(k, h, x).cap = Doubled(h.cap) /\ h.len = h.cap
         /\ Tight(h) => Tight(Put(k, h, x))
<1>1. \E g \in Header, c \in Caps :
         /\ Fits(g) /\ ItemsOf(g) = ItemsOf(h) /\ g.len = h.len /\ g.cap = h.cap
         /\ h.head = 0 => g = h
         /\ Put(k, h, x) = Grown(g, x, c)
         /\ g.cap <= c /\ g.head + g.len < c
         /\ c # h.cap => c = Doubled(h.cap) /\ h.len = h.cap
  <2>1. CASE k = "queue"
    BY <2>1, EnqueueIsGrown DEF Put
  <2>2. CASE k # "queue"
    BY <2>2, PushIsGrown DEF Put
  <2>. QED
    BY <2>1, <2>2
<1>2. PICK g \in Header, c \in Caps :
         /\ Fits(g) /\ ItemsOf(g) = ItemsOf(h) /\ g.len = h.len /\ g.cap = h.cap
         /\ h.head = 0 => g = h
         /\ Put(k, h, x) = Grown(g, x, c)
         /\ g.cap <= c /\ g.head + g.len < c
         /\ c # h.cap => c = Doubled(h.cap) /\ h.len = h.cap
  BY <1>1
<1> DEFINE r == Put(k, h, x)
<1>3. /\ r \in Header /\ Fits(r) /\ ItemsOf(r) = Append(ItemsOf(g), x)
      /\ r.len = g.len + 1 /\ r.cap = c /\ r.head = g.head
  <2>1. /\ Grown(g, x, c) \in Header /\ Fits(Grown(g, x, c))
        /\ ItemsOf(Grown(g, x, c)) = Append(ItemsOf(g), x)
    BY <1>2, GrownFacts
  <2>2. /\ Grown(g, x, c).len = g.len + 1 /\ Grown(g, x, c).cap = c
        /\ Grown(g, x, c).head = g.head
    BY DEF Grown
  <2>. QED
    BY <1>2, <2>1, <2>2
<1>. HIDE DEF r
<1>4. ASSUME Tight(h) PROVE Tight(r)
  <2> SUFFICES ASSUME NEW d \in Caps, d < r.cap PROVE d < r.len
    BY DEF Tight
  <2>1. d \in Nat /\ c \in Nat /\ h.cap \in Nat /\ h.len \in Nat /\ h.cap \in Caps
    BY CapsFacts, HeaderType
  <2>2. CASE c = h.cap
    <3>1. d < h.len
      BY <1>3, <1>4, <2>2 DEF Tight
    <3>. QED
      BY <1>2, <1>3, <2>1, <3>1
  <2>3. CASE c # h.cap
    <3>1. d <= h.cap
      BY <1>2, <1>3, <2>1, <2>3, CapsApart
    <3>. QED
      BY <1>2, <1>3, <2>1, <2>3, <3>1
  <2>. QED
    BY <2>2, <2>3
<1>5. h.head = 0 => r.head = 0
  BY <1>2, <1>3
<1>. QED
  BY <1>2, <1>3, <1>4, <1>5 DEF r

\* A new header.
LEMMA NewFacts ==
  New \in Header /\ Fits(New) /\ Tight(New) /\ New.len = 0 /\ New.head = 0 /\ New.cap = 0
<1>1. 0 \in Caps /\ Caps \in SUBSET Nat
  BY CapsFacts
<1>2. New \in Header
  BY <1>1 DEF New, Header
<1>3. Fits(New) /\ New.len = 0 /\ New.head = 0 /\ New.cap = 0
  BY DEF New, Fits
<1>4. Tight(New)
  BY <1>1, <1>3 DEF Tight
<1>. QED
  BY <1>2, <1>3, <1>4

\* A copy has the elements, and a capacity that filling it alone reaches.
LEMMA CopiedFacts ==
  ASSUME NEW k, NEW h \in Header, Fits(h)
  PROVE  /\ Copied(k, h) \in Header /\ Fits(Copied(k, h))
         /\ Copied(k, h).head = 0 /\ Copied(k, h).len = h.len
         /\ ItemsOf(Copied(k, h)) = ItemsOf(h) /\ Tight(Copied(k, h))
<1> DEFINE n == h.len
           x(i) == h.data[h.head + i]
           S == {g \in Header : Fits(g) /\ g.head = 0}
           R(f) == f = [i \in 0 .. h.len |->
                           IF i = 0 THEN New
                           ELSE IF k = "queue" THEN Enqueue(f[i - 1], h.data[h.head + i])
                                ELSE Push(f[i - 1], h.data[h.head + i])]
           put == [i \in 1 .. n |-> [g \in S |-> Put(k, g, x(i))]]
<1>1. n \in Nat
  BY HeaderType
<1>2. \A i \in 1 .. n : x(i) \in Elem
  BY HeaderType DEF Fits
<1>3. /\ ItemsOf(h) \in Seq(Elem) /\ Len(ItemsOf(h)) = n
      /\ \A i \in 1 .. n : ItemsOf(h)[i] = x(i)
  BY ItemsFacts
<1>. HIDE DEF x, n
<1>4. New \in S
  BY NewFacts
<1>5. ASSUME NEW i \in 1 .. n, NEW g \in S
      PROVE  /\ Put(k, g, x(i)) \in S
             /\ Put(k, g, x(i)).len = g.len + 1
             /\ ItemsOf(Put(k, g, x(i))) = Append(ItemsOf(g), x(i))
             /\ Tight(g) => Tight(Put(k, g, x(i)))
  <2>1. g \in Header /\ Fits(g) /\ g.head = 0 /\ x(i) \in Elem
    BY <1>2
  <2>. QED
    BY <2>1, PutFacts
<1>6. put \in [1 .. n -> [S -> S]]
  BY <1>5
<1>7. \E f : Iterates(f, n, S, New, put)
  <2>. HIDE DEF S, put
  <2>. QED
    BY <1>1, <1>4, <1>6, Iteration
<1>8. ASSUME NEW f, Iterates(f, n, S, New, put) PROVE R(f)
  <2>1. f \in [0 .. n -> S] /\ f[0] = New /\ \A i \in 1 .. n : f[i] = put[i][f[i - 1]]
    BY <1>8 DEF Iterates
  <2>2. ASSUME NEW i \in 0 .. n, i # 0
        PROVE  f[i] = Put(k, f[i - 1], x(i))
    <3>1. i \in 1 .. n /\ i - 1 \in 0 .. n
      BY <1>1, <2>2
    <3>2. f[i - 1] \in S
      BY <2>1, <3>1
    <3>. QED
      BY <2>1, <3>1, <3>2
  <2>3. f = [i \in 0 .. n |-> IF i = 0 THEN New ELSE Put(k, f[i - 1], x(i))]
    BY <2>1, <2>2
  <2>. QED
    BY <2>3 DEF Put, x, n
<1> DEFINE m == CHOOSE f : R(f)
<1>9. R(m)
  BY <1>7, <1>8
<1>10. Copied(k, h) = m[n]
  BY DEF Copied, n
<1>11. m = [i \in 0 .. n |-> IF i = 0 THEN New ELSE Put(k, m[i - 1], x(i))]
  <2>. HIDE DEF m
  <2>. QED
    BY <1>9 DEF Put, x, n
<1>. HIDE DEF m, R, put
<1> DEFINE Good(g, i) == /\ g \in S /\ g.len = i /\ Tight(g)
                         /\ \A j \in 1 .. i : ItemsOf(g)[j] = x(j)
           T == {i \in 0 .. n : Good(m[i], i)}
<1>12. 0 \in T
  <2>1. m[0] = New
    BY <1>1, <1>11
  <2>. QED
    BY <1>1, <1>4, <2>1, NewFacts
<1>13. ASSUME NEW i \in 1 .. n, i - 1 \in T PROVE i \in T
  <2>1. i \in 0 .. n /\ i # 0 /\ i - 1 \in 0 .. n /\ i - 1 \in Nat
    BY <1>1
  <2> DEFINE g == m[i - 1]
             r == m[i]
  <2>2. r = Put(k, g, x(i))
    BY <1>11, <2>1
  <2>3. Good(g, i - 1)
    BY <1>13
  <2>. HIDE DEF g, r
  <2>4. r \in S /\ r.len = (i - 1) + 1 /\ Tight(r) /\ ItemsOf(r) = Append(ItemsOf(g), x(i))
    BY <1>5, <2>2, <2>3
  <2>5. ItemsOf(g) \in Seq(Elem) /\ Len(ItemsOf(g)) = i - 1 /\ x(i) \in Elem
    BY <1>2, <2>3, ItemsFacts
  <2>6. ASSUME NEW j \in 1 .. i PROVE ItemsOf(r)[j] = x(j)
    <3>1. CASE j = i
      BY <2>1, <2>4, <2>5, <3>1
    <3>2. CASE j # i
      <4>1. j \in 1 .. i - 1
        BY <3>2
      <4>2. ItemsOf(g)[j] = x(j)
        BY <2>3, <4>1
      <4>. QED
        BY <2>4, <2>5, <4>1, <4>2
    <3>. QED
      BY <3>1, <3>2
  <2>7. Good(r, i)
    <3>1. (i - 1) + 1 = i
      OBVIOUS
    <3>2. r \in S /\ r.len = i /\ Tight(r)
      BY <2>4, <3>1
    <3>. QED
      BY <2>6, <3>2
  <2>. QED
    BY <2>1, <2>7 DEF r
<1> DEFINE g == m[n]
<1>14. Good(g, n)
  <2>1. T \in SUBSET Nat
    BY <1>1
  <2>. HIDE DEF T
  <2>2. \A i \in 0 .. n : i \in T
    BY <1>1, <1>12, <1>13, <2>1, Along
  <2>3. n \in T
    BY <1>1, <2>2
  <2>. QED
    BY <2>3 DEF T
<1>. HIDE DEF g
<1>15. ItemsOf(g) = ItemsOf(h)
  <2>1. ItemsOf(g) \in Seq(Elem) /\ Len(ItemsOf(g)) = n
    BY <1>14, ItemsFacts
  <2>. QED
    BY <1>3, <1>14, <2>1, SeqEqual
<1>. QED
  BY <1>10, <1>14, <1>15 DEF g, n

(***************************************************************************)
(* Sorting.  InsertedAt is what Sorted makes of the cells d with the       *)
(* element of position i.                                                  *)
(***************************************************************************)
InsertedAt(d, i) ==
    LET stop == {j \in 1 .. i - 1 : Rank[d[j]] <= Rank[d[i]]}
        j == IF stop = {} THEN 0
             ELSE CHOOSE m \in stop : \A n \in stop : n <= m
    IN  [k \in DOMAIN d |-> CASE k = j + 1 -> d[i]
                              [] k \in j + 2 .. i -> d[k - 1]
                              [] OTHER -> d[k]]

\* A bounded set of naturals that is not empty has a greatest element.
LEMMA Greatest ==
  ASSUME NEW b \in Nat, NEW T \in SUBSET (1 .. b), T # {}
  PROVE  \E x \in T : \A y \in T : y <= x
<1> DEFINE U == {u \in 0 .. b : b - u \in T}
<1>1. U \in SUBSET Nat /\ U # {}
  <2>1. PICK x \in T : TRUE
    OBVIOUS
  <2>2. b - x \in U
    <3>1. b - x \in 0 .. b /\ b - (b - x) = x
      OBVIOUS
    <3>. QED
      BY <3>1
  <2>3. U \in SUBSET Nat
    OBVIOUS
  <2>. HIDE DEF U
  <2>. QED
    BY <2>2, <2>3
<1>2. PICK u \in U : \A v \in U : u <= v
  <2>. HIDE DEF U
  <2>. QED
    BY <1>1, Least
<1>3. ASSUME NEW y \in T PROVE y <= b - u
  <2>1. b - y \in 0 .. b /\ b - (b - y) = y /\ u \in 0 .. b
    OBVIOUS
  <2>2. b - y \in U
    BY <2>1
  <2>3. u <= b - y
    BY <1>2, <2>2
  <2>. QED
    BY <2>1, <2>3
<1>. QED
  BY <1>3

\* The cells after one insertion, by the place j they make room after.
LEMMA InsertedFacts ==
  ASSUME NEW d \in Seq(Elem), NEW i \in 1 .. Len(d)
  PROVE  /\ InsertedAt(d, i) \in Seq(Elem) /\ Len(InsertedAt(d, i)) = Len(d)
         /\ \E j \in 0 .. i - 1 :
               /\ j > 0 => Rank[d[j]] <= Rank[d[i]]
               /\ \A k \in j + 1 .. i - 1 : Rank[d[k]] > Rank[d[i]]
               /\ InsertedAt(d, i)[j + 1] = d[i]
               /\ \A k \in j + 2 .. i : InsertedAt(d, i)[k] = d[k - 1]
               /\ \A k \in 1 .. Len(d) : k <= j \/ k > i => InsertedAt(d, i)[k] = d[k]
<1> DEFINE stop == {j \in 1 .. i - 1 : Rank[d[j]] <= Rank[d[i]]}
           j == IF stop = {} THEN 0
                ELSE CHOOSE m \in stop : \A n \in stop : n <= m
<1>1. j \in 0 .. i - 1 /\ (j > 0 => j \in stop) /\ \A n \in stop : n <= j
  <2>1. CASE stop = {}
    BY <2>1
  <2>2. CASE stop # {}
    <3>1. stop \in SUBSET (1 .. i - 1) /\ i - 1 \in Nat
      OBVIOUS
    <3>. HIDE DEF stop
    <3>2. \E m \in stop : \A n \in stop : n <= m
      BY <2>2, <3>1, Greatest
    <3>3. j = CHOOSE m \in stop : \A n \in stop : n <= m
      BY <2>2
    <3>4. j \in stop /\ \A n \in stop : n <= j
      BY <3>2, <3>3
    <3>5. j \in 1 .. i - 1
      BY <3>1, <3>4
    <3>. HIDE DEF j
    <3>. QED
      BY <3>4, <3>5
  <2>. QED
    BY <2>1, <2>2
<1>2. InsertedAt(d, i) = [k \in DOMAIN d |-> CASE k = j + 1 -> d[i]
                                              [] k \in j + 2 .. i -> d[k - 1]
                                              [] OTHER -> d[k]]
  BY DEF InsertedAt
<1>. HIDE DEF j
<1> DEFINE e == InsertedAt(d, i)
<1>3. j > 0 => Rank[d[j]] <= Rank[d[i]]
  BY <1>1
<1>4. ASSUME NEW k \in j + 1 .. i - 1 PROVE Rank[d[k]] > Rank[d[i]]
  <2>1. k \in 1 .. i - 1 /\ ~(k <= j)
    BY <1>1
  <2>2. ~(Rank[d[k]] <= Rank[d[i]])
    BY <1>1, <2>1
  <2>3. d[k] \in Elem /\ d[i] \in Elem
    BY <2>1
  <2>4. Rank[d[k]] \in Int /\ Rank[d[i]] \in Int
    BY <2>3, RankAssumption
  <2>. QED
    BY <2>2, <2>4
<1>. HIDE DEF stop
<1>5. /\ DOMAIN e = 1 .. Len(d)
      /\ \A k \in 1 .. Len(d) : e[k] = CASE k = j + 1 -> d[i]
                                         [] k \in j + 2 .. i -> d[k - 1]
                                         [] OTHER -> d[k]
  BY <1>2
<1>6. i \in Nat /\ Len(d) \in Nat /\ j \in Nat /\ j < i /\ i <= Len(d)
  BY <1>1
<1>7. e[j + 1] = d[i]
  BY <1>5, <1>6
<1>8. \A k \in j + 2 .. i : e[k] = d[k - 1]
  BY <1>5, <1>6
<1>9. \A k \in 1 .. Len(d) : k <= j \/ k > i => e[k] = d[k]
  BY <1>5, <1>6
<1>10. \A k \in 1 .. Len(d) : e[k] \in Elem
  <2> SUFFICES ASSUME NEW k \in 1 .. Len(d) PROVE e[k] \in Elem
    OBVIOUS
  <2>1. CASE k <= j \/ k > i
    BY <1>9, <2>1
  <2>2. CASE k = j + 1
    BY <1>7, <2>2
  <2>3. CASE k \in j + 2 .. i
    <3>1. k - 1 \in 1 .. Len(d)
      BY <1>6, <2>3
    <3>. QED
      BY <1>8, <2>3, <3>1
  <2>. QED
    BY <1>6, <2>1, <2>2, <2>3
<1>11. e = [k \in 1 .. Len(d) |-> e[k]]
  BY <1>2, <1>5
<1>. HIDE DEF e
<1>12. e \in Seq(Elem) /\ Len(e) = Len(d)
  BY <1>6, <1>10, <1>11
<1>. QED
  BY <1>1, <1>3, <1>4, <1>7, <1>8, <1>9, <1>12 DEF e

\* p takes the first n cells of s to those of d, the first i of them ascending
\* and, of one rank, in the order they had.
Before(s, a, b) == Rank[s[a]] < Rank[s[b]] \/ (Rank[s[a]] = Rank[s[b]] /\ a < b)

Arranges(p, s, d, n, i) ==
    /\ p \in [1 .. n -> 1 .. n]
    /\ \A k \in 1 .. n : d[k] = s[p[k]]
    /\ \A k \in 1 .. n : (k <= i => p[k] <= i) /\ (k > i => p[k] = k)
    /\ \A k, l \in 1 .. n : k < l /\ l <= i => Before(s, p[k], p[l])

\* One pass of the sort: the element of position i goes among those before it.
LEMMA PassArranges ==
  ASSUME NEW s \in Seq(Elem), NEW d \in Seq(Elem), Len(d) = Len(s),
         NEW n \in 0 .. Len(s), NEW i \in 2 .. n,
         \E p : Arranges(p, s, d, n, i - 1)
  PROVE  \E q : Arranges(q, s, InsertedAt(d, i), n, i)
<1> DEFINE e == InsertedAt(d, i)
<1>1. PICK p : Arranges(p, s, d, n, i - 1)
  OBVIOUS
<1>2. i \in 1 .. Len(d) /\ n \in Nat /\ i \in Nat /\ i <= n /\ n <= Len(d)
  OBVIOUS
<1>3. PICK j \in 0 .. i - 1 :
         /\ j > 0 => Rank[d[j]] <= Rank[d[i]]
         /\ \A k \in j + 1 .. i - 1 : Rank[d[k]] > Rank[d[i]]
         /\ e[j + 1] = d[i]
         /\ \A k \in j + 2 .. i : e[k] = d[k - 1]
         /\ \A k \in 1 .. Len(d) : k <= j \/ k > i => e[k] = d[k]
  BY <1>2, InsertedFacts
<1>4. j \in Nat /\ j < i
  BY <1>2
<1>. HIDE DEF e
<1>5. /\ p \in [1 .. n -> 1 .. n]
      /\ \A k \in 1 .. n : d[k] = s[p[k]]
      /\ \A k \in 1 .. n : (k <= i - 1 => p[k] <= i - 1) /\ (k > i - 1 => p[k] = k)
      /\ \A k, l \in 1 .. n : k < l /\ l <= i - 1 => Before(s, p[k], p[l])
  BY <1>1 DEF Arranges
<1> DEFINE from(k) == IF k = j + 1 THEN i ELSE IF k \in j + 2 .. i THEN k - 1 ELSE k
           q == [k \in 1 .. n |-> p[from(k)]]
<1>6. \A k \in 1 .. n : from(k) \in 1 .. n
  BY <1>2, <1>4
<1>7. q \in [1 .. n -> 1 .. n] /\ \A k \in 1 .. n : q[k] = p[from(k)]
  BY <1>5, <1>6
<1>8. \A k \in 1 .. n : e[k] = d[from(k)]
  <2> SUFFICES ASSUME NEW k \in 1 .. n PROVE e[k] = d[from(k)]
    OBVIOUS
  <2>1. CASE k = j + 1
    BY <1>3, <2>1
  <2>2. CASE k \in j + 2 .. i
    BY <1>3, <1>4, <2>2
  <2>3. CASE k <= j \/ k > i
    BY <1>2, <1>3, <1>4, <2>3
  <2>. QED
    BY <1>2, <1>4, <2>1, <2>2, <2>3
<1>9. \A k \in 1 .. n : e[k] = s[q[k]]
  BY <1>5, <1>6, <1>7, <1>8
<1>10. \A k \in 1 .. n : (k <= i => q[k] <= i) /\ (k > i => q[k] = k)
  <2> SUFFICES ASSUME NEW k \in 1 .. n
               PROVE  (k <= i => q[k] <= i) /\ (k > i => q[k] = k)
    OBVIOUS
  <2>1. from(k) \in 1 .. n /\ q[k] = p[from(k)]
    BY <1>6, <1>7
  <2>2. CASE k > i
    <3>1. from(k) = k /\ k > i - 1
      BY <1>2, <1>4, <2>2
    <3>. QED
      BY <1>2, <1>5, <2>1, <2>2, <3>1
  <2>3. CASE k <= i
    <3>1. CASE k = j + 1
      <4>1. from(k) = i /\ i > i - 1 /\ i \in 1 .. n
        BY <1>2, <3>1
      <4>2. p[i] = i
        BY <1>5, <4>1
      <4>. QED
        BY <1>2, <2>1, <2>3, <4>1, <4>2
    <3>2. CASE k # j + 1
      <4>1. from(k) <= i - 1
        BY <1>2, <1>4, <2>3, <3>2
      <4>2. p[from(k)] <= i - 1 /\ p[from(k)] \in 1 .. n
        BY <1>5, <2>1, <4>1
      <4>. QED
        BY <1>2, <2>1, <2>3, <4>2
    <3>. QED
      BY <3>1, <3>2
  <2>. QED
    BY <1>2, <2>2, <2>3
<1>11. p[i] = i /\ i \in 1 .. n
  <2>1. i \in 1 .. n /\ i > i - 1
    BY <1>2
  <2>. QED
    BY <1>5, <2>1
<1>12. \A k \in 1 .. n : s[p[k]] \in Elem /\ Rank[s[p[k]]] \in Int
                         /\ Rank[s[p[k]]] = Rank[d[k]]
  <2> SUFFICES ASSUME NEW k \in 1 .. n
               PROVE  s[p[k]] \in Elem /\ Rank[s[p[k]]] \in Int
                      /\ Rank[s[p[k]]] = Rank[d[k]]
    OBVIOUS
  <2>1. p[k] \in 1 .. Len(s)
    BY <1>2, <1>5
  <2>2. s[p[k]] \in Elem
    BY <2>1
  <2>. QED
    BY <1>5, <2>2, RankAssumption
<1>13. ASSUME NEW k \in 1 .. j PROVE Before(s, p[k], i)
  <2>1. k \in 1 .. n /\ j \in 1 .. n /\ k <= i - 1 /\ j <= i - 1 /\ j > 0
    BY <1>2, <1>4
  <2>2. Rank[s[p[j]]] <= Rank[s[i]]
    BY <1>3, <1>11, <1>12, <2>1
  <2>3. Rank[s[p[k]]] <= Rank[s[p[j]]]
    <3>1. CASE k = j
      BY <1>12, <2>1, <3>1
    <3>2. CASE k # j
      <4>1. Before(s, p[k], p[j])
        BY <1>5, <2>1, <3>2
      <4>. QED
        BY <1>12, <2>1, <4>1 DEF Before
    <3>. QED
      BY <3>1, <3>2
  <2>4. p[k] < i
    <3>1. p[k] <= i - 1 /\ p[k] \in 1 .. n
      BY <1>5, <2>1
    <3>. QED
      BY <1>2, <3>1
  <2>5. Rank[s[p[k]]] \in Int /\ Rank[s[p[j]]] \in Int /\ Rank[s[i]] \in Int
    BY <1>11, <1>12, <2>1
  <2>. QED
    BY <2>2, <2>3, <2>4, <2>5 DEF Before
<1>14. ASSUME NEW k \in j + 1 .. i - 1 PROVE Before(s, i, p[k])
  <2>1. k \in 1 .. n
    BY <1>2, <1>4
  <2>2. Rank[s[p[k]]] > Rank[s[i]]
    BY <1>3, <1>11, <1>12, <2>1
  <2>3. Rank[s[p[k]]] \in Int /\ Rank[s[i]] \in Int
    BY <1>11, <1>12, <2>1
  <2>. QED
    BY <2>2, <2>3 DEF Before
<1>15. ASSUME NEW k \in 1 .. n, NEW l \in 1 .. n, k < l, l <= i
       PROVE  Before(s, q[k], q[l])
  <2>1. q[k] = p[from(k)] /\ q[l] = p[from(l)] /\ from(k) \in 1 .. n /\ from(l) \in 1 .. n
    BY <1>6, <1>7
  <2>2. CASE l = j + 1
    <3>1. k \in 1 .. j /\ from(k) = k /\ from(l) = i
      BY <1>2, <1>4, <1>15, <2>2
    <3>. QED
      BY <1>11, <1>13, <2>1, <3>1
  <2>3. CASE k = j + 1
    <3>1. from(l) \in j + 1 .. i - 1 /\ from(k) = i
      BY <1>2, <1>4, <1>15, <2>3
    <3>. QED
      BY <1>11, <1>14, <2>1, <3>1
  <2>4. CASE k # j + 1 /\ l # j + 1
    <3>1. from(k) < from(l) /\ from(l) <= i - 1
      BY <1>2, <1>4, <1>15, <2>4
    <3>. QED
      BY <1>5, <2>1, <3>1
  <2>. QED
    BY <2>2, <2>3, <2>4
<1>. HIDE DEF q, from
<1>16. Arranges(q, s, e, n, i)
  BY <1>7, <1>9, <1>10, <1>15 DEF Arranges
<1>. QED
  BY <1>16 DEF e

\* List.sort: a rearrangement, ascending and stable.
LEMMA SortedFacts ==
  ASSUME NEW h \in Header, Fits(h), h.head = 0
  PROVE  /\ Sorted(h) \in Header /\ Fits(Sorted(h))
         /\ Sorted(h).head = 0 /\ Sorted(h).len = h.len /\ Sorted(h).cap = h.cap
         /\ \E p \in [1 .. h.len -> 1 .. h.len] :
               /\ \A k, l \in 1 .. h.len : k < l => Before(ItemsOf(h), p[k], p[l])
               /\ ItemsOf(Sorted(h)) = [k \in 1 .. h.len |-> ItemsOf(h)[p[k]]]
<1> DEFINE s == h.data
           n == h.len
           L == Len(s)
           S == {d \in Seq(Elem) : Len(d) = L}
           R(f) == f = [i \in 0 .. h.len |->
                           IF i < 2 THEN h.data ELSE InsertedAt(f[i - 1], i)]
           step == [i \in 1 .. n |->
                       [d \in S |-> IF i < 2 THEN s ELSE InsertedAt(d, i)]]
<1>1. s \in Seq(Elem) /\ L \in Nat /\ n \in Nat /\ n <= L
  BY HeaderType DEF Fits
<1>2. s \in S
  BY <1>1
<1>. HIDE DEF s, n
<1>3. ASSUME NEW i \in 1 .. n, NEW d \in S PROVE InsertedAt(d, i) \in S
  <2>1. d \in Seq(Elem) /\ Len(d) = L /\ i \in 1 .. Len(d)
    BY <1>1
  <2>. QED
    BY <2>1, InsertedFacts
<1>4. step \in [1 .. n -> [S -> S]]
  BY <1>2, <1>3
<1>5. \E f : Iterates(f, n, S, s, step)
  <2>. HIDE DEF S, step
  <2>. QED
    BY <1>1, <1>2, <1>4, Iteration
<1>6. ASSUME NEW f, Iterates(f, n, S, s, step) PROVE R(f)
  <2>1. f \in [0 .. n -> S] /\ f[0] = s /\ \A i \in 1 .. n : f[i] = step[i][f[i - 1]]
    BY <1>6 DEF Iterates
  <2>2. ASSUME NEW i \in 0 .. n, i # 0
        PROVE  f[i] = IF i < 2 THEN s ELSE InsertedAt(f[i - 1], i)
    <3>1. i \in 1 .. n /\ i - 1 \in 0 .. n
      BY <1>1, <2>2
    <3>2. f[i - 1] \in S
      BY <2>1, <3>1
    <3>. QED
      BY <2>1, <3>1, <3>2
  <2>3. ASSUME NEW i \in 0 .. n
        PROVE  f[i] = IF i < 2 THEN s ELSE InsertedAt(f[i - 1], i)
    <3>1. CASE i = 0
      <4>1. f[0] = s
        BY <2>1
      <4>2. f[i] = s /\ i < 2
        <5>. HIDE DEF S, step
        <5>. QED
          BY <3>1, <4>1
      <4>. QED
        BY <4>2
    <3>2. CASE i # 0
      BY <2>2, <3>2
    <3>. QED
      BY <3>1, <3>2
  <2>4. f = [i \in 0 .. n |-> f[i]]
    BY <2>1
  <2>5. f = [i \in 0 .. n |-> IF i < 2 THEN s ELSE InsertedAt(f[i - 1], i)]
    BY <2>3, <2>4, Zenon
  <2>. QED
    BY <2>5 DEF s, n
<1> DEFINE m == CHOOSE f : R(f)
<1>7. R(m)
  BY <1>5, <1>6
<1>8. Sorted(h) = [h EXCEPT !.data = m[h.len]]
  BY DEF Sorted, InsertedAt
<1>9. m = [i \in 0 .. n |-> IF i < 2 THEN s ELSE InsertedAt(m[i - 1], i)]
  <2>. HIDE DEF m
  <2>. QED
    BY <1>7 DEF s, n
<1>. HIDE DEF m, R, step
<1> DEFINE Good(d, i) == d \in S /\ \E p : Arranges(p, s, d, n, i)
           T == {i \in 0 .. n : Good(m[i], i)}
<1>10. ASSUME NEW i \in 0 .. n, i < 2 PROVE i \in T
  <2>1. m[i] = s
    BY <1>9, <1>10
  <2> DEFINE p == [k \in 1 .. n |-> k]
  <2>2. Arranges(p, s, s, n, i)
    BY <1>1, <1>10 DEF Arranges
  <2>. HIDE DEF p
  <2>. QED
    BY <1>2, <2>1, <2>2
<1>11. ASSUME NEW i \in 1 .. n, i - 1 \in T PROVE i \in T
  <2>1. CASE i < 2
    BY <1>1, <1>10, <2>1
  <2>2. CASE ~(i < 2)
    <3>1. i \in 0 .. n /\ i \in 2 .. n /\ n \in 0 .. Len(s)
      BY <1>1, <2>2
    <3> DEFINE d == m[i - 1]
    <3>2. m[i] = InsertedAt(d, i)
      BY <1>9, <2>2, <3>1
    <3>3. Good(d, i - 1)
      BY <1>11
    <3>. HIDE DEF d
    <3>4. d \in Seq(Elem) /\ Len(d) = Len(s) /\ \E p : Arranges(p, s, d, n, i - 1)
      BY <3>3
    <3>5. \E q : Arranges(q, s, InsertedAt(d, i), n, i)
      BY <1>1, <3>1, <3>4, PassArranges
    <3>6. InsertedAt(d, i) \in S
      BY <1>3, <3>3
    <3>. QED
      BY <3>1, <3>2, <3>5, <3>6
  <2>. QED
    BY <2>1, <2>2
<1> DEFINE t == m[n]
<1>12. Good(t, n)
  <2>1. T \in SUBSET Nat
    BY <1>1
  <2>2. 0 \in T
    BY <1>1, <1>10
  <2>. HIDE DEF T
  <2>3. \A i \in 0 .. n : i \in T
    BY <1>1, <1>11, <2>1, <2>2, Along
  <2>4. n \in T
    BY <1>1, <2>3
  <2>. QED
    BY <2>4 DEF T
<1>13. Sorted(h) = [data |-> t, len |-> n, cap |-> h.cap, head |-> 0]
  BY <1>8 DEF Header, n
<1>. HIDE DEF t
<1>14. t \in Seq(Elem) /\ Len(t) = L
  BY <1>12
<1>15. Sorted(h) \in Header
  BY <1>1, <1>13, <1>14, HeaderType DEF Header
<1>16. /\ Sorted(h).head = 0 /\ Sorted(h).len = n /\ Sorted(h).cap = h.cap
       /\ Sorted(h).data = t
  BY <1>13
<1>17. Fits(Sorted(h))
  BY <1>1, <1>14, <1>16 DEF Fits, s, n
<1>18. PICK p : Arranges(p, s, t, n, n)
  BY <1>12
<1>19. /\ p \in [1 .. n -> 1 .. n]
       /\ \A k \in 1 .. n : t[k] = s[p[k]]
       /\ \A k, l \in 1 .. n : k < l => Before(s, p[k], p[l])
  BY <1>1, <1>18 DEF Arranges
<1> DEFINE a == ItemsOf(h)
           b == ItemsOf(Sorted(h))
<1>20. a \in Seq(Elem) /\ Len(a) = n /\ \A i \in 1 .. n : a[i] = s[i]
  <2>1. /\ a \in Seq(Elem) /\ Len(a) = n /\ \A i \in 1 .. n : a[i] = s[0 + i]
    BY ItemsFacts DEF n, s
  <2>. QED
    BY <2>1
<1>21. b \in Seq(Elem) /\ Len(b) = n /\ \A i \in 1 .. n : b[i] = t[i]
  <2>1. /\ b \in Seq(Elem) /\ Len(b) = n /\ \A i \in 1 .. n : b[i] = t[0 + i]
    BY <1>15, <1>16, <1>17, ItemsFacts
  <2>. QED
    BY <2>1
<1>. HIDE DEF a, b
<1>22. \A k \in 1 .. n : p[k] \in 1 .. n /\ a[p[k]] = s[p[k]] /\ b[k] = a[p[k]]
  BY <1>19, <1>20, <1>21
<1>23. \A k, l \in 1 .. n : k < l => Before(a, p[k], p[l])
  BY <1>19, <1>22 DEF Before
<1>24. b = [k \in 1 .. n |-> a[p[k]]]
  <2>1. b = [k \in 1 .. n |-> b[k]]
    BY <1>21
  <2>. QED
    BY <1>22, <2>1
<1>. QED
  BY <1>15, <1>16, <1>17, <1>19, <1>23, <1>24 DEF a, b, n

\* List.set changes one element.
LEMMA SetFacts ==
  ASSUME NEW h \in Header, Fits(h), h.head = 0, NEW i \in 0 .. h.len - 1, NEW x \in Elem
  PROVE  LET g == [h EXCEPT !.data[i + 1] = x]
         IN  /\ g \in Header /\ Fits(g) /\ g.head = 0 /\ g.len = h.len /\ g.cap = h.cap
             /\ i + 1 \in DOMAIN ItemsOf(h)
             /\ ItemsOf(g) = [ItemsOf(h) EXCEPT ![i + 1] = x]
<1> DEFINE g == [h EXCEPT !.data[i + 1] = x]
           d == h.data
           n == h.len
           e == [d EXCEPT ![i + 1] = x]
<1>1. d \in Seq(Elem) /\ n \in Nat /\ n <= Len(d) /\ Len(d) <= h.cap
  BY HeaderType DEF Fits
<1>2. g = [data |-> e, len |-> n, cap |-> h.cap, head |-> 0]
  BY DEF Header
<1>. HIDE DEF d, n
<1>3. i + 1 \in 1 .. n /\ i + 1 \in 1 .. Len(d)
  BY <1>1 DEF n
<1>4. /\ e \in Seq(Elem) /\ Len(e) = Len(d) /\ e[i + 1] = x
      /\ \A k \in 1 .. Len(d) : k # i + 1 => e[k] = d[k]
  BY <1>1, <1>3
<1>. HIDE DEF e
<1>5. g \in Header
  <2>. HIDE DEF g
  <2>. QED
    BY <1>1, <1>2, <1>4, HeaderType DEF Header
<1>. HIDE DEF g
<1>6. g.data = e /\ g.len = n /\ g.cap = h.cap /\ g.head = 0
  BY <1>2
<1>7. Fits(g)
  BY <1>1, <1>4, <1>6 DEF Fits
<1> DEFINE a == ItemsOf(h)
           b == ItemsOf(g)
           c == [a EXCEPT ![i + 1] = x]
<1>8. a \in Seq(Elem) /\ Len(a) = n /\ \A k \in 1 .. n : a[k] = d[k]
  <2>1. a \in Seq(Elem) /\ Len(a) = n /\ \A k \in 1 .. n : a[k] = d[0 + k]
    BY ItemsFacts DEF n, d
  <2>. QED
    BY <2>1
<1>9. b \in Seq(Elem) /\ Len(b) = n /\ \A k \in 1 .. n : b[k] = e[k]
  <2>1. b \in Seq(Elem) /\ Len(b) = n /\ \A k \in 1 .. n : b[k] = e[0 + k]
    BY <1>5, <1>6, <1>7, ItemsFacts
  <2>. QED
    BY <2>1
<1>. HIDE DEF a, b
<1>10. /\ c \in Seq(Elem) /\ Len(c) = n /\ c[i + 1] = x
       /\ \A k \in 1 .. n : k # i + 1 => c[k] = a[k]
  BY <1>3, <1>8
<1>. HIDE DEF c
<1>11. \A k \in 1 .. n : b[k] = c[k]
  BY <1>1, <1>4, <1>8, <1>9, <1>10
<1>12. b = c
  BY <1>9, <1>10, <1>11, SeqEqual
<1>13. i + 1 \in DOMAIN a
  BY <1>3, <1>8
<1>. QED
  BY <1>5, <1>6, <1>7, <1>12, <1>13 DEF a, b, c, g, n

\* What pop and dequeue leave.
Taken(k, h) == [h EXCEPT !.len = @ - 1, !.head = IF k = "queue" THEN @ + 1 ELSE @]

\* pop leaves all but the last element, dequeue all but the first.
LEMMA TakenFacts ==
  ASSUME NEW k, NEW h \in Header, Fits(h), h.len > 0, k # "queue" => h.head = 0
  PROVE  /\ Taken(k, h) \in Header /\ Fits(Taken(k, h))
         /\ k # "queue" => Taken(k, h).head = 0
         /\ Taken(k, h).cap = h.cap
         /\ ItemsOf(Taken(k, h)) = IF k = "queue" THEN Tail(ItemsOf(h))
                                   ELSE SubSeq(ItemsOf(h), 1, h.len - 1)
<1> DEFINE d == h.data
           n == h.len - 1
           hd == IF k = "queue" THEN h.head + 1 ELSE h.head
           g == Taken(k, h)
           a == ItemsOf(h)
           b == ItemsOf(g)
<1>1. /\ d \in Seq(Elem) /\ n \in Nat /\ hd \in Nat /\ hd + n <= Len(d)
      /\ Len(d) <= h.cap /\ h.head \in Nat /\ h.len = n + 1
  BY HeaderType DEF Fits
<1>2. g = [data |-> d, len |-> n, cap |-> h.cap, head |-> hd]
  <2>1. g = [h EXCEPT !.len = n, !.head = hd]
    BY DEF Taken
  <2>. HIDE DEF g, n, hd
  <2>. QED
    BY <2>1 DEF Header
<1>. HIDE DEF g, d, n
<1>3. g \in Header
  BY <1>1, <1>2, HeaderType DEF Header
<1>4. g.data = d /\ g.len = n /\ g.cap = h.cap /\ g.head = hd
  BY <1>2
<1>5. Fits(g)
  BY <1>1, <1>4 DEF Fits
<1>6. a \in Seq(Elem) /\ Len(a) = n + 1 /\ \A i \in 1 .. n + 1 : a[i] = d[h.head + i]
  BY <1>1, ItemsFacts DEF d
<1>7. b \in Seq(Elem) /\ Len(b) = n /\ \A i \in 1 .. n : b[i] = d[hd + i]
  BY <1>3, <1>4, <1>5, ItemsFacts
<1>. HIDE DEF a, b
<1>8. CASE k = "queue"
  <2> DEFINE c == Tail(a)
  <2>1. c \in Seq(Elem) /\ Len(c) = n /\ \A i \in 1 .. n : c[i] = a[i + 1]
    BY <1>1, <1>6
  <2>. HIDE DEF c
  <2>2. ASSUME NEW i \in 1 .. n PROVE b[i] = c[i]
    <3>1. hd + i = h.head + (i + 1) /\ i + 1 \in 1 .. n + 1
      BY <1>1, <1>8
    <3>. QED
      BY <1>6, <1>7, <2>1, <3>1
  <2>3. b = c
    BY <1>7, <2>1, <2>2, SeqEqual
  <2>. QED
    BY <1>3, <1>4, <1>5, <1>8, <2>3 DEF c, a, b, g
<1>9. CASE k # "queue"
  <2> DEFINE c == SubSeq(a, 0 + 1, 0 + n)
  <2>1. c \in Seq(Elem) /\ Len(c) = n /\ \A i \in 1 .. n : c[i] = a[0 + i]
    <3>1. 0 \in Nat /\ 0 + n <= Len(a)
      BY <1>1, <1>6
    <3>. QED
      BY <1>1, <1>6, <3>1, Cells
  <2>2. c = SubSeq(a, 1, n)
    BY <1>1
  <2>. HIDE DEF c
  <2>3. ASSUME NEW i \in 1 .. n PROVE b[i] = c[i]
    <3>1. hd + i = h.head + i /\ i \in 1 .. n + 1 /\ 0 + i = i
      BY <1>1, <1>9
    <3>. QED
      BY <1>6, <1>7, <2>1, <3>1
  <2>4. b = c
    BY <1>7, <2>1, <2>3, SeqEqual
  <2>. QED
    BY <1>3, <1>4, <1>5, <1>9, <2>2, <2>4 DEF a, b, g, n
<1>. QED
  BY <1>8, <1>9

(***************************************************************************)
(* The program.                                                            *)
(***************************************************************************)
Kinds == {"list", "stack", "queue"}

TypeOK ==
    /\ kind \in [Obj -> Kinds]
    /\ store \in [Obj -> [data : Seq(Elem), len : Nat, cap : Nat, head : Nat]]
    /\ panic \in BOOLEAN

\* What each header is between two operations.
Sound(k, h) == h \in Header /\ Fits(h) /\ (k # "queue" => h.head = 0)

Inv ==
    /\ kind \in [Obj -> Kinds]
    /\ store \in [Obj -> Header]
    /\ panic \in BOOLEAN
    /\ \A o \in Obj : Sound(kind[o], store[o])

\* A header of the same kind in the place of o's.
LEMMA BecomesKeepsInv ==
  ASSUME Inv, kind' = kind, NEW o \in Obj, NEW h, Becomes(o, h), Sound(kind[o], h)
  PROVE  Inv'
<1>1. store' = [store EXCEPT ![o] = h] /\ panic' = panic /\ h \in Header
  BY DEF Becomes, Sound
<1>2. store' \in [Obj -> Header]
  BY <1>1 DEF Inv
<1>3. \A p \in Obj : store'[p] = IF p = o THEN h ELSE store[p]
  BY <1>1 DEF Inv
<1>. QED
  BY <1>1, <1>2, <1>3 DEF Inv

\* What one operation makes of the header it writes.
LEMMA InsertIsPut ==
  ASSUME Inv, NEW o \in Obj, NEW x \in Elem, Insert(o, x)
  PROVE  /\ store[o].len < MaxLen /\ Becomes(o, Put(kind[o], store[o], x))
         /\ Sound(kind[o], Put(kind[o], store[o], x))
<1>1. Sound(kind[o], store[o])
  BY DEF Inv
<1>2. Becomes(o, Put(kind[o], store[o], x)) /\ store[o].len < MaxLen
  BY DEF Insert, Put
<1>3. Sound(kind[o], Put(kind[o], store[o], x))
  BY <1>1, PutFacts DEF Sound
<1>. QED
  BY <1>2, <1>3

\* pop and dequeue of an empty collection panic and change nothing.
LEMMA TakeIsTaken ==
  ASSUME Inv, NEW o \in Obj, Take(o)
  PROVE  \/ store[o].len = 0 /\ panic' = TRUE /\ UNCHANGED store
         \/ /\ store[o].len > 0 /\ Becomes(o, Taken(kind[o], store[o]))
            /\ Sound(kind[o], Taken(kind[o], store[o]))
<1>1. Sound(kind[o], store[o])
  BY DEF Inv
<1>2. \/ store[o].len = 0 /\ panic' = TRUE /\ UNCHANGED store
      \/ store[o].len > 0 /\ Becomes(o, Taken(kind[o], store[o]))
  BY DEF Take, Taken
<1>3. store[o].len > 0 => Sound(kind[o], Taken(kind[o], store[o]))
  BY <1>1, TakenFacts DEF Sound
<1>. QED
  BY <1>2, <1>3

\* List.set.
LEMMA SetIsSound ==
  ASSUME Inv, NEW o \in Obj, NEW x \in Elem, NEW i \in 0 .. MaxLen - 1, Set(o, i, x)
  PROVE  LET g == [store[o] EXCEPT !.data[i + 1] = x]
         IN  /\ Becomes(o, g) /\ Sound(kind[o], g) /\ g.cap = store[o].cap
             /\ kind[o] = "list" /\ i + 1 \in DOMAIN ItemsOf(store[o])
             /\ ItemsOf(g) = [ItemsOf(store[o]) EXCEPT ![i + 1] = x]
<1>1. store[o] \in Header /\ Fits(store[o]) /\ store[o].head = 0
  BY DEF Inv, Sound, Set
<1>2. i \in 0 .. store[o].len - 1 /\ kind[o] = "list"
  BY DEF Set
<1> DEFINE g == [store[o] EXCEPT !.data[i + 1] = x]
<1>3. /\ g \in Header /\ Fits(g) /\ g.head = 0 /\ g.cap = store[o].cap
      /\ i + 1 \in DOMAIN ItemsOf(store[o])
      /\ ItemsOf(g) = [ItemsOf(store[o]) EXCEPT ![i + 1] = x]
  BY <1>1, <1>2, SetFacts
<1>4. Becomes(o, g)
  BY DEF Set
<1>. QED
  BY <1>2, <1>3, <1>4 DEF Sound

\* List.sort.
LEMMA SortIsSorted ==
  ASSUME Inv, NEW o \in Obj, Sort(o)
  PROVE  /\ kind[o] = "list" /\ store[o] \in Header /\ Fits(store[o]) /\ store[o].head = 0
         /\ Becomes(o, Sorted(store[o])) /\ Sound(kind[o], Sorted(store[o]))
<1>1. store[o] \in Header /\ Fits(store[o]) /\ store[o].head = 0 /\ kind[o] = "list"
  BY DEF Inv, Sound, Sort
<1>2. Sound(kind[o], Sorted(store[o]))
  BY <1>1, SortedFacts DEF Sound
<1>. QED
  BY <1>1, <1>2 DEF Sort

\* List.copy, Stack.copy and Queue.copy.
LEMMA CopyIsCopied ==
  ASSUME Inv, NEW o \in Obj, NEW p \in Obj, Copy(o, p)
  PROVE  /\ kind[o] = kind[p] /\ Becomes(p, Copied(kind[o], store[o]))
         /\ Sound(kind[p], Copied(kind[o], store[o]))
<1>1. store[o] \in Header /\ Fits(store[o]) /\ kind[o] = kind[p]
  BY DEF Inv, Sound, Copy
<1>2. Sound(kind[p], Copied(kind[o], store[o]))
  BY <1>1, CopiedFacts DEF Sound
<1>. QED
  BY <1>1, <1>2 DEF Copy

\* Every step keeps the invariant.
LEMMA NextKeepsInv ==
  ASSUME Inv, [Next]_vars
  PROVE  Inv'
<1>1. CASE UNCHANGED vars
  BY <1>1 DEF vars, Inv
<1>2. ASSUME NEW o \in Obj, NEW x \in Elem, Insert(o, x), kind' = kind PROVE Inv'
  BY <1>2, InsertIsPut, BecomesKeepsInv
<1>3. ASSUME NEW o \in Obj, NEW x \in Elem, NEW i \in 0 .. MaxLen - 1, Set(o, i, x),
             kind' = kind
      PROVE  Inv'
  BY <1>3, SetIsSound, BecomesKeepsInv
<1>4. ASSUME NEW o \in Obj, Take(o), kind' = kind PROVE Inv'
  <2>1. CASE store[o].len = 0 /\ panic' = TRUE /\ UNCHANGED store
    BY <1>4, <2>1 DEF Inv
  <2>2. CASE /\ Becomes(o, Taken(kind[o], store[o]))
             /\ Sound(kind[o], Taken(kind[o], store[o]))
    BY <1>4, <2>2, BecomesKeepsInv
  <2>. QED
    BY <1>4, <2>1, <2>2, TakeIsTaken
<1>5. ASSUME NEW o \in Obj, Sort(o), kind' = kind PROVE Inv'
  BY <1>5, SortIsSorted, BecomesKeepsInv
<1>6. ASSUME NEW o \in Obj, NEW p \in Obj, Copy(o, p), kind' = kind PROVE Inv'
  BY <1>6, CopyIsCopied, BecomesKeepsInv
<1>. QED
  BY <1>1, <1>2, <1>3, <1>4, <1>5, <1>6 DEF Next

\* It holds at the beginning.
LEMMA InitInv == Init => Inv
<1> SUFFICES ASSUME Init PROVE Inv
  OBVIOUS
<1>1. \A o \in Obj : store[o] = New
  BY DEF Init
<1>. QED
  BY <1>1, NewFacts DEF Init, Inv, Sound, Kinds

\* The inductive invariant: between two operations every header holds its live
\* elements in cells that were written, those cells fit the capacity, the
\* capacity is one that doubling gives, and only a queue's head ever leaves 0.
THEOREM Invariance == Spec => []Inv
<1>1. Init => Inv
  BY InitInv
<1>2. Inv /\ [Next]_vars => Inv'
  BY NextKeepsInv
<1>. QED
  BY <1>1, <1>2, PTL DEF Spec

\* Type correctness.
THEOREM TypeCorrect == Spec => []TypeOK
<1>1. Inv => TypeOK
  <2> SUFFICES ASSUME Inv PROVE TypeOK
    OBVIOUS
  <2>1. Header \subseteq [data : Seq(Elem), len : Nat, cap : Nat, head : Nat]
    BY CapsFacts DEF Header
  <2>. QED
    BY <2>1 DEF Inv, TypeOK
<1>. QED
  BY <1>1, Invariance, PTL

\* list.tr, stack.tr and queue.tr read data[head + i] with no check of their own:
\* whatever the elements, the first capacity and the lengths, the read is of a
\* cell that was written, within the buffer.
THEOREM BufferAlwaysHoldsItems == Spec => []BufferHoldsItems
<1>1. Inv => BufferHoldsItems
  BY DEF Inv, Sound, Fits, BufferHoldsItems
<1>. QED
  BY <1>1, Invariance, PTL

\* collections.md:639: storage grows only for a length it could not hold, by
\* enqueue, push and copy alike.
THEOREM SpaceIsAlwaysReused == Spec => SpaceIsReused
<1> DEFINE Reuse(p) == store'[p].cap > store[p].cap => store'[p].len > store[p].cap
<1>1. ASSUME Inv, [Next]_vars, NEW p \in Obj PROVE Reuse(p)
  <2>1. store[p] \in Header /\ store[p].cap \in Nat /\ store[p].cap \in Caps
        /\ store \in [Obj -> Header] /\ ~(store[p].cap > store[p].cap)
    <3>1. store[p] \in Header /\ store \in [Obj -> Header]
      BY <1>1 DEF Inv
    <3>2. store[p].cap \in Nat /\ store[p].cap \in Caps
      BY <3>1, HeaderType
    <3>. QED
      BY <3>1, <3>2
  <2>2. CASE store' = store
    BY <2>1, <2>2
  <2>3. ASSUME NEW o \in Obj, NEW h, Becomes(o, h),
               o = p => (h.cap > store[p].cap => h.len > store[p].cap)
        PROVE  Reuse(p)
    BY <2>1, <2>3 DEF Becomes
  <2>4. ASSUME NEW o \in Obj, NEW x \in Elem, Insert(o, x) PROVE Reuse(p)
    <3> DEFINE h == Put(kind[o], store[o], x)
    <3>1. Becomes(o, h) /\ Sound(kind[o], store[o])
      BY <1>1, <2>4, InsertIsPut DEF Inv
    <3>2. h.len = store[o].len + 1 /\ (h.cap # store[o].cap => store[o].len = store[o].cap)
      BY <3>1, PutFacts DEF Sound
    <3>. HIDE DEF h
    <3>3. o = p => (h.cap > store[p].cap => h.len > store[p].cap)
      BY <2>1, <3>2
    <3>. QED
      BY <2>3, <3>1, <3>3
  <2>5. ASSUME NEW o \in Obj, NEW x \in Elem, NEW i \in 0 .. MaxLen - 1, Set(o, i, x)
        PROVE  Reuse(p)
    <3> DEFINE h == [store[o] EXCEPT !.data[i + 1] = x]
    <3>1. Becomes(o, h) /\ h.cap = store[o].cap
      BY <1>1, <2>5, SetIsSound
    <3>. HIDE DEF h
    <3>. QED
      BY <2>1, <2>3, <3>1
  <2>6. ASSUME NEW o \in Obj, Take(o) PROVE Reuse(p)
    <3>1. CASE UNCHANGED store
      BY <2>2, <3>1
    <3>2. CASE store[o].len > 0 /\ Becomes(o, Taken(kind[o], store[o]))
      <4>1. Taken(kind[o], store[o]).cap = store[o].cap
        BY <1>1, <3>2, TakenFacts DEF Inv, Sound
      <4>. QED
        BY <2>1, <2>3, <3>2, <4>1
    <3>. QED
      BY <1>1, <2>6, <3>1, <3>2, TakeIsTaken
  <2>7. ASSUME NEW o \in Obj, Sort(o) PROVE Reuse(p)
    <3>1. Becomes(o, Sorted(store[o])) /\ Sorted(store[o]).cap = store[o].cap
      BY <1>1, <2>7, SortIsSorted, SortedFacts
    <3>. QED
      BY <2>1, <2>3, <3>1
  <2>8. ASSUME NEW o \in Obj, NEW q \in Obj, Copy(o, q) PROVE Reuse(p)
    <3> DEFINE h == Copied(kind[o], store[o])
    <3>1. Becomes(q, h) /\ store[o] \in Header /\ Fits(store[o])
      BY <1>1, <2>8, CopyIsCopied DEF Inv, Sound
    <3>2. h \in Header /\ Tight(h)
      BY <3>1, CopiedFacts
    <3>. HIDE DEF h
    <3>3. h.cap > store[p].cap => h.len > store[p].cap
      <4>1. h.len \in Nat /\ h.cap \in Nat
        BY <3>2, HeaderType
      <4>. QED
        BY <2>1, <3>2, <4>1 DEF Tight
    <3>. QED
      BY <2>3, <3>1, <3>3
  <2>. QED
    BY <1>1, <2>2, <2>4, <2>5, <2>6, <2>7, <2>8 DEF Next, vars
<1>2. Inv /\ [Next]_vars =>
         \A p \in Obj : store'[p].cap > store[p].cap => store'[p].len > store[p].cap
  BY <1>1
<1>3. ASSUME Inv, [Next]_vars
      PROVE  [\A o \in Obj :
                 store'[o].cap > store[o].cap => store'[o].len > store[o].cap]_vars
  BY <1>2, <1>3
<1>. QED
  BY <1>3, Invariance, PTL DEF Spec, SpaceIsReused

(***************************************************************************)
(* The sequence it implements.                                             *)
(***************************************************************************)
\* A write of a header is a write of its elements.
LEMMA ItemsBecome ==
  ASSUME Inv, NEW o \in Obj, NEW h, Becomes(o, h)
  PROVE  Plain!Becomes(o, ItemsOf(h))
<1>1. store' = [store EXCEPT ![o] = h] /\ panic' = panic /\ store \in [Obj -> Header]
  BY DEF Becomes, Inv
<1>2. \A p \in Obj : store'[p] = IF p = o THEN h ELSE store[p]
  BY <1>1
<1>3. \A p \in Obj : SubSeq(store'[p].data, store'[p].head + 1,
                            store'[p].head + store'[p].len)
                     = IF p = o THEN ItemsOf(h) ELSE Items(p)
  BY <1>2 DEF ItemsOf, Items
<1>4. [p \in Obj |-> Items(p)]' = [[p \in Obj |-> Items(p)] EXCEPT ![o] = ItemsOf(h)]
  BY <1>3 DEF Items
<1>. QED
  BY <1>1, <1>4 DEF Plain!Becomes

\* The initial states are PlainSequence's.
LEMMA InitImplements == Init => Plain!Init
<1> SUFFICES ASSUME Init PROVE Plain!Init
  OBVIOUS
<1>1. \A o \in Obj : Items(o) = <<>>
  <2>1. \A o \in Obj : store[o] = New
    BY DEF Init
  <2>2. ItemsOf(New) = <<>>
    <3>1. ItemsOf(New) \in Seq(Elem) /\ Len(ItemsOf(New)) = 0
      BY NewFacts, ItemsFacts
    <3>. QED
      BY <3>1
  <2>. QED
    BY <2>1, <2>2 DEF Items, ItemsOf
<1>. QED
  BY <1>1 DEF Init, Plain!Init

\* The abstract value of a collection.
LEMMA ItemsAre ==
  ASSUME Inv, NEW o \in Obj
  PROVE  /\ Items(o) = ItemsOf(store[o]) /\ Items(o) \in Seq(Elem)
         /\ Len(Items(o)) = store[o].len /\ store[o].len \in Nat
         /\ [p \in Obj |-> Items(p)][o] = Items(o)
<1>1. store[o] \in Header /\ Fits(store[o])
  BY DEF Inv, Sound
<1>2. Items(o) = ItemsOf(store[o])
  BY DEF Items, ItemsOf
<1>3. store[o].len \in Nat
  BY <1>1, HeaderType
<1>. QED
  BY <1>1, <1>2, <1>3, ItemsFacts

\* Every step is one of PlainSequence or changes nothing it sees.
LEMMA StepImplements ==
  ASSUME Inv, [Next]_vars
  PROVE  [Plain!Next]_<<kind, [o \in Obj |-> Items(o)], panic>>
<1> DEFINE items == [o \in Obj |-> Items(o)]
<1>1. CASE UNCHANGED vars
  BY <1>1 DEF vars, Items
<1>2. ASSUME NEW o \in Obj, NEW x \in Elem, Insert(o, x) PROVE Plain!Insert(o, x)
  <2>1. /\ store[o].len < MaxLen
        /\ Becomes(o, Put(kind[o], store[o], x))
        /\ ItemsOf(Put(kind[o], store[o], x)) = Append(ItemsOf(store[o]), x)
    BY <1>2, InsertIsPut, PutFacts DEF Inv, Sound
  <2>2. Plain!Becomes(o, Append(Items(o), x))
    BY <2>1, ItemsBecome, ItemsAre
  <2>. QED
    BY <2>1, <2>2, ItemsAre DEF Plain!Insert
<1>3. ASSUME NEW o \in Obj, NEW x \in Elem, NEW i \in 0 .. MaxLen - 1, Set(o, i, x)
      PROVE  Plain!Set(o, i + 1, x) /\ i + 1 \in 1 .. MaxLen
  <2> DEFINE g == [store[o] EXCEPT !.data[i + 1] = x]
  <2>1. /\ Becomes(o, g) /\ kind[o] = "list" /\ i + 1 \in DOMAIN ItemsOf(store[o])
        /\ ItemsOf(g) = [ItemsOf(store[o]) EXCEPT ![i + 1] = x]
    BY <1>3, SetIsSound
  <2>. HIDE DEF g
  <2>2. Plain!Becomes(o, [Items(o) EXCEPT ![i + 1] = x])
    BY <2>1, ItemsBecome, ItemsAre
  <2>3. i + 1 \in 1 .. MaxLen
    BY MaxLenAssumption
  <2>. QED
    BY <2>1, <2>2, <2>3, ItemsAre DEF Plain!Set
<1>4. ASSUME NEW o \in Obj, Take(o) PROVE Plain!Take(o)
  <2>1. CASE store[o].len = 0 /\ panic' = TRUE /\ UNCHANGED store
    <3>1. items' = items
      BY <2>1 DEF Items
    <3>. QED
      BY <2>1, <3>1, ItemsAre DEF Plain!Take
  <2>2. CASE store[o].len > 0 /\ Becomes(o, Taken(kind[o], store[o]))
    <3>1. ItemsOf(Taken(kind[o], store[o])) =
             IF kind[o] = "queue" THEN Tail(ItemsOf(store[o]))
             ELSE SubSeq(ItemsOf(store[o]), 1, store[o].len - 1)
      BY <2>2, TakenFacts DEF Inv, Sound
    <3>2. Plain!Becomes(o, IF kind[o] = "queue" THEN Tail(Items(o))
                           ELSE SubSeq(Items(o), 1, Len(Items(o)) - 1))
      BY <2>2, <3>1, ItemsBecome, ItemsAre
    <3>3. Len(Items(o)) # 0
      BY <2>2, ItemsAre
    <3>. QED
      BY <3>2, <3>3, ItemsAre DEF Plain!Take
  <2>. QED
    BY <1>4, <2>1, <2>2, TakeIsTaken
<1>5. ASSUME NEW o \in Obj, Sort(o) PROVE Plain!Sort(o)
  <2> DEFINE a == items[o]
             c == ItemsOf(store[o])
             n == store[o].len
             b == ItemsOf(Sorted(store[o]))
  <2>1. /\ kind[o] = "list" /\ store[o] \in Header /\ Fits(store[o])
        /\ store[o].head = 0 /\ Becomes(o, Sorted(store[o]))
    BY <1>5, SortIsSorted
  <2>2. \E p \in [1 .. n -> 1 .. n] :
           /\ \A k, l \in 1 .. n : k < l => Before(c, p[k], p[l])
           /\ b = [k \in 1 .. n |-> c[p[k]]]
    BY <2>1, SortedFacts
  <2>3. Plain!Becomes(o, b)
    BY <2>1, ItemsBecome
  <2>. HIDE DEF b
  <2>4. a = c /\ DOMAIN a = 1 .. n
    BY ItemsAre
  <2>. HIDE DEF a, c, n, items
  <2>5. PICK p \in [1 .. n -> 1 .. n] :
           /\ \A k, l \in 1 .. n : k < l => Before(c, p[k], p[l])
           /\ b = [k \in 1 .. n |-> c[p[k]]]
    BY <2>2
  <2>6. Plain!Becomes(o, [k \in DOMAIN a |-> a[p[k]]])
    BY <2>3, <2>4, <2>5
  <2>7. p \in [DOMAIN a -> DOMAIN a]
    BY <2>4, <2>5
  <2>8. \A k, l \in DOMAIN a :
           k < l => \/ Rank[a[p[k]]] < Rank[a[p[l]]]
                    \/ Rank[a[p[k]]] = Rank[a[p[l]]] /\ p[k] < p[l]
    BY <2>4, <2>5 DEF Before
  <2>9. \E r \in [DOMAIN a -> DOMAIN a] :
           /\ \A k, l \in DOMAIN a :
                 k < l => \/ Rank[a[r[k]]] < Rank[a[r[l]]]
                          \/ Rank[a[r[k]]] = Rank[a[r[l]]] /\ r[k] < r[l]
           /\ Plain!Becomes(o, [k \in DOMAIN a |-> a[r[k]]])
    BY <2>6, <2>7, <2>8
  <2>. QED
    BY <2>1, <2>9, Zenon DEF Plain!Sort, a, items
<1>6. ASSUME NEW o \in Obj, NEW q \in Obj, Copy(o, q) PROVE Plain!Copy(o, q)
  <2>1. /\ kind[o] = kind[q] /\ Becomes(q, Copied(kind[o], store[o]))
        /\ ItemsOf(Copied(kind[o], store[o])) = ItemsOf(store[o])
    BY <1>6, CopyIsCopied, CopiedFacts DEF Inv, Sound
  <2>2. Plain!Becomes(q, Items(o))
    BY <2>1, ItemsBecome, ItemsAre
  <2>. QED
    BY <2>1, <2>2, ItemsAre DEF Plain!Copy
<1>7. CASE Next
  <2>1. ~panic /\ kind' = kind
    BY <1>7 DEF Next
  <2>2. PICK o \in Obj :
          \/ \E x \in Elem : Insert(o, x) \/ \E i \in 0 .. MaxLen - 1 : Set(o, i, x)
          \/ Take(o) \/ Sort(o)
          \/ \E p \in Obj : Copy(o, p)
    BY <1>7 DEF Next
  <2>3. \/ \E x \in Elem :
               Plain!Insert(o, x) \/ \E i \in 1 .. MaxLen : Plain!Set(o, i, x)
        \/ Plain!Take(o) \/ Plain!Sort(o)
        \/ \E p \in Obj : Plain!Copy(o, p)
    BY <1>2, <1>3, <1>4, <1>5, <1>6, <2>2
  <2>. QED
    BY <2>1, <2>3 DEF Plain!Next
<1>. QED
  BY <1>1, <1>7

\* collections.md's List, Stack and Queue: through every compaction, doubling,
\* sort and copy the live elements are the plain sequence, for every set of
\* elements, every ranking, every first capacity and any number of collections.
THEOREM Implements == Spec => IsPlainSequence
<1>1. Init => Plain!Init
  BY InitImplements
<1>2. Inv /\ [Next]_vars => [Plain!Next]_<<kind, [o \in Obj |-> Items(o)], panic>>
  BY StepImplements
<1>. QED
  BY <1>1, <1>2, Invariance, PTL DEF Spec, Plain!Spec, IsPlainSequence

(***************************************************************************)
(* Binary search of a list.                                                *)
(***************************************************************************)
\* List.binary_search of an ascending list: the recursive function exists because
\* the range shrinks with every call, and what it answers is right for its range.
LEMMA SearchFacts ==
  ASSUME NEW h \in Header, Fits(h), h.head = 0, NEW x \in Elem,
         \A i \in 1 .. h.len - 1 : Rank[h.data[i]] <= Rank[h.data[i + 1]]
  PROVE  \/ /\ BinarySearch(h, x) = -1
            /\ \A i \in 1 .. h.len : Rank[h.data[i]] # Rank[x]
         \/ /\ BinarySearch(h, x) \in 0 .. h.len - 1
            /\ Rank[h.data[BinarySearch(h, x) + 1]] = Rank[x]
<1> DEFINE d == h.data
           n == h.len
           D == (0 .. n) \X (-1 .. n - 1)
           v(i) == Rank[d[i + 1]] - Rank[x]
           mid(w) == w[1] + (w[2] - w[1]) \div 2
           size(w) == w[2] - w[1] + 1
           body(f, w) == IF w[1] > w[2] THEN -1
                         ELSE IF v(mid(w)) = 0 THEN mid(w)
                         ELSE IF v(mid(w)) < 0 THEN f[<<mid(w) + 1, w[2]>>]
                         ELSE f[<<w[1], mid(w) - 1>>]
           R(f) == f = [w \in D |-> body(f, w)]
           find == CHOOSE f : R(f)
<1>1. n \in Nat /\ \A i \in 1 .. n : d[i] \in Elem
  BY HeaderType DEF Fits
<1>2. BinarySearch(h, x) = find[<<0, n - 1>>]
  BY DEF BinarySearch
<1>3. \A i \in 0 .. n - 1 : v(i) \in Int /\ (v(i) = 0 <=> Rank[d[i + 1]] = Rank[x])
  <2> SUFFICES ASSUME NEW i \in 0 .. n - 1
               PROVE  v(i) \in Int /\ (v(i) = 0 <=> Rank[d[i + 1]] = Rank[x])
    OBVIOUS
  <2>1. d[i + 1] \in Elem
    BY <1>1
  <2>2. Rank[d[i + 1]] \in Int /\ Rank[x] \in Int
    BY <2>1, RankAssumption
  <2>. QED
    BY <2>2
<1>4. \A i \in 0 .. n - 2 : v(i) <= v(i + 1)
  <2> SUFFICES ASSUME NEW i \in 0 .. n - 2 PROVE v(i) <= v(i + 1)
    OBVIOUS
  <2>1. i + 1 \in 1 .. n - 1 /\ i + 1 \in 1 .. n /\ (i + 1) + 1 \in 1 .. n
    BY <1>1
  <2>2. Rank[d[i + 1]] <= Rank[d[(i + 1) + 1]]
    BY <2>1
  <2>3. Rank[d[i + 1]] \in Int /\ Rank[d[(i + 1) + 1]] \in Int /\ Rank[x] \in Int
    BY <1>1, <2>1, RankAssumption
  <2>. QED
    BY <2>2, <2>3
<1>. HIDE DEF v, d, n
<1>5. ASSUME NEW i \in 0 .. n - 1, NEW j \in 0 .. n - 1, i <= j PROVE v(i) <= v(j)
  <2> DEFINE T == {k \in Nat : i + k <= n - 1 => v(i) <= v(i + k)}
  <2>1. 0 \in T
    BY <1>3
  <2>2. ASSUME NEW k \in T PROVE k + 1 \in T
    <3> SUFFICES ASSUME i + (k + 1) <= n - 1 PROVE v(i) <= v(i + (k + 1))
      OBVIOUS
    <3>1. i + k \in 0 .. n - 2 /\ i + k \in 0 .. n - 1 /\ i + (k + 1) = (i + k) + 1
          /\ (i + k) + 1 \in 0 .. n - 1 /\ i + k <= n - 1
      BY <1>1
    <3>2. v(i) <= v(i + k) /\ v(i + k) <= v((i + k) + 1)
      BY <1>4, <3>1
    <3>3. v(i) \in Int /\ v(i + k) \in Int /\ v((i + k) + 1) \in Int
      BY <1>3, <3>1
    <3>. QED
      BY <3>1, <3>2, <3>3
  <2>3. T \in SUBSET Nat
    OBVIOUS
  <2>. HIDE DEF T
  <2>4. \A k \in Nat : k \in T
    BY <2>1, <2>2, <2>3, Upwards
  <2>5. j - i \in Nat /\ i + (j - i) = j /\ j <= n - 1
    BY <1>1, <1>5
  <2>6. j - i \in T
    BY <2>4, <2>5
  <2>. QED
    BY <2>5, <2>6 DEF T
<1>6. ASSUME NEW w \in D, w[1] <= w[2]
      PROVE  /\ mid(w) \in w[1] .. w[2] /\ mid(w) \in 0 .. n - 1
             /\ <<mid(w) + 1, w[2]>> \in D /\ <<w[1], mid(w) - 1>> \in D
             /\ size(<<mid(w) + 1, w[2]>>) < size(w)
             /\ size(<<w[1], mid(w) - 1>>) < size(w)
  <2>1. w[1] \in 0 .. n /\ w[2] \in -1 .. n - 1
    OBVIOUS
  <2>2. mid(w) \in Int /\ w[1] <= mid(w) /\ mid(w) <= w[2]
    BY <1>1, <1>6, <2>1
  <2>. HIDE DEF mid
  <2>. QED
    BY <1>1, <1>6, <2>1, <2>2
<1>7. \A w \in D : w[1] \in Int /\ w[2] \in Int /\ size(w) \in Int /\ size(w) <= n
                   /\ (size(w) <= 0 => w[1] > w[2])
  BY <1>1
<1>. HIDE DEF mid, D, size
<1> DEFINE Good(f, m) == /\ f \in [D -> -1 .. n - 1]
                         /\ \A w \in D : size(w) <= m => f[w] = body(f, w)
           T == {m \in Nat : \E f : Good(f, m)}
<1>8. ASSUME NEW f \in [D -> -1 .. n - 1], NEW w \in D PROVE body(f, w) \in -1 .. n - 1
  <2>1. CASE w[1] > w[2]
    BY <1>1, <2>1
  <2>2. CASE w[1] <= w[2]
    <3> DEFINE c == mid(w)
               a == <<c + 1, w[2]>>
               b == <<w[1], c - 1>>
    <3>1. c \in 0 .. n - 1 /\ a \in D /\ b \in D
      BY <1>6, <2>2
    <3>. HIDE DEF a, b, c
    <3>2. c \in -1 .. n - 1 /\ f[a] \in -1 .. n - 1 /\ f[b] \in -1 .. n - 1
      BY <1>1, <3>1
    <3>3. ~(w[1] > w[2])
      BY <1>7, <2>2
    <3>4. body(f, w) = IF v(c) = 0 THEN c ELSE IF v(c) < 0 THEN f[a] ELSE f[b]
      BY <3>3 DEF a, b, c
    <3>. QED
      BY <3>2, <3>4
  <2>. QED
    BY <1>7, <2>1, <2>2
<1>9. 0 \in T
  <2> DEFINE f == [w \in D |-> -1]
  <2>1. f \in [D -> -1 .. n - 1]
    BY <1>1
  <2>2. \A w \in D : size(w) <= 0 => f[w] = body(f, w)
    BY <1>7
  <2>. HIDE DEF f, body
  <2>. QED
    BY <2>1, <2>2
<1>10. ASSUME NEW m \in T PROVE m + 1 \in T
  <2>1. PICK f : Good(f, m)
    OBVIOUS
  <2> DEFINE g == [w \in D |-> body(f, w)]
  <2>2. g \in [D -> -1 .. n - 1]
    <3>. HIDE DEF body
    <3>. QED
      BY <1>8, <2>1
  <2>3. \A w \in D : g[w] = body(f, w)
    OBVIOUS
  <2>. HIDE DEF g
  <2>4. ASSUME NEW w \in D, size(w) <= m + 1 PROVE g[w] = body(g, w)
    <3>1. CASE w[1] > w[2]
      BY <2>3, <3>1
    <3>2. CASE w[1] <= w[2]
      <4> DEFINE a == <<mid(w) + 1, w[2]>>
                 b == <<w[1], mid(w) - 1>>
      <4>1. a \in D /\ b \in D /\ size(a) <= m /\ size(b) <= m
        <5>1. a \in D /\ b \in D /\ size(a) < size(w) /\ size(b) < size(w)
          BY <1>6, <3>2
        <5>. HIDE DEF a, b
        <5>. QED
          BY <1>7, <2>4, <5>1
      <4>2. g[a] = f[a] /\ g[b] = f[b]
        <5>. HIDE DEF a, b, body
        <5>. QED
          BY <2>1, <2>3, <4>1
      <4>. QED
        BY <2>3, <4>2
    <3>. QED
      BY <1>7, <3>1, <3>2
  <2>5. Good(g, m + 1)
    <3>. HIDE DEF body
    <3>. QED
      BY <2>2, <2>4
  <2>. QED
    BY <2>5
<1>11. PICK f : Good(f, n)
  <2>1. T \in SUBSET Nat
    OBVIOUS
  <2>. HIDE DEF T
  <2>2. n \in T
    BY <1>1, <1>9, <1>10, <2>1, Upwards
  <2>. QED
    BY <2>2 DEF T
<1>12. R(f)
  <2>1. \A w \in D : f[w] = body(f, w)
    <3>. HIDE DEF body
    <3>. QED
      BY <1>7, <1>11
  <2>2. f = [w \in D |-> f[w]]
    BY <1>11
  <2>. HIDE DEF body
  <2>. QED
    BY <2>1, <2>2, Zenon
<1>13. R(find)
  <2>. HIDE DEF R
  <2>. QED
    BY <1>12
<1>. HIDE DEF find
<1>14. \A w \in D : find[w] = body(find, w)
  <2>. HIDE DEF body
  <2>1. find = [w \in D |-> body(find, w)]
    BY <1>13
  <2>. QED
    BY <2>1
<1> DEFINE Right(w, r) == \/ r = -1 /\ \A i \in w[1] .. w[2] : v(i) # 0
                          \/ r \in w[1] .. w[2] /\ v(r) = 0
           U == {m \in Nat : \A w \in D : size(w) <= m => Right(w, find[w])}
<1>15. 0 \in U
  <2> SUFFICES ASSUME NEW w \in D, size(w) <= 0 PROVE Right(w, find[w])
    OBVIOUS
  <2>1. w[1] > w[2] /\ w[1] \in Int /\ w[2] \in Int
    BY <1>7
  <2>2. find[w] = -1
    BY <1>14, <2>1
  <2>. QED
    BY <2>1, <2>2
<1>16. ASSUME NEW m \in U PROVE m + 1 \in U
  <2> SUFFICES ASSUME NEW w \in D, size(w) <= m + 1 PROVE Right(w, find[w])
    OBVIOUS
  <2>0. w[1] \in Int /\ w[2] \in Int /\ size(w) \in Int
    BY <1>7
  <2>1. CASE w[1] > w[2]
    <3>1. find[w] = -1
      BY <1>14, <2>1
    <3>. QED
      BY <2>0, <2>1, <3>1
  <2>2. CASE w[1] <= w[2]
    <3> DEFINE c == mid(w)
               a == <<c + 1, w[2]>>
               b == <<w[1], c - 1>>
    <3>1. /\ c \in w[1] .. w[2] /\ c \in 0 .. n - 1
          /\ a \in D /\ b \in D /\ size(a) < size(w) /\ size(b) < size(w)
      BY <1>6, <2>2
    <3>2. size(a) \in Int /\ size(b) \in Int
      <4>. HIDE DEF a, b
      <4>. QED
        BY <1>7, <3>1
    <3>3. Right(a, find[a]) /\ Right(b, find[b])
      <4>. HIDE DEF a, b, Right
      <4>. QED
        BY <2>0, <3>1, <3>2
    <3>4. find[w] = IF v(c) = 0 THEN c ELSE IF v(c) < 0 THEN find[a] ELSE find[b]
      BY <1>14, <2>0, <2>2
    <3>5. \A i \in w[1] .. w[2] : i \in 0 .. n - 1 /\ v(i) \in Int
      <4>1. w[1] \in 0 .. n /\ w[2] \in -1 .. n - 1
        BY DEF D
      <4>2. \A i \in w[1] .. w[2] : i \in 0 .. n - 1
        BY <1>1, <4>1
      <4>. QED
        BY <1>3, <4>2
    <3>6. v(c) \in Int /\ c \in Int
      BY <1>1, <3>1, <3>5
    <3>. HIDE DEF c
    <3>7. CASE v(c) = 0
      BY <3>1, <3>4, <3>7
    <3>8. CASE v(c) < 0
      <4>1. \A i \in w[1] .. c : v(i) < 0
        <5> SUFFICES ASSUME NEW i \in w[1] .. c PROVE v(i) < 0
          OBVIOUS
        <5>1. i \in w[1] .. w[2] /\ i <= c
          BY <2>0, <3>1, <3>6
        <5>2. v(i) <= v(c) /\ v(i) \in Int
          BY <1>5, <3>1, <3>5, <5>1
        <5>. QED
          BY <3>6, <3>8, <5>2
      <4>2. find[w] = find[a] /\ a[1] = c + 1 /\ a[2] = w[2]
        BY <3>4, <3>6, <3>8
      <4>3. \/ find[a] = -1 /\ \A i \in c + 1 .. w[2] : v(i) # 0
            \/ find[a] \in c + 1 .. w[2] /\ v(find[a]) = 0
        BY <3>3, <4>2
      <4>. HIDE DEF a
      <4>4. CASE find[a] = -1 /\ \A i \in c + 1 .. w[2] : v(i) # 0
        <5>1. \A i \in w[1] .. w[2] : i \in w[1] .. c \/ i \in c + 1 .. w[2]
          BY <2>0, <3>1, <3>6
        <5>2. \A i \in w[1] .. w[2] : v(i) # 0
          BY <3>5, <4>1, <4>4, <5>1
        <5>. QED
          BY <4>2, <4>4, <5>2
      <4>5. CASE find[a] \in c + 1 .. w[2] /\ v(find[a]) = 0
        <5>1. find[a] \in w[1] .. w[2]
          BY <2>0, <3>1, <3>6, <4>5
        <5>. QED
          BY <4>2, <4>5, <5>1
      <4>. QED
        BY <4>3, <4>4, <4>5
    <3>9. CASE v(c) > 0
      <4>1. \A i \in c .. w[2] : v(i) > 0
        <5> SUFFICES ASSUME NEW i \in c .. w[2] PROVE v(i) > 0
          OBVIOUS
        <5>1. i \in w[1] .. w[2] /\ c <= i
          BY <2>0, <3>1, <3>6
        <5>2. v(c) <= v(i) /\ v(i) \in Int
          BY <1>5, <3>1, <3>5, <5>1
        <5>. QED
          BY <3>6, <3>9, <5>2
      <4>2. find[w] = find[b] /\ b[1] = w[1] /\ b[2] = c - 1
        BY <3>4, <3>6, <3>9
      <4>3. \/ find[b] = -1 /\ \A i \in w[1] .. c - 1 : v(i) # 0
            \/ find[b] \in w[1] .. c - 1 /\ v(find[b]) = 0
        BY <3>3, <4>2
      <4>. HIDE DEF b
      <4>4. CASE find[b] = -1 /\ \A i \in w[1] .. c - 1 : v(i) # 0
        <5>1. \A i \in w[1] .. w[2] : i \in c .. w[2] \/ i \in w[1] .. c - 1
          BY <2>0, <3>1, <3>6
        <5>2. \A i \in w[1] .. w[2] : v(i) # 0
          BY <3>5, <4>1, <4>4, <5>1
        <5>. QED
          BY <4>2, <4>4, <5>2
      <4>5. CASE find[b] \in w[1] .. c - 1 /\ v(find[b]) = 0
        <5>1. find[b] \in w[1] .. w[2]
          BY <2>0, <3>1, <3>6, <4>5
        <5>. QED
          BY <4>2, <4>5, <5>1
      <4>. QED
        BY <4>3, <4>4, <4>5
    <3>. QED
      BY <3>6, <3>7, <3>8, <3>9
  <2>. QED
    BY <2>0, <2>1, <2>2
<1> DEFINE all == <<0, n - 1>>
<1>17. all \in D /\ all[1] = 0 /\ all[2] = n - 1
  BY <1>1 DEF D
<1>18. Right(all, find[all])
  <2>1. U \in SUBSET Nat
    OBVIOUS
  <2>. HIDE DEF U, all
  <2>2. n \in U
    BY <1>1, <1>15, <1>16, <2>1, Upwards
  <2>. QED
    BY <1>7, <1>17, <2>2 DEF U
<1>19. \/ find[all] = -1 /\ \A i \in 0 .. n - 1 : v(i) # 0
       \/ find[all] \in 0 .. n - 1 /\ v(find[all]) = 0
  <2>. HIDE DEF all
  <2>. QED
    BY <1>17, <1>18
<1>. HIDE DEF all
<1>20. BinarySearch(h, x) = find[all]
  BY <1>2 DEF all
<1>21. CASE find[all] = -1 /\ \A i \in 0 .. n - 1 : v(i) # 0
  <2>1. ASSUME NEW i \in 1 .. n PROVE Rank[d[i]] # Rank[x]
    <3>1. i - 1 \in 0 .. n - 1 /\ (i - 1) + 1 = i
      BY <1>1
    <3>. QED
      BY <1>3, <1>21, <3>1
  <2>. QED
    BY <1>20, <1>21, <2>1 DEF d, n
<1>22. CASE find[all] \in 0 .. n - 1 /\ v(find[all]) = 0
  <2>1. Rank[d[find[all] + 1]] = Rank[x]
    BY <1>3, <1>22
  <2>. QED
    BY <1>20, <1>22, <2>1 DEF d, n
<1>. QED
  BY <1>19, <1>21, <1>22

\* binary_search of an ascending list answers -1 if and only if no element has
\* the rank asked for, and else the place of one that has: for every list.
THEOREM SearchAlwaysFinds == Spec => []SearchFinds
<1>1. ASSUME Inv, NEW o \in Obj, kind[o] = "list", NEW x \in Elem,
             \A i \in 1 .. Len(Items(o)) - 1 : Rank[Items(o)[i]] <= Rank[Items(o)[i + 1]]
      PROVE  LET at == {i - 1 : i \in {j \in DOMAIN Items(o) : Rank[Items(o)[j]] = Rank[x]}}
                 found == BinarySearch(store[o], x)
             IN  IF at = {} THEN found = -1 ELSE found \in at
  <2> DEFINE h == store[o]
             s == Items(o)
             n == h.len
             hits == {j \in DOMAIN s : Rank[s[j]] = Rank[x]}
             at == {i - 1 : i \in hits}
             found == BinarySearch(h, x)
  <2>1. h \in Header /\ Fits(h) /\ h.head = 0 /\ n \in Nat
    BY <1>1, HeaderType DEF Inv, Sound
  <2>2. s = ItemsOf(h)
    BY DEF Items, ItemsOf
  <2>3. s \in Seq(Elem) /\ Len(s) = n /\ \A i \in 1 .. n : s[i] = h.data[i]
    <3>1. s \in Seq(Elem) /\ Len(s) = n /\ \A i \in 1 .. n : s[i] = h.data[0 + i]
      BY <2>1, <2>2, ItemsFacts
    <3>. QED
      BY <3>1
  <2>4. \A i \in 1 .. n - 1 : Rank[h.data[i]] <= Rank[h.data[i + 1]]
    <3> SUFFICES ASSUME NEW i \in 1 .. n - 1
                 PROVE  Rank[h.data[i]] <= Rank[h.data[i + 1]]
      OBVIOUS
    <3>1. i \in 1 .. n /\ i + 1 \in 1 .. n /\ i \in 1 .. Len(s) - 1
      BY <2>1, <2>3
    <3>. QED
      BY <1>1, <2>3, <3>1
  <2>. HIDE DEF h, s, found
  <2>5. \/ found = -1 /\ \A i \in 1 .. n : Rank[h.data[i]] # Rank[x]
        \/ found \in 0 .. n - 1 /\ Rank[h.data[found + 1]] = Rank[x]
    BY <2>1, <2>4, SearchFacts DEF found
  <2>6. CASE found = -1 /\ \A i \in 1 .. n : Rank[h.data[i]] # Rank[x]
    <3>1. hits = {}
      BY <2>3, <2>6
    <3>. QED
      BY <2>6, <3>1 DEF h, s, found
  <2>7. CASE found \in 0 .. n - 1 /\ Rank[h.data[found + 1]] = Rank[x]
    <3>1. found + 1 \in 1 .. n /\ (found + 1) - 1 = found
      BY <2>1, <2>7
    <3>2. found + 1 \in hits
      BY <2>3, <2>7, <3>1
    <3>. HIDE DEF hits
    <3>3. found \in at
      BY <3>1, <3>2
    <3>. QED
      BY <3>3 DEF h, s, found, hits
  <2>. QED
    BY <2>5, <2>6, <2>7
<1>2. Inv => SearchFinds
  BY <1>1 DEF SearchFinds
<1>. QED
  BY <1>2, Invariance, PTL
=============================================================================
