---------------------------- MODULE GcHeap_proofs ----------------------------
(***************************************************************************)
(* The collector keeps what the program can reach and takes the rest, for  *)
(* every set of addresses, sizes, descriptors, locals and global slots.    *)
(*                                                                         *)
(* MarkInvariant is about the heap as it is now; that it survives a sweep  *)
(* step, which changes the heap, needs to know that chunks do not overlap: *)
(* otherwise freeing one block could uncover another under the same        *)
(* pointer.  HeapOK says so, and IInv adds it.                             *)
(***************************************************************************)
EXTENDS GcHeap, TLAPS

\* libc's side of the bargain: chunks stay inside the arena and apart.
HeapOK ==
    \A a \in Addr :
        /\ Footprint(a) \subseteq Addr
        /\ \A b \in Addr : a # b => Footprint(a) \cap Footprint(b) = {}

IInv == TypeOK /\ HeapOK /\ PinnedIsLive /\ MarkInvariant

-----------------------------------------------------------------------------
(* The operators of TurfHeap.                                              *)

\* Addresses and the values words hold can be compared and counted.
LEMMA ValuesAreNumbers == Addr \subseteq Nat /\ Value \subseteq Nat
<1>1. Addr \subseteq Nat
  BY AddrAssumption
<1>2. ASSUME NEW v \in Value PROVE v \in Nat
  <2>1. CASE v \in Addr
    BY <1>1, <2>1
  <2>2. CASE v = 0
    BY <2>2
  <2> QED
    BY <2>1, <2>2 DEF Value, Null
<1> QED
  BY <1>1, <1>2

\* A chunk's words are among those libc set aside for it, and a chunk's own
\* address is one of these.
LEMMA WordsInFootprint ==
    ASSUME HeapTypeOK, NEW a \in Addr, heap[a].owner # "none"
    PROVE  Words(a) \subseteq Footprint(a) /\ a \in Footprint(a)
<1>1. a \in Nat /\ heap[a] \in Chunk
  BY ValuesAreNumbers DEF HeapTypeOK
<1>2. heap[a].size \in Nat
  BY <1>1 DEF Chunk
<1>3. CASE heap[a].size = 0
  BY <1>1, <1>2, <1>3 DEF Words, Footprint, Span
<1>4. CASE heap[a].size # 0
  BY <1>1, <1>2, <1>4 DEF Words, Footprint, Span
<1> QED
  BY <1>3, <1>4

Membership ==
    \A v \in Value : Containing(v) = {b \in GcStarts : v \in Words(b)}

\* gc_find_containing's "last start not after the address, then a bounds
\* check" finds exactly the block whose words the address is among.
LEMMA ContainingIsMembership == HeapTypeOK /\ HeapOK => Membership
<1> SUFFICES ASSUME HeapTypeOK, HeapOK, NEW v \in Value
             PROVE  Containing(v) = {b \in GcStarts : v \in Words(b)}
  BY DEF Membership
<1>1. GcStarts \subseteq Addr /\ v \in Nat
  BY ValuesAreNumbers DEF GcStarts
<1>2. \A b \in GcStarts : b \in Nat /\ heap[b].size \in Nat
  BY <1>1, ValuesAreNumbers DEF HeapTypeOK, Chunk
<1>3. ASSUME NEW b \in GcStarts, NEW c \in GcStarts, v \in Words(b), c <= v
      PROVE  c <= b
  <2>1. SUFFICES ASSUME b < c PROVE FALSE
    BY <1>2
  <2>2. c \in Words(b)
    BY <1>1, <1>2, <1>3, <2>1 DEF Words
  <2>3. c \in Footprint(b) /\ c \in Footprint(c)
    BY <1>1, <2>2, WordsInFootprint DEF GcStarts
  <2>4. b # c
    BY <1>2, <2>1
  <2> QED
    BY <1>1, <2>3, <2>4 DEF HeapOK
<1>4. \A b \in GcStarts : v \in Words(b) <=> b <= v /\ v < b + heap[b].size
  BY <1>1, <1>2 DEF Words
<1> QED
  BY <1>3, <1>4 DEF Containing

\* gc_find_containing returns registered blocks only, so the roots' blocks and
\* whatever is traced from them are registered too.
LEMMA ReferentsAreBlocks ==
    /\ \A v : Containing(v) \subseteq GcStarts
    /\ \A b : Referents(b) \subseteq GcStarts
    /\ RootBlocks \subseteq GcStarts
    /\ Reachable \subseteq GcStarts
BY DEF Containing, Referents, RootBlocks, Reachable

\* A closed set of blocks leaves no reachable block out; in particular the set
\* the collector marks does not.
LEMMA ClosedCoversReachable ==
    ASSUME NEW S \in SUBSET GcStarts, Closed(S)
    PROVE  Reachable \subseteq S
BY DEF Reachable

\* The roots' blocks are reachable, and so is what a reachable block refers to.
LEMMA ReachableIsClosed == Closed(Reachable)
<1>1. RootBlocks \subseteq Reachable
  BY ReferentsAreBlocks DEF Reachable, Closed
<1>2. ASSUME NEW b \in Reachable PROVE Referents(b) \subseteq Reachable
  <2>1. \A S \in SUBSET GcStarts : Closed(S) => Referents(b) \subseteq S
    BY ClosedCoversReachable DEF Closed
  <2> QED
    BY <2>1, ReferentsAreBlocks DEF Reachable
<1> QED
  BY <1>1, <1>2 DEF Closed

\* What is reachable depends on the program's memory only.
LEMMA SameHeap ==
    ASSUME UNCHANGED heapVars
    PROVE  /\ GcStarts' = GcStarts
           /\ RootBlocks' = RootBlocks
           /\ \A b : Referents(b)' = Referents(b)
           /\ Reachable' = Reachable
           /\ PinnedIsLive' = PinnedIsLive
           /\ HeapOK' = HeapOK
           /\ HeapTypeOK' = HeapTypeOK
<1> USE DEF heapVars
<1>1. GcStarts' = GcStarts
  BY DEF GcStarts
<1>2. \A v : Containing(v)' = Containing(v)
  BY <1>1 DEF Containing
<1>3. RootValues' = RootValues
  BY DEF RootValues
<1>4. RootBlocks' = RootBlocks
  BY <1>2, <1>3 DEF RootBlocks
<1>5. \A b : TracedWords(b)' = TracedWords(b)
  BY DEF TracedWords, Words
<1>6. \A b : Referents(b)' = Referents(b)
  BY <1>2, <1>5 DEF Referents
<1>7. \A S : Closed(S)' = Closed(S)
  BY <1>4, <1>6 DEF Closed
<1>8. Reachable' = Reachable
  BY <1>1, <1>7 DEF Reachable
<1>9. PinnedIsLive' = PinnedIsLive
  BY <1>1 DEF PinnedIsLive
<1>10. HeapOK' = HeapOK
  BY DEF HeapOK, Footprint, Span
<1>11. HeapTypeOK' = HeapTypeOK
  BY DEF HeapTypeOK
<1> QED
  BY <1>1, <1>4, <1>6, <1>8, <1>9, <1>10, <1>11
-----------------------------------------------------------------------------
(* What the program's calls do to the chunks, the types and the pins.       *)

\* What every call of the runtime keeps.
Layout == HeapTypeOK /\ HeapOK /\ PinnedIsLive

\* Chunks stay apart when some go away and one is put where libc has room.
LEMMA PlacingKeepsApart ==
    ASSUME HeapTypeOK, HeapOK,
           NEW p \in Addr, NEW n \in Nat, NEW Gone \in SUBSET Addr,
           CanPlace(p, n, Gone), heap'[p].size = n,
           \A a \in Addr \ {p} :
               heap'[a] = heap[a] \/ heap'[a].owner = "none",
           \A a \in Gone \ {p} : heap'[a].owner = "none"
    PROVE  HeapOK'
<1>1. ASSUME NEW a \in Addr, a # p
      PROVE  /\ Footprint(a)' = Footprint(a) \/ Footprint(a)' = {}
             /\ Footprint(a)' \cap Span(p, n) = {}
  <2>1. Footprint(a)' = Footprint(a) \/ Footprint(a)' = {}
    BY <1>1 DEF Footprint
  <2>2. CASE a \in Gone
    BY <1>1, <2>2 DEF Footprint
  <2>3. CASE a \notin Gone
    BY <2>1, <2>3 DEF CanPlace
  <2> QED
    BY <2>1, <2>2, <2>3
<1>2. Footprint(p)' \subseteq Span(p, n) /\ Span(p, n) \subseteq Addr
  BY DEF Footprint, CanPlace, Span
<1>3. \A a \in Addr : Footprint(a)' \subseteq Addr
  BY <1>1, <1>2 DEF HeapOK
<1>4. ASSUME NEW a \in Addr, NEW b \in Addr, a # b
      PROVE  Footprint(a)' \cap Footprint(b)' = {}
  <2>1. CASE a = p
    BY <1>1, <1>2, <1>4, <2>1
  <2>2. CASE b = p
    BY <1>1, <1>2, <1>4, <2>2
  <2>3. CASE a # p /\ b # p
    BY <1>1, <1>4, <2>3 DEF HeapOK
  <2> QED
    BY <2>1, <2>2, <2>3
<1> QED
  BY <1>3, <1>4 DEF HeapOK

\* Chunks stay apart when some go away.
LEMMA FreeingKeepsApart ==
    ASSUME HeapOK,
           \A a \in Addr : heap'[a] = heap[a] \/ heap'[a].owner = "none"
    PROVE  HeapOK'
<1>1. \A a \in Addr : Footprint(a)' = Footprint(a) \/ Footprint(a)' = {}
  BY DEF Footprint
<1> QED
  BY <1>1 DEF HeapOK

\* Where libc has room there is no block yet.
LEMMA PlacedIsFresh ==
    ASSUME HeapTypeOK, NEW p \in Addr, NEW n \in Nat, CanPlace(p, n, {})
    PROVE  heap[p].owner = "none"
<1>1. p \in Span(p, n)
  BY ValuesAreNumbers DEF Span
<1> QED
  BY <1>1, WordsInFootprint DEF CanPlace

\* What registration puts in the table, and what freeing leaves, is a chunk.
LEMMA ChunkTypes ==
    /\ NoChunk \in Chunk /\ NoChunk.owner = "none"
    /\ \A n \in Sizes, d \in Descs :
          [owner |-> "gc", size |-> n, desc |-> d] \in Chunk
    /\ \A n \in ManualSizes :
          [owner |-> "manual", size |-> n, desc |-> Opaque] \in Chunk
BY SizesAssumption, DescsAssumption DEF NoChunk, Chunk, Opaque, Desc

\* turf_rt_alloc keeps the layout: the new block is where libc had room, and no
\* pin of an earlier block is waiting at its address.
LEMMA AllocLayout ==
    ASSUME Layout, NEW l \in Local, NEW p \in Addr, NEW n \in Sizes,
           NEW d \in Descs, NEW fill \in [Span(p, n) -> Garbage \cup {Null}],
           Alloc(l, p, n, d, fill)
    PROVE  Layout'
<1> USE DEF Alloc
<1>1. n \in Nat /\ p \in Value
  BY SizesAssumption DEF Value
<1>2. heap[p].owner = "none"
  BY <1>1, PlacedIsFresh DEF Layout
<1>3. heap' \in [Addr -> Chunk]
  BY ChunkTypes DEF Layout, HeapTypeOK
<1>4. mem' \in [Addr -> Value]
  BY GarbageAssumption DEF Layout, HeapTypeOK, Value
<1>5. HeapTypeOK'
  BY <1>1, <1>3, <1>4 DEF Layout, HeapTypeOK
<1>6. HeapOK'
  <2>1. heap'[p].size = n /\ \A a \in Addr \ {p} : heap'[a] = heap[a]
    BY DEF Layout, HeapTypeOK
  <2> QED
    BY <1>1, <2>1, PlacingKeepsApart DEF Layout
<1>7. PinnedIsLive'
  <2>1. \A a \in Addr \ {p} : heap'[a] = heap[a]
    BY DEF Layout, HeapTypeOK
  <2>2. pins[p] = 0
    BY <1>2 DEF Layout, PinnedIsLive, GcStarts, HeapTypeOK
  <2> QED
    BY <2>1, <2>2 DEF Layout, PinnedIsLive, GcStarts, HeapTypeOK
<1> QED
  BY <1>5, <1>6, <1>7 DEF Layout

\* turf_rt_realloc keeps the layout, in place or moved: the pin is afterwards on
\* the block's new address and nowhere else.
LEMMA ReallocLayout ==
    ASSUME Layout, NEW l \in Local, NEW old \in Value, NEW p \in Addr,
           NEW n \in Sizes, NEW d \in Descs,
           NEW fill \in [Span(p, n) -> Garbage \cup {Null}],
           Realloc(l, old, p, n, d, fill)
    PROVE  Layout'
<1> USE DEF Realloc
<1>1. n \in Nat /\ n > 0 /\ p \in Value /\ old \in Addr
      /\ heap[old].owner # "none"
  BY SizesAssumption DEF Value, GcStarts, ManualStarts
<1>2. heap' \in [Addr -> Chunk]
  BY ChunkTypes DEF Layout, HeapTypeOK
<1>3. mem' \in [Addr -> Value]
  <2>1. Words(old) \subseteq Addr
    BY <1>1, WordsInFootprint DEF Layout, HeapOK
  <2>2. \A a \in Addr : mem[a] \in Value
    BY DEF Layout, HeapTypeOK
  <2>3. \A a \in Span(p, n) : fill[a] \in Value
    BY GarbageAssumption DEF Value
  <2>4. Null \in Value
    BY DEF Value
  <2> QED
    BY <2>1, <2>2, <2>3, <2>4
<1>4. pins' \in [Addr -> 0 .. MaxPin]
  BY <1>1, BoundsAssumption DEF Layout, HeapTypeOK
<1>5. HeapTypeOK'
  BY <1>1, <1>2, <1>3, <1>4 DEF Layout, HeapTypeOK
<1>6. heap'[p].size = n /\ heap'[p].owner = "gc"
      /\ \A a \in Addr \ {p} :
            heap'[a] = IF a = old THEN NoChunk ELSE heap[a]
  BY <1>1 DEF Layout, HeapTypeOK
<1>7. HeapOK'
  <2> HIDE DEF Realloc
  <2>1. ASSUME NEW a \in Addr \ {p}
        PROVE  heap'[a] = IF a = old THEN NoChunk ELSE heap[a]
    BY <1>6
  <2>2. \A a \in Addr \ {p} :
           heap'[a] = heap[a] \/ heap'[a].owner = "none"
    BY <2>1, ChunkTypes
  <2>3. \A a \in {old} \ {p} : heap'[a].owner = "none"
    BY <1>1, <2>1, ChunkTypes
  <2>4. {old} \in SUBSET Addr /\ CanPlace(p, n, {old})
    BY <1>1 DEF Realloc
  <2> QED
    BY <1>1, <1>6, <2>2, <2>3, <2>4, PlacingKeepsApart DEF Layout
<1>8. PinnedIsLive'
  <2>1. \A a \in Addr \ {p} : pins'[a] = IF a = old THEN 0 ELSE pins[a]
    BY <1>1 DEF Layout, HeapTypeOK
  <2>2. SUFFICES ASSUME NEW a \in Addr, pins'[a] > 0
                 PROVE  heap'[a].owner = "gc" /\ heap'[a].size > 0
    BY DEF PinnedIsLive, GcStarts
  <2>3. CASE a = p
    BY <1>1, <1>6, <2>3
  <2>4. CASE a # p /\ a # old
    BY <1>6, <2>1, <2>2, <2>4 DEF Layout, PinnedIsLive, GcStarts
  <2>5. CASE a # p /\ a = old
    BY <2>1, <2>2, <2>5
  <2> QED
    BY <2>3, <2>4, <2>5
<1> QED
  BY <1>5, <1>7, <1>8 DEF Layout

\* Chunks of the manual heap come and go beside the collected ones.
LEMMA ManualLayout ==
    ASSUME Layout, NEW l \in Local, NEW p \in Addr, NEW n \in ManualSizes,
           ManualAlloc(l, p, n)
    PROVE  Layout'
<1> USE DEF ManualAlloc
<1>1. n \in Nat /\ p \in Value
  BY SizesAssumption DEF Value
<1>2. heap[p].owner = "none"
  BY <1>1, PlacedIsFresh DEF Layout
<1>3. heap' \in [Addr -> Chunk]
  BY ChunkTypes DEF Layout, HeapTypeOK
<1>4. HeapTypeOK'
  BY <1>1, <1>3 DEF Layout, HeapTypeOK
<1>5. heap'[p].size = n /\ \A a \in Addr \ {p} : heap'[a] = heap[a]
  BY DEF Layout, HeapTypeOK
<1>6. HeapOK'
  BY <1>1, <1>5, PlacingKeepsApart DEF Layout
<1>7. PinnedIsLive'
  <2>1. pins[p] = 0
    BY <1>2 DEF Layout, PinnedIsLive, GcStarts, HeapTypeOK
  <2> QED
    BY <1>5, <2>1 DEF Layout, PinnedIsLive, GcStarts, HeapTypeOK
<1> QED
  BY <1>4, <1>6, <1>7 DEF Layout

\* Words given back to libc still hold values.
LEMMA WipedType ==
    ASSUME HeapTypeOK, NEW Gone PROVE Wiped(Gone) \in [Addr -> Value]
BY DEF HeapTypeOK, Wiped, Value

\* A panic changes nothing but the fact that it happened.
LEMMA PanicLayout ==
    ASSUME Layout, NEW kind \in PanicKind, Panic(kind) PROVE Layout'
BY DEF Panic, Layout, HeapTypeOK, HeapOK, Footprint, Span, PinnedIsLive, GcStarts

\* mem::free takes manual chunks only: no pin is on one.
LEMMA CheckedFreeLayout ==
    ASSUME Layout, NEW l \in Local, CheckedFree(l) PROVE Layout'
<1>1. CASE Panic("cross-heap free")
  BY <1>1, PanicLayout DEF PanicKind
<1>2. CASE /\ local[l] \in ManualStarts
           /\ heap' = [heap EXCEPT ![local[l]] = NoChunk]
           /\ mem' = Wiped({local[l]})
           /\ UNCHANGED <<local, global, roots, pins, panic>>
  <2>1. HeapTypeOK'
    BY <1>2, ChunkTypes, WipedType DEF Layout, HeapTypeOK
  <2>2. \A a \in Addr : heap'[a] = IF a = local[l] THEN NoChunk ELSE heap[a]
    BY <1>2 DEF Layout, HeapTypeOK
  <2>3. HeapOK'
    BY <2>2, FreeingKeepsApart DEF Layout, NoChunk
  <2>4. PinnedIsLive'
    BY <1>2, <2>2 DEF Layout, PinnedIsLive, GcStarts, ManualStarts
  <2> QED
    BY <2>1, <2>3, <2>4 DEF Layout
<1> QED
  BY <1>1, <1>2 DEF CheckedFree

\* turf_rt_pin puts a pin on a registered block with words in it, and
\* turf_rt_unpin takes a count down only where there is one.
LEMMA PinLayout ==
    ASSUME Layout, NEW l \in Local, Pin(l) \/ Unpin(l) PROVE Layout'
<1>1. PICK b \in Containing(local[l]) :
          \/ /\ pins[b] < MaxPin /\ pins' = [pins EXCEPT ![b] = @ + 1]
             /\ UNCHANGED <<heap, mem, local, global, roots, panic>>
          \/ Panic("unpin of unpinned object")
          \/ /\ pins[b] # 0 /\ pins' = [pins EXCEPT ![b] = @ - 1]
             /\ UNCHANGED <<heap, mem, local, global, roots, panic>>
  BY DEF Pin, Unpin
<1>2. b \in GcStarts /\ b \in Addr /\ b <= local[l] /\ local[l] < b + heap[b].size
  BY DEF Containing, GcStarts
<1>3. pins[b] \in 0 .. MaxPin
  BY <1>2 DEF Layout, HeapTypeOK
<1>4. heap[b].size > 0
  <2>1. b \in Nat /\ heap[b].size \in Nat /\ local[l] \in Nat
    BY <1>2, ValuesAreNumbers DEF Layout, HeapTypeOK, Chunk
  <2> QED
    BY <1>2, <2>1
<1>5. CASE Panic("unpin of unpinned object")
  BY <1>5, PanicLayout DEF PanicKind
<1>6. CASE /\ UNCHANGED <<heap, mem, local, global, roots, panic>>
           /\ \E k \in 0 .. MaxPin : pins' = [pins EXCEPT ![b] = k]
  <2>1. HeapTypeOK'
    BY <1>6 DEF Layout, HeapTypeOK
  <2>2. HeapOK'
    BY <1>6 DEF Layout, HeapOK, Footprint, Span
  <2>3. PinnedIsLive'
    BY <1>2, <1>4, <1>6 DEF Layout, HeapTypeOK, PinnedIsLive, GcStarts
  <2> QED
    BY <2>1, <2>2, <2>3 DEF Layout
<1>7. pins[b] < MaxPin => pins[b] + 1 \in 0 .. MaxPin
  BY <1>3, BoundsAssumption
<1>8. pins[b] # 0 => pins[b] - 1 \in 0 .. MaxPin
  BY <1>3, BoundsAssumption
<1> QED
  BY <1>1, <1>5, <1>6, <1>7, <1>8

\* Registering a global slot counts it up, unregistering it down, and neither
\* touches a block.
LEMMA RootsLayout ==
    ASSUME Layout, NEW g \in GlobalSlot, AddGlobalRoot(g) \/ RemoveGlobalRoot(g)
    PROVE  Layout'
<1>1. roots[g] \in 0 .. MaxReg
  BY DEF Layout, HeapTypeOK
<1>2. /\ UNCHANGED <<heap, mem, local, global, pins, panic>>
      /\ roots' \in [GlobalSlot -> 0 .. MaxReg]
  BY <1>1, BoundsAssumption
  DEF AddGlobalRoot, RemoveGlobalRoot, Layout, HeapTypeOK
<1> QED
  BY <1>2 DEF Layout, HeapTypeOK, HeapOK, Footprint, Span, PinnedIsLive, GcStarts

\* Every value the program can pick up is an address or null.
LEMMA VisibleValues ==
    ASSUME Layout, NEW l \in Local
    PROVE  Visible(l) \subseteq Value /\ PointerWords(l) \subseteq Addr
<1>1. \A b \in GcStarts \cup ManualStarts : Words(b) \subseteq Addr
  <2>1. SUFFICES ASSUME NEW b \in GcStarts \cup ManualStarts
                 PROVE  Words(b) \subseteq Addr
    OBVIOUS
  <2>2. b \in Addr /\ heap[b].owner # "none"
    BY DEF GcStarts, ManualStarts
  <2> QED
    BY <2>2, WordsInFootprint DEF Layout, HeapOK
<1>2. Containing(local[l]) \subseteq GcStarts
  BY ReferentsAreBlocks
<1>3. \A b : TracedWords(b) \subseteq Words(b)
  BY DEF TracedWords
<1>4. PointerWords(l) \subseteq Addr
  <2>1. SUFFICES ASSUME NEW a \in PointerWords(l) PROVE a \in Addr
    OBVIOUS
  <2>2. PICK b \in GcStarts \cup ManualStarts : a \in Words(b)
    <3> DEFINE M == {c \in ManualStarts : local[l] \in Words(c)}
    <3>1. \/ \E b \in Containing(local[l]) : a \in TracedWords(b)
          \/ \E b \in M : a \in Words(b)
      BY <2>1 DEF PointerWords
    <3>2. M \subseteq ManualStarts
      OBVIOUS
    <3> QED
      BY <1>2, <1>3, <3>1, <3>2
  <2> QED
    BY <1>1, <2>2
<1>5. \A a \in PointerWords(l) : mem[a] \in Value
  BY <1>4 DEF Layout, HeapTypeOK
<1>6. /\ \A k \in Local : local[k] \in Value
      /\ \A g \in GlobalSlot : global[g] \in Value
  BY DEF Layout, HeapTypeOK
<1>7. Visible(l) \subseteq Value
  BY <1>1, <1>2, <1>5, <1>6 DEF Visible, Value
<1> QED
  BY <1>4, <1>7

\* The program moving values about leaves the blocks and pins alone and writes
\* values only.
LEMMA MoveLayout ==
    ASSUME Layout, Move PROVE Layout'
<1>1. /\ UNCHANGED <<heap, roots, pins, panic>>
      /\ mem' \in [Addr -> Value]
      /\ local' \in [Local -> Value]
      /\ global' \in [GlobalSlot -> Value]
  <2>1. PICK l \in Local :
            \/ \E v \in Visible(l) : SetLocal(l, v)
            \/ \E a \in PointerWords(l), v \in Visible(l) : SetWord(a, v)
            \/ \E g \in GlobalSlot : SetGlobal(g, local[l])
    BY DEF Move
  <2>2. CASE \E v \in Visible(l) : SetLocal(l, v)
    BY <2>2, VisibleValues DEF SetLocal, Layout, HeapTypeOK
  <2>3. CASE \E a \in PointerWords(l), v \in Visible(l) : SetWord(a, v)
    BY <2>3, VisibleValues DEF SetWord, Layout, HeapTypeOK
  <2>4. CASE \E g \in GlobalSlot : SetGlobal(g, local[l])
    BY <2>4 DEF SetGlobal, Layout, HeapTypeOK
  <2> QED
    BY <2>1, <2>2, <2>3, <2>4
<1> QED
  BY <1>1 DEF Layout, HeapTypeOK, HeapOK, Footprint, Span, PinnedIsLive, GcStarts

\* The calls after which a collection may start keep the layout and return.
LEMMA AllocateLayout ==
    ASSUME Layout, Allocate PROVE Layout' /\ panic' = panic
<1>0. PICK l \in Local, p \in Addr, n \in Sizes, d \in Descs :
          \E fill \in [Span(p, n) -> Garbage \cup {Null}] :
              Alloc(l, p, n, d, fill) \/ Realloc(l, local[l], p, n, d, fill)
  BY DEF Allocate
<1>1. PICK fill \in [Span(p, n) -> Garbage \cup {Null}] :
              Alloc(l, p, n, d, fill) \/ Realloc(l, local[l], p, n, d, fill)
  BY <1>0
<1>2. local[l] \in Value
  BY DEF Layout, HeapTypeOK
<1>3. panic' = panic
  BY <1>1 DEF Alloc, Realloc
<1> QED
  BY <1>1, <1>2, <1>3, AllocLayout, ReallocLayout

\* So does everything else the program does, if only by panicking.
LEMMA OtherLayout ==
    ASSUME Layout, Other PROVE Layout'
<1>1. CASE OutOfMemory
  BY <1>1, PanicLayout DEF OutOfMemory, PanicKind
<1>2. CASE \E l \in Local, p \in Addr, n \in ManualSizes : ManualAlloc(l, p, n)
  BY <1>2, ManualLayout
<1>3. CASE \E l \in Local : CheckedFree(l) \/ Pin(l) \/ Unpin(l)
  BY <1>3, CheckedFreeLayout, PinLayout
<1>4. CASE \E g \in GlobalSlot : AddGlobalRoot(g) \/ RemoveGlobalRoot(g)
  BY <1>4, RootsLayout
<1>5. CASE Move
  BY <1>5, MoveLayout
<1> QED
  BY <1>1, <1>2, <1>3, <1>4, <1>5 DEF Other
-----------------------------------------------------------------------------
(* The collector.                                                           *)

\* The pinned blocks are among the roots'.
LEMMA PinnedIsRoot ==
    ASSUME Layout, NEW a \in Addr, pins[a] > 0 PROVE a \in RootBlocks
<1>1. a \in GcStarts /\ heap[a].size > 0 /\ heap[a].size \in Nat /\ a \in Nat
  BY ValuesAreNumbers DEF Layout, PinnedIsLive, HeapTypeOK, Chunk
<1>2. a \in Containing(a)
  BY <1>1 DEF Containing
<1>3. a \in RootValues
  BY DEF RootValues
<1> QED
  BY <1>2, <1>3 DEF RootBlocks

\* What the roots and the words of live chunks hold is a value.
LEMMA ScannedValues ==
    ASSUME Layout
    PROVE  /\ RootValues \subseteq Value
           /\ \A b \in GcStarts : \A a \in TracedWords(b) :
                 a \in Footprint(b) /\ a \in Addr /\ mem[a] \in Value
<1>1. RootValues \subseteq Value
  BY DEF RootValues, Layout, HeapTypeOK, Value
<1>2. ASSUME NEW b \in GcStarts, NEW a \in TracedWords(b)
      PROVE  a \in Footprint(b) /\ a \in Addr /\ mem[a] \in Value
  <2>1. b \in Addr /\ heap[b].owner # "none" /\ a \in Words(b)
    BY DEF GcStarts, TracedWords
  <2>2. a \in Footprint(b) /\ a \in Addr
    BY <2>1, WordsInFootprint DEF Layout, HeapOK
  <2> QED
    BY <2>2 DEF Layout, HeapTypeOK
<1> QED
  BY <1>1, <1>2

\* Freeing one unmarked block, when the marked ones are closed, changes
\* neither the roots' blocks nor what the marked blocks refer to.
LEMMA FreeUnmarked ==
    ASSUME Layout, Layout', marked \subseteq GcStarts, Closed(marked),
           NEW f \in GcStarts \ marked,
           heap' = [heap EXCEPT ![f] = NoChunk],
           mem' = Wiped({f}),
           UNCHANGED <<local, global, roots, pins, panic>>
    PROVE  /\ GcStarts' = GcStarts \ {f}
           /\ RootBlocks' = RootBlocks
           /\ \A b \in marked : Referents(b)' = Referents(b)
<1>1. \A a \in Addr : heap'[a] = IF a = f THEN NoChunk ELSE heap[a]
  BY DEF Layout, HeapTypeOK
<1>2. GcStarts' = GcStarts \ {f}
  BY <1>1, ChunkTypes DEF GcStarts
<1>3. ASSUME NEW b \in GcStarts \ {f} PROVE Words(b)' = Words(b)
  BY <1>1 DEF Words, GcStarts
<1>4. ASSUME NEW v \in Value PROVE Containing(v)' = Containing(v) \ {f}
  <2>1. Containing(v) = {b \in GcStarts : v \in Words(b)}
    BY ContainingIsMembership DEF Layout, Membership
  <2>2. Containing(v)' = {b \in GcStarts' : v \in Words(b)'}
    <3>1. HeapTypeOK' /\ HeapOK'
      BY DEF Layout
    <3>2. (HeapTypeOK /\ HeapOK => Membership)'
      BY ContainingIsMembership, PTL
    <3> QED
      BY <3>1, <3>2 DEF Membership
  <2> QED
    BY <1>2, <1>3, <2>1, <2>2
<1>5. RootBlocks' = RootBlocks
  <2>1. RootValues' = RootValues /\ RootValues \subseteq Value
    BY ScannedValues DEF RootValues
  <2>2. \A v \in RootValues : f \notin Containing(v)
    BY DEF Closed, RootBlocks
  <2>3. \A v \in RootValues : Containing(v)' = Containing(v)
    BY <1>4, <2>1, <2>2
  <2> QED
    BY <2>1, <2>3 DEF RootBlocks
<1>6. ASSUME NEW b \in marked PROVE Referents(b)' = Referents(b)
  <2>1. b \in GcStarts /\ b # f /\ b \in Addr /\ f \in Addr
    BY DEF GcStarts
  <2>2. TracedWords(b)' = TracedWords(b)
    BY <1>1, <1>3, <2>1 DEF TracedWords
  <2>3. ASSUME NEW a \in TracedWords(b) PROVE Containing(mem[a])' = Containing(mem[a])
    <3>1. a \in Footprint(b) /\ a \in Addr /\ mem[a] \in Value
      BY <2>1, ScannedValues
    <3>2. a \notin Footprint(f)
      BY <2>1, <3>1 DEF Layout, HeapOK
    <3>3. mem'[a] = mem[a]
      BY <3>1, <3>2 DEF Wiped
    <3>4. f \notin Containing(mem[a])
      BY DEF Closed, Referents
    <3> QED
      BY <1>4, <3>1, <3>3, <3>4
  <2> QED
    BY <2>2, <2>3 DEF Referents
<1> QED
  BY <1>2, <1>5, <1>6

\* The process starts with an empty table: the invariant holds.
LEMMA InitIInv == GcInit => IInv
<1> SUFFICES ASSUME GcInit PROVE IInv
  OBVIOUS
<1> USE DEF GcInit, Init
<1>1. HeapTypeOK
  BY ChunkTypes, BoundsAssumption DEF HeapTypeOK, Value, PanicKind
<1>2. TypeOK
  BY <1>1 DEF TypeOK, Phase
<1>3. HeapOK
  BY ChunkTypes DEF HeapOK, Footprint
<1>4. PinnedIsLive /\ MarkInvariant
  BY DEF PinnedIsLive, MarkInvariant
<1> QED
  BY <1>2, <1>3, <1>4 DEF IInv

\* The program's steps: no mark survives into them, so only the layout counts.
LEMMA ProgramStep ==
    ASSUME IInv, ProgramAllocates \/ ProgramRuns \/ Collect PROVE IInv'
<1>1. Layout /\ phase = "run" /\ panic = "none" /\ marked = {} /\ work = {}
  BY DEF IInv, TypeOK, Layout, MarkInvariant, ProgramAllocates, ProgramRuns,
         Collect, Running
<1>2. Layout' /\ (phase' # "run" => panic' = "none")
  <2>1. CASE ProgramAllocates
    BY <1>1, <2>1, AllocateLayout DEF ProgramAllocates
  <2>2. CASE ProgramRuns
    BY <1>1, <2>2, OtherLayout DEF ProgramRuns, gcVars
  <2>3. CASE Collect
    BY <1>1, <2>3, SameHeap DEF Collect, heapVars, Layout
  <2> QED
    BY <2>1, <2>2, <2>3
<1>3. phase' \in {"run", "roots"} /\ marked' = {} /\ work' = {}
  BY <1>1 DEF ProgramAllocates, ProgramRuns, Collect, gcVars
<1>4. TypeOK' /\ HeapOK' /\ PinnedIsLive'
  BY <1>2, <1>3 DEF Layout, TypeOK, Phase
<1>5. MarkInvariant'
  BY <1>2, <1>3 DEF MarkInvariant
<1> QED
  BY <1>4, <1>5 DEF IInv

\* The collector's steps that leave the heap alone.
LEMMA MarkStep ==
    ASSUME IInv, MarkRoots \/ Trace \/ TraceDone \/ SweepDone PROVE IInv'
<1>1. UNCHANGED heapVars
  BY DEF MarkRoots, Trace, TraceDone, SweepDone
<1>2. /\ GcStarts' = GcStarts /\ RootBlocks' = RootBlocks
      /\ (\A b : Referents(b)' = Referents(b)) /\ Reachable' = Reachable
      /\ HeapTypeOK' /\ HeapOK' /\ PinnedIsLive'
  BY <1>1, SameHeap DEF IInv, TypeOK
<1>3. GcStarts \subseteq Addr /\ Reachable \subseteq Addr
  BY ReferentsAreBlocks DEF GcStarts
<1>4. phase # "run" /\ panic' = "none"
  BY <1>1 DEF IInv, MarkInvariant, MarkRoots, Trace, TraceDone, SweepDone, heapVars
<1>5. CASE MarkRoots
  <2>1. RootBlocks \subseteq Reachable
    BY ReachableIsClosed DEF Closed
  <2>2. MarkInvariant' /\ TypeOK'
    BY <1>2, <1>3, <1>4, <1>5, <2>1 DEF MarkRoots, MarkInvariant, TypeOK, Phase
  <2> QED
    BY <1>2, <2>2 DEF IInv
<1>6. CASE Trace
  <2>1. PICK b \in work : /\ marked' = marked \cup Referents(b)
                          /\ work' = (work \ {b}) \cup (Referents(b) \ marked)
    BY <1>6 DEF Trace
  <2>2. /\ phase = "trace" /\ phase' = "trace"
        /\ work \subseteq marked /\ marked \subseteq Reachable
        /\ RootBlocks \subseteq marked
        /\ \A c \in marked \ work : Referents(c) \subseteq marked
    BY <1>6 DEF Trace, IInv, MarkInvariant
  <2>3. Referents(b) \subseteq Reachable
    BY <2>2, ReachableIsClosed DEF Closed
  <2>4. \A c \in marked' \ work' : c = b \/ c \in marked \ work
    BY <2>1
  <2>5. \A c \in marked' \ work' : Referents(c) \subseteq marked'
    BY <2>1, <2>2, <2>4
  <2>6. MarkInvariant'
    BY <1>2, <1>4, <2>1, <2>2, <2>3, <2>5 DEF MarkInvariant
  <2>7. TypeOK'
    BY <1>2, <1>3, <2>1, <2>2, <2>3 DEF TypeOK, Phase
  <2> QED
    BY <1>2, <2>6, <2>7 DEF IInv
<1>7. CASE TraceDone
  BY <1>2, <1>4, <1>7 DEF TraceDone, IInv, MarkInvariant, TypeOK, Phase
<1>8. CASE SweepDone
  BY <1>2, <1>4, <1>8 DEF SweepDone, IInv, MarkInvariant, TypeOK, Phase
<1> QED
  BY <1>5, <1>6, <1>7, <1>8

\* During the sweep the marked blocks are exactly the reachable ones.
LEMMA SweepMarks ==
    ASSUME IInv, phase = "sweep"
    PROVE  marked = Reachable /\ Closed(marked) /\ marked \subseteq GcStarts
<1>1. Closed(marked) /\ marked \subseteq Reachable
  BY DEF IInv, MarkInvariant, Closed
<1>2. marked \subseteq GcStarts
  BY <1>1, ReferentsAreBlocks
<1> QED
  BY <1>1, <1>2, ClosedCoversReachable

\* Freeing one unmarked block keeps the invariant: what the rest can reach does
\* not change, since nothing marked refers to the freed block.
LEMMA SweepStep ==
    ASSUME IInv, Sweep PROVE IInv'
<1>1. PICK f \in GcStarts \ marked : /\ heap' = [heap EXCEPT ![f] = NoChunk]
                                     /\ mem' = Wiped({f})
  BY DEF Sweep
<1>2. /\ phase = "sweep" /\ UNCHANGED gcVars
      /\ UNCHANGED <<local, global, roots, pins, panic>>
      /\ Layout
  BY DEF Sweep, IInv, TypeOK, Layout
<1>3. marked = Reachable /\ Closed(marked) /\ marked \subseteq GcStarts /\ work = {}
  BY <1>2, SweepMarks DEF IInv, MarkInvariant
<1>4. \A a \in Addr : heap'[a] = IF a = f THEN NoChunk ELSE heap[a]
  BY <1>1, <1>2 DEF Layout, HeapTypeOK
<1>5. HeapTypeOK'
  BY <1>1, <1>2, ChunkTypes, WipedType DEF Layout, HeapTypeOK
<1>6. HeapOK'
  BY <1>2, <1>4, ChunkTypes, FreeingKeepsApart DEF Layout
<1>7. PinnedIsLive'
  <2>1. \A a \in Addr : pins[a] > 0 => a # f
    BY <1>1, <1>2, <1>3, PinnedIsRoot DEF Closed
  <2> QED
    BY <1>2, <1>4, <2>1 DEF Layout, PinnedIsLive, GcStarts
<1>8. /\ GcStarts' = GcStarts \ {f}
      /\ RootBlocks' = RootBlocks
      /\ \A b \in marked : Referents(b)' = Referents(b)
  BY <1>1, <1>2, <1>3, <1>5, <1>6, <1>7, FreeUnmarked DEF Layout
<1>9. marked \subseteq Reachable'
  <2>1. ASSUME NEW S \in SUBSET GcStarts', RootBlocks' \subseteq S,
               \A b \in S : Referents(b)' \subseteq S
        PROVE  marked \subseteq S
    <3>1. Closed(S \cap marked)
      BY <1>3, <1>8, <2>1 DEF Closed
    <3>2. S \cap marked \in SUBSET GcStarts
      BY <1>3
    <3> QED
      BY <1>3, <3>1, <3>2, ClosedCoversReachable
  <2>2. marked \subseteq GcStarts'
    BY <1>1, <1>3, <1>8
  <2> QED
    BY <2>1, <2>2 DEF Reachable, Closed
<1>10. MarkInvariant'
  BY <1>2, <1>3, <1>8, <1>9 DEF MarkInvariant, gcVars, IInv, Closed
<1>11. TypeOK'
  BY <1>2, <1>5 DEF TypeOK, gcVars, IInv
<1> QED
  BY <1>6, <1>7, <1>10, <1>11 DEF IInv
-----------------------------------------------------------------------------
(* The theorems.                                                            *)

\* The inductive invariant: every action of the program and of the collector
\* keeps it.
THEOREM Invariance == Spec => []IInv
<1>1. GcInit => IInv
  BY InitIInv
<1>2. ASSUME IInv, [Next]_vars PROVE IInv'
  <2>1. CASE ProgramAllocates \/ ProgramRuns \/ Collect
    BY <1>2, <2>1, ProgramStep
  <2>2. CASE MarkRoots \/ Trace \/ TraceDone \/ SweepDone
    BY <1>2, <2>2, MarkStep
  <2>3. CASE Sweep
    BY <1>2, <2>3, SweepStep
  <2>4. CASE UNCHANGED vars
    <3>1. UNCHANGED heapVars /\ UNCHANGED gcVars
      BY <2>4 DEF vars, heapVars, gcVars
    <3>2. /\ RootBlocks' = RootBlocks /\ Reachable' = Reachable
          /\ (\A b : Referents(b)' = Referents(b))
          /\ HeapTypeOK' /\ HeapOK' /\ PinnedIsLive'
      BY <1>2, <3>1, SameHeap DEF IInv, TypeOK
    <3> QED
      BY <1>2, <3>1, <3>2 DEF IInv, TypeOK, MarkInvariant, gcVars, heapVars
  <2> QED
    BY <1>2, <2>1, <2>2, <2>3, <2>4 DEF Next, Collector
<1> QED
  BY <1>1, <1>2, PTL DEF Spec

\* Every variable keeps its type: above all, no pin count goes below zero and
\* no word holds anything but an address or null.
THEOREM TypeCorrect == Spec => []TypeOK
<1>1. IInv => TypeOK
  BY DEF IInv
<1> QED
  BY <1>1, Invariance, PTL

\* The tri-colour invariant of gc_mark and gc_sweep.
THEOREM MarkIsSound == Spec => []MarkInvariant
<1>1. IInv => MarkInvariant
  BY DEF IInv
<1> QED
  BY <1>1, Invariance, PTL

\* A pin follows its object through turf_rt_realloc and protects it from
\* turf_rt_collect.
THEOREM PinsProtect == Spec => []PinnedIsLive
<1>1. IInv => PinnedIsLive
  BY DEF IInv
<1> QED
  BY <1>1, Invariance, PTL

\* The sweep frees unreachable blocks only.
LEMMA SweepTakesUnreachable ==
    ASSUME IInv, Sweep
    PROVE  \E f \in GcStarts \ Reachable :
              /\ heap' = [heap EXCEPT ![f] = NoChunk]
              /\ mem' = Wiped({f})
              /\ GcStarts' = GcStarts \ {f}
              /\ UNCHANGED <<local, global, roots, pins, panic>>
<1>1. phase = "sweep" /\ UNCHANGED <<local, global, roots, pins, panic>>
  BY DEF Sweep
<1>2. PICK f \in GcStarts \ marked : /\ heap' = [heap EXCEPT ![f] = NoChunk]
                                     /\ mem' = Wiped({f})
  BY DEF Sweep
<1>3. f \in GcStarts \ Reachable
  BY <1>1, <1>2, SweepMarks
<1>4. \A a \in Addr : heap'[a] = IF a = f THEN NoChunk ELSE heap[a]
  BY <1>2 DEF IInv, TypeOK, HeapTypeOK
<1>5. GcStarts' = GcStarts \ {f}
  BY <1>4, ChunkTypes DEF GcStarts
<1> QED
  BY <1>1, <1>2, <1>3, <1>5

\* turf_rt_collect never takes away a block the program can reach.
THEOREM ReachableIsKept == Spec => KeepsReachable
<1> DEFINE Kept == \A b \in GcStarts : b \notin GcStarts' => b \notin Reachable
<1>1. ASSUME IInv, [Next]_vars, phase # "run", ~ UNCHANGED vars
      PROVE  Kept
  <2>1. CASE Sweep
    BY <1>1, <2>1, SweepTakesUnreachable
  <2>2. CASE MarkRoots \/ Trace \/ TraceDone \/ SweepDone
    <3>1. UNCHANGED heapVars
      BY <2>2 DEF MarkRoots, Trace, TraceDone, SweepDone
    <3> QED
      BY <3>1, SameHeap
  <2> QED
    BY <1>1, <2>1, <2>2
    DEF Next, Collector, ProgramAllocates, ProgramRuns, Collect, Running
<1>2. IInv /\ [Next]_vars => [phase # "run" => Kept]_vars
  BY <1>1
<1> QED
  BY <1>2, Invariance, PTL DEF Spec, KeepsReachable

\* A collection goes round no cycle: each of its steps goes on to the next
\* phase, or leaves fewer blocks to mark, to scan or to free.
THEOREM EachStepDescends == Spec => CollectionDescends
<1> DEFINE Marks == /\ phase' = "trace" /\ phase = "trace"
                    /\ GcStarts' = GcStarts
                    /\ marked \subseteq marked'
                    /\ marked' = marked => work' \subseteq work /\ work' # work
           Frees == /\ phase' = "sweep" /\ phase = "sweep"
                    /\ marked' = marked
                    /\ GcStarts' \subseteq GcStarts /\ GcStarts' # GcStarts
           Moves == <<phase, phase'>> \in {<<"roots", "trace">>,
                        <<"trace", "sweep">>, <<"sweep", "run">>}
<1>1. ASSUME IInv, [Next]_vars, phase # "run", ~ UNCHANGED vars
      PROVE  Moves \/ Marks \/ Frees
  <2>1. CASE Trace
    <3>1. PICK b \in work : /\ marked' = marked \cup Referents(b)
                            /\ work' = (work \ {b}) \cup (Referents(b) \ marked)
      BY <2>1 DEF Trace
    <3>2. phase = "trace" /\ phase' = "trace" /\ GcStarts' = GcStarts
      BY <2>1 DEF Trace, heapVars, GcStarts
    <3>3. ASSUME marked' = marked PROVE work' = work \ {b}
      BY <3>1, <3>3
    <3> QED
      BY <3>1, <3>2, <3>3
  <2>2. CASE Sweep
    <3>1. \E f \in GcStarts : GcStarts' = GcStarts \ {f}
      BY <1>1, <2>2, SweepTakesUnreachable
    <3> QED
      BY <2>2, <3>1 DEF Sweep, gcVars
  <2>3. CASE MarkRoots \/ TraceDone \/ SweepDone
    BY <2>3 DEF MarkRoots, TraceDone, SweepDone
  <2> QED
    BY <1>1, <2>1, <2>2, <2>3
    DEF Next, Collector, ProgramAllocates, ProgramRuns, Collect, Running
<1>2. IInv /\ [Next]_vars => [phase # "run" => Moves \/ Marks \/ Frees]_vars
  BY <1>1
<1> QED
  BY <1>2, Invariance, PTL DEF Spec, CollectionDescends

\* When turf_rt_collect returns, what is left is what the program can reach.
THEOREM GarbageIsTaken == Spec => TakesGarbage
<1>1. ASSUME IInv, [Next]_vars, phase = "sweep", phase' = "run"
      PROVE  GcStarts' = Reachable'
  <2>1. SweepDone
    BY <1>1 DEF Next, Collector, ProgramAllocates, ProgramRuns, Collect,
       Running, MarkRoots, Trace, TraceDone, Sweep, gcVars, vars
  <2>2. GcStarts \subseteq marked /\ UNCHANGED heapVars
    BY <2>1 DEF SweepDone
  <2>3. marked = Reachable /\ marked \subseteq GcStarts
    BY <1>1, SweepMarks
  <2> QED
    BY <2>2, <2>3, SameHeap
<1>2. IInv /\ [Next]_vars
        => [phase = "sweep" /\ phase' = "run" => GcStarts' = Reachable']_vars
  BY <1>1
<1> QED
  BY <1>2, Invariance, PTL DEF Spec, TakesGarbage

\* The instance's operators are TurfHeap's, over the same variables.
LEMMA SameState ==
    /\ Managed!Init = Init
    /\ Managed!heapVars = heapVars
    /\ Managed!GcStarts = GcStarts
    /\ Managed!Reachable = Reachable
    /\ Managed!NoChunk = NoChunk
    /\ \A G : Managed!Wiped(G) = Wiped(G)
<1>1. Managed!Init = Init
  BY DEF Managed!Init, Init, Managed!NoChunk, NoChunk, Managed!Opaque, Opaque,
         Managed!Null, Null
<1>2. Managed!heapVars = heapVars
  BY DEF Managed!heapVars, heapVars
<1>3. Managed!GcStarts = GcStarts
  BY DEF Managed!GcStarts, GcStarts
<1>4. \A v : Managed!Containing(v) = Containing(v)
  BY <1>3 DEF Managed!Containing, Containing
<1>5. Managed!RootBlocks = RootBlocks
  <2>1. Managed!RootValues = RootValues
    BY DEF Managed!RootValues, RootValues
  <2> QED
    BY <1>4, <2>1 DEF Managed!RootBlocks, RootBlocks
<1>6. \A b : Managed!Referents(b) = Referents(b)
  <2>1. \A b : Managed!TracedWords(b) = TracedWords(b)
    BY DEF Managed!TracedWords, TracedWords, Managed!Words, Words
  <2> QED
    BY <1>4, <2>1 DEF Managed!Referents, Referents
<1>7. Managed!Reachable = Reachable
  BY <1>3, <1>5, <1>6 DEF Managed!Reachable, Reachable, Managed!Closed, Closed
<1>8. Managed!NoChunk = NoChunk
  BY DEF Managed!NoChunk, NoChunk, Managed!Opaque, Opaque
<1>9. \A G : Managed!Wiped(G) = Wiped(G)
  BY DEF Managed!Wiped, Wiped, Managed!Footprint, Footprint, Managed!Span, Span,
         Managed!Null, Null
<1> QED
  BY <1>1, <1>2, <1>3, <1>7, <1>8, <1>9

\* So are its actions: expanded to the bottom, the two sides are the same text.
LEMMA SameCalls == Managed!Allocate = Allocate /\ Managed!Other = Other
<1> USE DEF Managed!CanPlace, CanPlace, Managed!Span, Span,
            Managed!Footprint, Footprint, Managed!Words, Words,
            Managed!NoChunk, NoChunk, Managed!Opaque, Opaque,
            Managed!Null, Null, Managed!GcStarts, GcStarts
<1>1. Managed!Allocate = Allocate
  BY DEF Managed!Allocate, Allocate, Managed!Alloc, Alloc,
         Managed!Realloc, Realloc, Managed!ManualStarts, ManualStarts
<1>2. Managed!Other = Other
  BY DEF Managed!Other, Other, Managed!OutOfMemory, OutOfMemory,
         Managed!Panic, Panic, Managed!ManualAlloc, ManualAlloc,
         Managed!CheckedFree, CheckedFree, Managed!Wiped, Wiped,
         Managed!ManualStarts, ManualStarts, Managed!Pin, Pin,
         Managed!Unpin, Unpin, Managed!AddGlobalRoot, AddGlobalRoot,
         Managed!RemoveGlobalRoot, RemoveGlobalRoot, Managed!Move, Move,
         Managed!SetLocal, SetLocal, Managed!SetWord, SetWord,
         Managed!SetGlobal, SetGlobal, Managed!Visible, Visible,
         Managed!PointerWords, PointerWords, Managed!Containing, Containing,
         Managed!TracedWords, TracedWords
<1> QED
  BY <1>1, <1>2

\* The collector implements ManagedHeap: marking stutters, and each block the
\* sweep frees is a Reclaim.
THEOREM Implements == Spec => KeepsPromise
<1>1. GcInit => Managed!Init
  BY SameState DEF GcInit
<1>2. ASSUME IInv, [Next]_vars
      PROVE  [Managed!Next]_(Managed!heapVars)
  <2>1. CASE ProgramAllocates \/ ProgramRuns
    BY <2>1, SameCalls DEF ProgramAllocates, ProgramRuns, Running, Managed!Next
  <2>2. CASE Sweep
    <3>1. PICK f \in GcStarts \ Reachable :
              /\ heap' = [heap EXCEPT ![f] = NoChunk]
              /\ mem' = Wiped({f})
              /\ UNCHANGED <<local, global, roots, pins, panic>>
      BY <1>2, <2>2, SweepTakesUnreachable
    <3>2. heap' = [a \in Addr |-> IF a \in {f} THEN NoChunk ELSE heap[a]]
      BY <1>2, <3>1 DEF IInv, TypeOK, HeapTypeOK
    <3>3. panic = "none"
      BY <1>2, <2>2 DEF IInv, MarkInvariant, Sweep
    <3>4. {f} \in SUBSET (GcStarts \ Reachable)
      OBVIOUS
    <3>5. heap' # heap
      BY <1>2, <3>1, ChunkTypes DEF IInv, TypeOK, HeapTypeOK, GcStarts
    <3>6. Managed!Reclaim
      BY <3>1, <3>2, <3>4, <3>5, SameState DEF Managed!Reclaim
    <3> QED
      BY <3>3, <3>6 DEF Managed!Next
  <2>3. CASE UNCHANGED heapVars
    BY <2>3, SameState DEF heapVars, Managed!heapVars
  <2> QED
    BY <1>2, <2>1, <2>2, <2>3 DEF Next, Collector, Collect, MarkRoots, Trace,
       TraceDone, SweepDone, vars, heapVars
<1> QED
  BY <1>1, <1>2, Invariance, PTL DEF Spec, KeepsPromise, Managed!Spec
=============================================================================
