------------------------------- MODULE GcTable -------------------------------
(***************************************************************************)
(* The collector's block table as runtime/turfrt_gc.c keeps it:            *)
(*                                                                         *)
(*   g_blocks   sorted by start; binary-searched; entries a realloc moved  *)
(*              away from stay, marked dead, until the next collection     *)
(*   g_pending  what was registered since the last collection, unsorted    *)
(*   g_pidx     open addressing from a pending start to its index          *)
(*   g_pins     an unsorted list of block starts with counts               *)
(*                                                                         *)
(* Every action is one complete call of the runtime, the collection it may *)
(* trigger included: nothing else runs meanwhile.  What a collection marks *)
(* is any set that holds what the words found in R and the pins point      *)
(* into; module GcHeap has the tracing.                                    *)
(***************************************************************************)
EXTENDS LibcHeap, Sequences, SequencesExt

CONSTANTS
    Sizes,        \* the sizes turf_rt_alloc and turf_rt_realloc are asked for
    ManualSizes,  \* the sizes mem::alloc is asked for
    Hash,         \* the multiplicative hash of each address
    MinCap,       \* the first capacity of g_pidx: 1024
    Room,         \* slots per pending block after a rebuild: 4
    Floor,        \* TURF_GC_INITIAL_THRESHOLD
    Stress,       \* TURF_GC_STRESS is set
    MaxPin        \* bound: outstanding pins of one block

ASSUME SizesAssumption == Sizes \subseteq Nat /\ ManualSizes \subseteq Nat \ {0}
ASSUME HashAssumption == Hash \in [Addr -> Nat]
ASSUME IndexAssumption == MinCap \in Nat \ {0} /\ Room \in Nat \ {0}
ASSUME PressureAssumption ==
    Floor \in Nat \ {0} /\ Stress \in BOOLEAN /\ MaxPin \in Nat

VARIABLES
    table,  \* g_blocks, g_dead_count, g_pending and g_pidx
    pins,   \* g_pins
    gauge,  \* g_bytes_since_collect, g_gc_threshold and g_live_bytes
    chunk,  \* libc's chunks: the truth the table is to tell
    panic   \* what turf_rt_panic aborted the process with, if it did

vars == <<table, pins, gauge, chunk, panic>>

Empty == 0
Deleted == 1

Entry(p, n) == [start |-> p, size |-> n, dead |-> FALSE]
-----------------------------------------------------------------------------
(* g_pidx.                                                                 *)

NoIndex == [cap |-> 0, used |-> 0, slot |-> <<>>]

FreshIndex(cap) ==
    [cap |-> cap, used |-> 0,
     slot |-> [s \in 0 .. cap - 1 |-> [key |-> Empty, at |-> 0]]]

\* The slots linear probing from a's home meets first with a key in K: that
\* one, or none if it would go round for ever.
Probe(ix, a, K) ==
    LET At(i) == (Hash[a] + i) % ix.cap
        hits == {i \in 0 .. ix.cap - 1 : ix.slot[At(i)].key \in K}
    IN  {At(i) : i \in {j \in hits : \A k \in hits : j <= k}}

\* pidx_place.
Place(ix, a, at) ==
    LET s == CHOOSE t \in Probe(ix, a, {Empty, Deleted}) : TRUE
    IN  [cap  |-> ix.cap,
         used |-> ix.used + (IF ix.slot[s].key = Empty THEN 1 ELSE 0),
         slot |-> [ix.slot EXCEPT ![s] = [key |-> a, at |-> at]]]

\* pidx_rebuild: the capacity doubles from MinCap until it leaves room.
Capacity(n) ==
    LET cap[k \in 0 .. Room * (n + 1)] ==
            IF k = 0 THEN MinCap ELSE 2 * cap[k - 1]
        fits == {k \in DOMAIN cap : cap[k] >= (n + 1) * Room}
    IN  cap[CHOOSE k \in fits : \A j \in fits : k <= j]

RebuiltIndex(pending) ==
    LET entered[i \in 0 .. Len(pending)] ==
            IF i = 0 THEN FreshIndex(Capacity(Len(pending)))
            ELSE Place(entered[i - 1], pending[i].start, i)
    IN  entered[Len(pending)]

\* Mutant: only live keys count against the load limit.
IndexedIgnoringDeleted(ix, pending) ==
    IF ix.cap = 0 \/ Len(pending) * 10 > ix.cap * 7
    THEN RebuiltIndex(pending)
    ELSE Place(ix, pending[Len(pending)].start, Len(pending))

\* pidx_insert_last: at 70% used, deleted slots counted, everything is
\* re-entered.
Indexed(ix, pending) ==
    IF ix.cap = 0 \/ (ix.used + 1) * 10 > ix.cap * 7
    THEN RebuiltIndex(pending)
    ELSE Place(ix, pending[Len(pending)].start, Len(pending))

\* pidx_slot: where a's key is, if it is anywhere.
Slot(ix, a) ==
    IF ix.cap = 0 THEN {}
    ELSE {s \in Probe(ix, a, {Empty, a}) : ix.slot[s].key = a}
-----------------------------------------------------------------------------
(* Looking an address up.  Each of these returns a set: the index or entry *)
(* found, or nothing.                                                      *)

FindExactInPending(t, a) == {t.index.slot[s].at : s \in Slot(t.index, a)}

\* Mutant: a dead entry counts as found.
FindExactInBlocksDead(t, a) ==
    {i \in DOMAIN t.blocks : t.blocks[i].start = a}

\* find_exact_in_blocks: binary search; a dead entry is no block.
FindExactInBlocks(t, a) ==
    LET search[w \in (0 .. Len(t.blocks)) \X (0 .. Len(t.blocks))] ==
            LET lo == w[1]
                hi == w[2]
                mid == lo + (hi - lo) \div 2
                e == t.blocks[mid + 1]
            IN  IF lo >= hi THEN {}
                ELSE IF e.start = a THEN IF e.dead THEN {} ELSE {mid + 1}
                ELSE IF e.start < a THEN search[<<mid + 1, hi>>]
                ELSE search[<<lo, mid>>]
    IN  search[<<0, Len(t.blocks)>>]

\* How many entries start no later than v: where the binary search of
\* gc_find_containing ends.
NotAfter(t, v) ==
    LET last[w \in (0 .. Len(t.blocks)) \X (0 .. Len(t.blocks))] ==
            LET lo == w[1]
                hi == w[2]
                mid == lo + (hi - lo) \div 2
            IN  IF lo >= hi THEN lo
                ELSE IF t.blocks[mid + 1].start <= v THEN last[<<mid + 1, hi>>]
                ELSE last[<<lo, mid>>]
    IN  last[<<0, Len(t.blocks)>>]

\* Mutant: memory a realloc gave up is still taken for the block it was.
FindContainingDead(t, v) ==
    {e \in {t.blocks[j] : j \in {NotAfter(t, v)} \ {0}} :
        v >= e.start /\ v < e.start + e.size}

\* gc_find_containing: the last entry whose start is not after v, if it is alive
\* and v is inside it.
FindContaining(t, v) ==
    {e \in {t.blocks[j] : j \in {NotAfter(t, v)} \ {0}} :
        ~e.dead /\ v >= e.start /\ v < e.start + e.size}

\* gc_find_containing_any: outside a collection, g_pending is searched too.
FindContainingAny(t, v) ==
    LET pending == {i \in DOMAIN t.pending :
                       LET e == t.pending[i]
                       IN  v >= e.start /\ v < e.start + e.size}
    IN  IF FindContaining(t, v) # {} \/ pending = {} THEN FindContaining(t, v)
        ELSE {t.pending[Min(pending)]}

IsRegistered(t, a) ==
    FindExactInPending(t, a) # {} \/ FindExactInBlocks(t, a) # {}

\* turf_rt_string_capacity; -1 in no block.
StringCapacity(t, v) ==
    LET sizes == {t.pending[i].size : i \in FindExactInPending(t, v)}
        sorted == {t.blocks[i].size : i \in FindExactInBlocks(t, v)}
        inside == {e.start + e.size - v : e \in FindContainingAny(t, v)}
        Only(S) == CHOOSE x \in S : TRUE
    IN  IF sizes # {} THEN Only(sizes)
        ELSE IF sorted # {} THEN Only(sorted)
        ELSE IF inside # {} THEN Only(inside)
        ELSE -1

\* find_pin.
FindPin(pn, b) == {i \in DOMAIN pn : pn[i].start = b}
-----------------------------------------------------------------------------
(* Changing the table.                                                     *)

\* turf_gc_register_block.
Registered(t, p, n) ==
    LET pending == Append(t.pending, Entry(p, n))
    IN  [t EXCEPT !.pending = pending, !.index = Indexed(t.index, pending)]

\* Mutant: the entry moved into the hole keeps its old index in g_pidx.
PendingRemovedOutOfStep(t, i) ==
    LET last == t.pending[Len(t.pending)]
        gone == Slot(t.index, t.pending[i].start)
        slot == [s \in DOMAIN t.index.slot |->
                    IF s \in gone THEN [key |-> Deleted, at |-> 0]
                    ELSE t.index.slot[s]]
    IN  [t EXCEPT !.pending = Front([@ EXCEPT ![i] = last]),
                  !.index.slot = slot]

\* pending_remove: the last entry takes the place of the i-th, and g_pidx
\* follows.
PendingRemoved(t, i) ==
    LET last == t.pending[Len(t.pending)]
        gone == Slot(t.index, t.pending[i].start)
        moved == Slot(t.index, last.start) \ gone
        slot == [s \in DOMAIN t.index.slot |->
                    CASE s \in gone  -> [key |-> Deleted, at |-> 0]
                      [] s \in moved -> [key |-> last.start, at |-> i]
                      [] OTHER       -> t.index.slot[s]]
    IN  [t EXCEPT !.pending = Front([@ EXCEPT ![i] = last]),
                  !.index.slot = slot]

\* turf_gc_reregister_block, the pins aside: the old entry is removed from
\* g_pending, else marked dead in g_blocks, else there is none.
Reregistered(t, old, p, n) ==
    LET removed ==
            {PendingRemoved(t, i) : i \in FindExactInPending(t, old)}
        killed ==
            {[t EXCEPT !.blocks[i].dead = TRUE, !.dead = @ + 1] :
                i \in FindExactInBlocks(t, old)}
        before == IF removed # {} THEN removed
                  ELSE IF killed # {} THEN killed ELSE {t}
    IN  Registered(CHOOSE u \in before : TRUE, p, n)

\* The loop of gc_rebuild_index and of gc_sweep: the entries whose index is in
\* Kept move down, in their order.
Compacted(entries, Kept) ==
    LET upto[i \in 0 .. Len(entries)] ==
            IF i = 0 THEN <<>>
            ELSE IF i \in Kept THEN Append(upto[i - 1], entries[i]) ELSE upto[i - 1]
    IN  upto[Len(entries)]

\* What gc_sweep adds up on the way.
LiveBytes(entries, Kept) ==
    LET upto[i \in 0 .. Len(entries)] ==
            IF i = 0 THEN 0
            ELSE upto[i - 1] + (IF i \in Kept THEN entries[i].size ELSE 0)
    IN  upto[Len(entries)]

\* qsort by gcblock_cmp.
Sorted(entries) ==
    CHOOSE s \in [DOMAIN entries -> Range(entries)] :
        /\ Range(s) = Range(entries)
        /\ \A i, j \in DOMAIN s : i < j => s[i].start < s[j].start

\* Mutant: dead entries stay in the sorted array.
RebuiltWithDead(t) ==
    IF t.pending = <<>> THEN t
    ELSE [blocks  |-> SortSeq(t.blocks \o t.pending,
                              LAMBDA d, e : d.start < e.start),
          dead    |-> t.dead,
          pending |-> <<>>,
          index   |-> FreshIndex(t.index.cap)]

\* gc_rebuild_index: dead entries dropped, g_pending merged and sorted in.
Rebuilt(t) ==
    LET alive == IF t.dead = 0 THEN t.blocks
                 ELSE Compacted(t.blocks, {i \in DOMAIN t.blocks : ~t.blocks[i].dead})
    IN  IF t.pending = <<>> THEN [t EXCEPT !.blocks = alive, !.dead = 0]
        ELSE [blocks  |-> Sorted(alive \o t.pending),
              dead    |-> 0,
              pending |-> <<>>,
              index   |-> FreshIndex(t.index.cap)]
-----------------------------------------------------------------------------
Init ==
    /\ table = [blocks |-> <<>>, dead |-> 0, pending |-> <<>>, index |-> NoIndex]
    /\ pins = <<>>
    /\ gauge = [since |-> 0, threshold |-> Floor, live |-> 0]
    /\ chunk = [a \in Addr |-> NoChunk]
    /\ panic = "none"

\* turf_rt_collect: marking keeps what the pins, the words in held and the words
\* R found on the stack and in traced blocks point into, the sweep frees the
\* other entries, and the next threshold follows from what is left.
CollectFrom(t, ch, pn, held) ==
    LET r == Rebuilt(t)
        must == held \cup {pn[i].start : i \in DOMAIN pn}
    IN  \E R \in SUBSET (Addr \ must) :
          LET found == UNION {FindContaining(r, v) : v \in must \cup R}
              marked == {i \in DOMAIN r.blocks : r.blocks[i] \in found}
              freed == {r.blocks[i].start : i \in DOMAIN r.blocks \ marked}
              live == LiveBytes(r.blocks, marked)
          IN  /\ table' = [r EXCEPT !.blocks = Compacted(r.blocks, marked)]
              /\ chunk' = [a \in Addr |-> IF a \in freed THEN NoChunk ELSE ch[a]]
              /\ gauge' = [since |-> 0, live |-> live,
                           threshold |-> IF 2 * live < Floor THEN Floor ELSE 2 * live]

\* Mutant: the collection waits until the threshold is passed.
NoteAllocLate(t, ch, pn, p, n) ==
    IF Stress \/ gauge.since + n > gauge.threshold
    THEN CollectFrom(t, ch, pn, {p})
    ELSE /\ table' = t
         /\ chunk' = ch
         /\ gauge' = [gauge EXCEPT !.since = @ + n]

\* turf_gc_note_alloc, after p was registered with n words: p is still on the
\* C stack if this collects.
NoteAlloc(t, ch, pn, p, n) ==
    IF Stress \/ gauge.since + n >= gauge.threshold
    THEN CollectFrom(t, ch, pn, {p})
    ELSE /\ table' = t
         /\ chunk' = ch
         /\ gauge' = [gauge EXCEPT !.since = @ + n]

\* turf_rt_alloc, turf_rt_alloc_zeroed, and turf_rt_realloc of NULL.
Alloc(p, n) ==
    /\ CanPlace(chunk, p, n, {})
    /\ NoteAlloc(Registered(table, p, n),
                 [chunk EXCEPT ![p] = [owner |-> "gc", size |-> n]],
                 pins, p, n)
    /\ UNCHANGED <<pins, panic>>

\* Mutant: the pin is left on the old address.
ReallocStrandsPin(old, p, n) ==
    /\ CanPlace(chunk, p, n, {old})
    /\ NoteAlloc(Reregistered(table, old, p, n),
                 [chunk EXCEPT ![old] = NoChunk,
                               ![p] = [owner |-> "gc", size |-> n]],
                 pins, p, n)
    /\ UNCHANGED <<pins, panic>>

\* turf_rt_realloc of a chunk, in place or to p; a block's pin is given the new
\* start, and a chunk of mem::alloc becomes a block.
Realloc(old, p, n) ==
    /\ CanPlace(chunk, p, n, {old})
    /\ pins' = [i \in DOMAIN pins |->
                   IF i \in FindPin(pins, old) THEN [pins[i] EXCEPT !.start = p]
                   ELSE pins[i]]
    /\ NoteAlloc(Reregistered(table, old, p, n),
                 [chunk EXCEPT ![old] = NoChunk,
                               ![p] = [owner |-> "gc", size |-> n]],
                 pins', p, n)
    /\ UNCHANGED panic

\* The program calls gc_collect().
Collect ==
    /\ CollectFrom(table, chunk, pins, {})
    /\ UNCHANGED <<pins, panic>>

\* mem::alloc goes to libc and leaves the table alone.
ManualAlloc(p, n) ==
    /\ CanPlace(chunk, p, n, {})
    /\ chunk' = [chunk EXCEPT ![p] = [owner |-> "manual", size |-> n]]
    /\ UNCHANGED <<table, pins, gauge, panic>>

Panic(kind) ==
    /\ panic' = kind
    /\ UNCHANGED <<table, pins, gauge, chunk>>

\* turf_rt_checked_free of a chunk of either heap.
CheckedFree(a) ==
    IF IsRegistered(table, a) THEN Panic("cross-heap free")
    ELSE /\ chunk' = [chunk EXCEPT ![a] = NoChunk]
         /\ UNCHANGED <<table, pins, gauge, panic>>

\* turf_rt_pin: an entry is counted up, or appended with count 1.
Pin(v) ==
    /\ \E e \in FindContainingAny(table, v) :
          LET at == FindPin(pins, e.start)
          IN  /\ MaxPin > 0 /\ \A i \in at : pins[i].count < MaxPin
              /\ pins' = IF at = {} THEN Append(pins, [start |-> e.start, count |-> 1])
                         ELSE [i \in DOMAIN pins |->
                                  IF i \in at THEN [pins[i] EXCEPT !.count = @ + 1]
                                  ELSE pins[i]]
    /\ UNCHANGED <<table, gauge, chunk, panic>>

\* Mutant: the last pin's entry is dropped instead of the one unpinned.
UnpinDropsLast(v) ==
    \E e \in FindContainingAny(table, v) :
        \/ /\ FindPin(pins, e.start) = {}
           /\ Panic("unpin of unpinned object")
        \/ \E i \in FindPin(pins, e.start) :
              /\ pins' = IF pins[i].count > 1
                         THEN [pins EXCEPT ![i].count = @ - 1]
                         ELSE Front(pins)
              /\ UNCHANGED <<table, gauge, chunk, panic>>

\* turf_rt_unpin: counted down; at 0 the last entry takes its place.
Unpin(v) ==
    \E e \in FindContainingAny(table, v) :
        \/ /\ FindPin(pins, e.start) = {}
           /\ Panic("unpin of unpinned object")
        \/ \E i \in FindPin(pins, e.start) :
              /\ pins' = IF pins[i].count > 1
                         THEN [pins EXCEPT ![i].count = @ - 1]
                         ELSE Front([pins EXCEPT ![i] = pins[Len(pins)]])
              /\ UNCHANGED <<table, gauge, chunk, panic>>

Next ==
    /\ panic = "none"
    /\ \/ \E p \in Addr, n \in Sizes : Alloc(p, n)
       \/ \E old \in Starts(chunk, "gc") \cup Starts(chunk, "manual"),
             p \in Addr, n \in Sizes \ {0} : Realloc(old, p, n)
       \/ Collect
       \/ \E p \in Addr, n \in ManualSizes : ManualAlloc(p, n)
       \/ \E a \in Starts(chunk, "gc") \cup Starts(chunk, "manual") : CheckedFree(a)
       \/ \E v \in Addr : Pin(v) \/ Unpin(v)

Spec == Init /\ [][Next]_vars
-----------------------------------------------------------------------------
\* The shape of the table: g_blocks sorted with no start twice, its dead
\* entries counted, g_pidx holding each pending start at its index and nothing
\* else, and always an empty slot for a probe to end at.
TableShape ==
    /\ \A i, j \in DOMAIN table.blocks :
          i < j => table.blocks[i].start < table.blocks[j].start
    /\ table.dead = Cardinality({i \in DOMAIN table.blocks : table.blocks[i].dead})
    /\ table.index.cap > 0 =>
          /\ \A i \in DOMAIN table.pending :
                FindExactInPending(table, table.pending[i].start) = {i}
          /\ \A s \in DOMAIN table.index.slot :
                LET k == table.index.slot[s].key
                IN  k \in {Empty, Deleted}
                        \/ \E i \in DOMAIN table.pending : table.pending[i].start = k
          /\ \E s \in DOMAIN table.index.slot : table.index.slot[s].key = Empty
          /\ table.index.used =
                Cardinality({s \in DOMAIN table.index.slot :
                                table.index.slot[s].key # Empty})

\* The table tells the truth about every address, whatever moved where since
\* the last collection: which addresses are blocks (turf_rt_is_gc_pointer, the
\* cross-heap check of mem::free), which block an interior address is in (pins),
\* and how many words may be touched from an address on
\* (turf_rt_string_capacity).
TableIsTruth ==
    \A a \in Addr :
        /\ IsRegistered(table, a) <=> a \in Starts(chunk, "gc")
        /\ {e.start : e \in FindContainingAny(table, a)} = Around(chunk, a)
        /\ StringCapacity(table, a) =
              IF a \in Starts(chunk, "gc") THEN chunk[a].size
              ELSE LET b == CHOOSE c \in Around(chunk, a) : TRUE
                   IN  IF Around(chunk, a) = {} THEN -1 ELSE b + chunk[b].size - a

\* Allocation pressure keeps the heap within what survived the last collection
\* and what the threshold lets through since: three times the former at most,
\* above the floor.
HeapIsBounded ==
    /\ gauge.since < gauge.threshold
    /\ Total(chunk) <= gauge.live + gauge.since

\* Outstanding pins as a function of the address: the table's idea of them.
PinCount(a) ==
    IF FindPin(pins, a) = {} THEN 0
    ELSE pins[CHOOSE i \in FindPin(pins, a) : TRUE].count

Promise == INSTANCE BlockMap WITH count <- [a \in Addr |-> PinCount(a)]

\* The table, the pin list and the collection they drive implement the block
\* map the headers promise: no pinned block is ever taken, a pin moves with its
\* block and never passes to another that is given the same address.
KeepsBlockMap == Promise!Spec
=============================================================================
