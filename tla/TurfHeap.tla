------------------------------ MODULE TurfHeap ------------------------------
(***************************************************************************)
(* The memory of a compiled Turf program, as the runtime sees it           *)
(* (runtime/turfrt_alloc.c, and the parts of runtime/turfrt_gc.c a program *)
(* calls): libc's chunks, some of them handed out by the collector's       *)
(* allocator and the others by mem::alloc, the words in them, the words    *)
(* of the stack and the callee-saved registers, the registered global      *)
(* slots, and the pins.                                                    *)
(*                                                                         *)
(* Every action is one complete call of the runtime, or one move of a      *)
(* value by the compiled program.  The collector is not here: GcHeap adds  *)
(* the mark and sweep phases, ManagedHeap what they promise.               *)
(*                                                                         *)
(* Addresses and sizes are counted in 8-byte words.                        *)
(***************************************************************************)
EXTENDS Integers

CONSTANTS
    Addr,         \* the word addresses libc's malloc can hand out
    Sizes,        \* the sizes the program asks turf_rt_alloc/realloc for
    ManualSizes,  \* the sizes it asks mem::alloc for
    Descs,        \* the type descriptors the compiler emits (Opaque: NULL)
    Local,        \* stack words and callee-saved registers of the program
    GlobalSlot,   \* storage that turf_rt_add_global_root may be given
    MaxPin,       \* bound: outstanding pins of one block
    MaxReg,       \* bound: registrations of one global slot
    Garbage       \* bound: the non-null values malloc may leave in a chunk

\* A descriptor: the element stride, and which of its words hold pointers.
Desc == [stride : Nat, ptrs : SUBSET Nat]
Opaque == [stride |-> 0, ptrs |-> {}]

ASSUME AddrAssumption == Addr \subseteq Nat \ {0}
ASSUME SizesAssumption == Sizes \subseteq Nat /\ ManualSizes \subseteq Nat
ASSUME DescsAssumption == Descs \subseteq Desc
ASSUME BoundsAssumption == MaxPin \in Nat /\ MaxReg \in Nat
ASSUME GarbageAssumption == Garbage \subseteq Addr

VARIABLES
    heap,    \* the chunk that starts at each address, if one does
    mem,     \* the pointer-sized value in each word of memory
    local,   \* the value in each stack word and register
    global,  \* the value in each global slot
    roots,   \* how often each global slot is in g_roots
    pins,    \* the count of g_pins' entry for a block start, 0 for none
    panic    \* what turf_rt_panic aborted the process with, if it did

Null == 0
heapVars == <<heap, mem, local, global, roots, pins, panic>>

Value == Addr \cup {Null}

\* A chunk of libc's heap: registered with the collector ("gc"), handed out
\* by mem::alloc ("manual"), or not there.
Chunk == [owner : {"none", "gc", "manual"}, size : Nat, desc : Desc]
NoChunk == [owner |-> "none", size |-> 0, desc |-> Opaque]

PanicKind == {"none", "out of memory", "cross-heap free",
              "unpin of unpinned object"}

GcStarts == {a \in Addr : heap[a].owner = "gc"}
ManualStarts == {a \in Addr : heap[a].owner = "manual"}

\* The words of the chunk at a: none for a zero-sized one.
Words(a) == a .. (a + heap[a].size - 1)

\* The words libc sets aside for a chunk of n words at a: malloc(0) returns an
\* address of its own.
Span(a, n) == a .. (a + (IF n = 0 THEN 1 ELSE n) - 1)
Footprint(a) ==
    IF heap[a].owner = "none" THEN {} ELSE Span(a, heap[a].size)

\* The words of the chunks in Gone are libc's again: what they hold is not
\* followed further, and whoever is given them next finds garbage.
Wiped(Gone) ==
    [a \in Addr |-> IF \E b \in Gone : a \in Footprint(b) THEN Null ELSE mem[a]]

\* libc may place n words at a, keeping clear of every chunk but those in Gone.
CanPlace(a, n, Gone) ==
    /\ Span(a, n) \subseteq Addr
    /\ \A b \in Addr \ Gone : Span(a, n) \cap Footprint(b) = {}
-----------------------------------------------------------------------------
(* Which block a word points into.                                         *)

\* gc_find_containing: the last block whose start is not after v, if v is
\* inside it.  (A set: that block alone, or nothing.)
Containing(v) ==
    {b \in GcStarts : /\ b <= v
                      /\ \A c \in GcStarts : c <= v => c <= b
                      /\ v < b + heap[b].size}

\* gc_scan_block_precise: the words of block b its descriptor declares to be
\* pointers, one pattern per whole stride that fits.
TracedWords(b) ==
    LET d == heap[b].desc
    IN  {a \in Words(b) :
            /\ d.stride > 0
            /\ ((a - b) % d.stride) \in d.ptrs
            /\ (a - b) - ((a - b) % d.stride) + d.stride <= heap[b].size}

\* The blocks the words of b lead to.
Referents(b) == UNION {Containing(mem[a]) : a \in TracedWords(b)}

\* What gc_mark starts from: registers and stack, registered global slots,
\* pinned blocks.
RootValues ==
    {local[l] : l \in Local}
        \cup {global[g] : g \in {h \in GlobalSlot : roots[h] > 0}}
        \cup {a \in Addr : pins[a] > 0}
RootBlocks == UNION {Containing(v) : v \in RootValues}

\* A set of blocks that holds the roots and everything its members lead to.
Closed(S) == RootBlocks \subseteq S /\ \A b \in S : Referents(b) \subseteq S

\* The blocks the program can still reach: those no closed set leaves out.
Reachable ==
    {b \in GcStarts : \A S \in SUBSET GcStarts : Closed(S) => b \in S}
-----------------------------------------------------------------------------
Init ==
    /\ heap = [a \in Addr |-> NoChunk]
    /\ mem = [a \in Addr |-> Null]
    /\ local = [l \in Local |-> Null]
    /\ global = [g \in GlobalSlot |-> Null]
    /\ roots = [g \in GlobalSlot |-> 0]
    /\ pins = [a \in Addr |-> 0]
    /\ panic = "none"

\* turf_rt_panic: the process prints and aborts; nothing of it is read again.
Panic(kind) ==
    /\ panic' = kind
    /\ UNCHANGED <<heap, mem, local, global, roots, pins>>

\* turf_rt_alloc, turf_rt_alloc_zeroed, and turf_rt_realloc of NULL: libc finds
\* room at p, the block is registered, and l, the word of the caller's frame that
\* takes the result, holds p from then on.  Its words hold fill: nulls from
\* calloc, anything from malloc.
Alloc(l, p, n, d, fill) ==
    /\ CanPlace(p, n, {})
    /\ heap' = [heap EXCEPT ![p] = [owner |-> "gc", size |-> n, desc |-> d]]
    /\ mem' = [a \in Addr |-> IF a \in Span(p, n) THEN fill[a] ELSE mem[a]]
    /\ local' = [local EXCEPT ![l] = p]
    /\ UNCHANGED <<global, roots, pins, panic>>

\* malloc or realloc returned NULL: the panic comes before any registration.
OutOfMemory == Panic("out of memory")

\* Mutant: turf_gc_reregister_block leaves the pin at the old address.
ReallocStrandsPin(l, old, p, n, d, fill) ==
    /\ old \in GcStarts \cup ManualStarts
    /\ n > 0
    /\ CanPlace(p, n, {old})
    /\ heap' = [heap EXCEPT ![old] = NoChunk,
                            ![p] = [owner |-> "gc", size |-> n, desc |-> d]]
    /\ mem' = [a \in Addr |-> IF a \in Span(p, n) THEN fill[a] ELSE mem[a]]
    /\ local' = [local EXCEPT ![l] = p]
    /\ UNCHANGED <<global, roots, pins, panic>>

\* turf_rt_realloc of the chunk at old, in place (p = old) or to another
\* address: the contents move, the table entry moves
\* (turf_gc_reregister_block), and the pin moves with it.  A chunk of mem::alloc
\* has no entry to move: what comes back is registered afresh, and is the
\* collector's from then on.  realloc with size 0 frees the block and returns
\* NULL, which the caller takes for exhaustion.
Realloc(l, old, p, n, d, fill) ==
    /\ old \in GcStarts \cup ManualStarts
    /\ n > 0
    /\ CanPlace(p, n, {old})
    /\ heap' = [heap EXCEPT ![old] = NoChunk,
                            ![p] = [owner |-> "gc", size |-> n, desc |-> d]]
    /\ mem' = [a \in Addr |->
                  CASE a \in Span(p, n) -> IF old + (a - p) \in Words(old)
                                          THEN mem[old + (a - p)] ELSE fill[a]
                    [] a \in Footprint(old) \ Span(p, n) -> Null
                    [] OTHER -> mem[a]]
    /\ pins' = [pins EXCEPT ![old] = 0, ![p] = pins[old]]
    /\ local' = [local EXCEPT ![l] = p]
    /\ UNCHANGED <<global, roots, panic>>

\* mem::alloc: a chunk the collector has no entry for.
ManualAlloc(l, p, n) ==
    /\ CanPlace(p, n, {})
    /\ heap' = [heap EXCEPT ![p] = [owner |-> "manual", size |-> n,
                                    desc |-> Opaque]]
    /\ local' = [local EXCEPT ![l] = p]
    /\ UNCHANGED <<mem, global, roots, pins, panic>>

\* turf_rt_checked_free of what l holds: the start of a chunk of either heap.
CheckedFree(l) ==
    \/ /\ local[l] \in GcStarts
       /\ Panic("cross-heap free")
    \/ /\ local[l] \in ManualStarts
       /\ heap' = [heap EXCEPT ![local[l]] = NoChunk]
       /\ mem' = Wiped({local[l]})
       /\ UNCHANGED <<local, global, roots, pins, panic>>

\* turf_rt_pin of what l holds: the containing block's count goes up, and a
\* pointer into no block is ignored.
Pin(l) ==
    \E b \in Containing(local[l]) :
        /\ pins[b] < MaxPin
        /\ pins' = [pins EXCEPT ![b] = @ + 1]
        /\ UNCHANGED <<heap, mem, local, global, roots, panic>>

\* turf_rt_unpin: the same lookup; no entry to take one from is a panic.
Unpin(l) ==
    \E b \in Containing(local[l]) :
        IF pins[b] = 0
        THEN Panic("unpin of unpinned object")
        ELSE /\ pins' = [pins EXCEPT ![b] = @ - 1]
             /\ UNCHANGED <<heap, mem, local, global, roots, panic>>

\* turf_rt_add_global_root and turf_rt_remove_global_root: a list with
\* repetitions, from which one matching entry goes.
AddGlobalRoot(g) ==
    /\ roots[g] < MaxReg
    /\ roots' = [roots EXCEPT ![g] = @ + 1]
    /\ UNCHANGED <<heap, mem, local, global, pins, panic>>

RemoveGlobalRoot(g) ==
    /\ roots[g] > 0
    /\ roots' = [roots EXCEPT ![g] = @ - 1]
    /\ UNCHANGED <<heap, mem, local, global, pins, panic>>
-----------------------------------------------------------------------------
(* The compiled program between two calls.                                 *)

\* The words the program writes pointers to through what l holds: the declared
\* pointer words of a collected block, any word of a manual chunk.
PointerWords(l) ==
    (UNION {TracedWords(b) : b \in Containing(local[l])})
        \cup (UNION {Words(b) :
                     b \in {c \in ManualStarts : local[l] \in Words(c)}})

SetLocal(l, v) ==
    /\ local' = [local EXCEPT ![l] = v]
    /\ UNCHANGED <<heap, mem, global, roots, pins, panic>>

SetWord(a, v) ==
    /\ mem' = [mem EXCEPT ![a] = v]
    /\ UNCHANGED <<heap, local, global, roots, pins, panic>>

SetGlobal(g, v) ==
    /\ global' = [global EXCEPT ![g] = v]
    /\ UNCHANGED <<heap, mem, local, roots, pins, panic>>

\* Values come from where the program can see them: null, another local, a
\* global, a word of a block it holds, a neighbouring word of the same block.
Visible(l) ==
    {Null} \cup {local[k] : k \in Local} \cup {global[g] : g \in GlobalSlot}
        \cup {mem[a] : a \in PointerWords(l)}
        \cup (UNION {Words(b) : b \in Containing(local[l])})

Move ==
    \E l \in Local :
        \/ \E v \in Visible(l) : SetLocal(l, v)
        \/ \E a \in PointerWords(l), v \in Visible(l) : SetWord(a, v)
        \/ \E g \in GlobalSlot : SetGlobal(g, local[l])

\* The calls after which the collector may run (turf_gc_note_alloc).
Allocate ==
    \E l \in Local, p \in Addr, n \in Sizes, d \in Descs :
        \E fill \in [Span(p, n) -> Garbage \cup {Null}] :
            Alloc(l, p, n, d, fill) \/ Realloc(l, local[l], p, n, d, fill)

\* Everything else a program can do.
Other ==
    \/ Move
    \/ Sizes # {} /\ OutOfMemory
    \/ \E l \in Local, p \in Addr, n \in ManualSizes : ManualAlloc(l, p, n)
    \/ \E l \in Local : CheckedFree(l) \/ Pin(l) \/ Unpin(l)
    \/ \E g \in GlobalSlot : AddGlobalRoot(g) \/ RemoveGlobalRoot(g)

HeapTypeOK ==
    /\ heap \in [Addr -> Chunk]
    /\ mem \in [Addr -> Value]
    /\ local \in [Local -> Value]
    /\ global \in [GlobalSlot -> Value]
    /\ roots \in [GlobalSlot -> 0 .. MaxReg]
    /\ pins \in [Addr -> 0 .. MaxPin]
    /\ panic \in PanicKind
=============================================================================
