-------------------------------- MODULE Heap --------------------------------
(***************************************************************************)
(* The two users of the block list.  The kernel heap (kernel/src/mm/heap.rs)  *)
(* runs every operation under a lock with interrupts off, grows page by page   *)
(* into a window, and leaves the range it mapped in HEAP_TO_FLUSH, a pair of   *)
(* atomics, for flush_growth() to announce once the lock is dropped - unless   *)
(* the caller has interrupts off.  A service heap (user/rt/src/heap.rs) has     *)
(* one caller, the region of its boot information and a supplier with nothing  *)
(* more to give.                                                             *)
(***************************************************************************)
EXTENDS BlockList, FiniteSets, Functions

CONSTANTS Callers,        \* code that allocates
          Interrupts,     \* those of them that run with interrupts off
          Sizes, Aligns,  \* the requests made
          PAGE,           \* bytes in a page
          HEAP_START,     \* first byte of the window; 0 means no range
          HEAP_AT_BOOT,   \* bytes mapped by init()
          HEAP_RESERVE,   \* bytes in the window
          HEAP_GROW_MIN, HEAP_GROW_MAX,
          MAX_LIVE,       \* bound on the payloads alive at once
          None

ASSUME HeapAssumption ==
    /\ Interrupts \subseteq Callers /\ None \notin Callers
    /\ Aligns \subseteq {ALIGN * 2 ^ i : i \in 0 .. 4}
    /\ HEAP_START # 0 /\ \A n \in {HEAP_START, HEAP_AT_BOOT, HEAP_RESERVE} : n % PAGE = 0

VARIABLES kind,         \* whose heap it is: "kernel" or "service"
          blocks, regions,
          in_use,       \* Heap::in_use
          live,         \* the payloads handed out: [ptr, back, size, align]
          top,          \* FrameSupply::top
          torn,         \* pages are mapped above top: a supply failed half way
          start, end,   \* HEAP_TO_FLUSH
          lock,         \* KernelHeap::lock
          pc, want,     \* where each caller is, and its request
          first,        \* what flush_growth's first swap returned
          announced,    \* pages every CPU has been told about
          overwritten   \* pages whose pending range a later one replaced

heap == <<blocks, regions, in_use, live>>
growth == <<top, torn, start, end>>
flush == <<first, announced>>
vars == <<kind, heap, growth, lock, pc, want, flush, overwritten>>

NoWant == [size |-> 0, align |-> 0, old |-> None]

Init ==
    /\ kind \in {"kernel", "service"}
    /\ blocks = <<>> /\ regions = <<>> /\ in_use = 0 /\ live = {}
    /\ top = HEAP_START /\ torn = FALSE /\ start = 0 /\ end = 0
    /\ lock = None
    /\ pc = [x \in Callers |-> "off"]
    /\ want = [x \in Callers |-> NoWant]
    /\ first = [x \in Callers |-> 0]
    /\ announced = {} /\ overwritten = {}

Pages(a, b) == {p \in HEAP_START .. b - 1 : p >= a /\ p % PAGE = 0}
-----------------------------------------------------------------------------
(* The first region                                                         *)

FirstRegion ==
    /\ \A x \in Callers : pc[x] = "off"
    /\ LET r == [base |-> HEAP_START, len |-> HEAP_AT_BOOT]
       IN  /\ Accepts(regions, r)
           /\ blocks' = AddRegion(blocks, r)
           /\ regions' = Append(regions, r)
    /\ top' = top + HEAP_AT_BOOT
    /\ announced' = Pages(HEAP_START, top')
    /\ UNCHANGED <<kind, in_use, live, torn, start, end, lock, want, first, overwritten>>

\* heap::init() on the boot CPU.
Boot ==
    /\ kind = "kernel" /\ FirstRegion
    /\ pc' = [x \in Callers |-> "idle"]

\* A service's init() at its first allocation: only one caller is ever inside.
ServiceBoot ==
    /\ kind = "service" /\ FirstRegion
    /\ \E x \in Callers \ Interrupts : pc' = [pc EXCEPT ![x] = "idle"]

\* init() could not map its part of the window: the heap starts empty.
BootFails ==
    /\ kind = "kernel" /\ \A x \in Callers : pc[x] = "off"
    /\ torn' \in BOOLEAN
    /\ pc' = [x \in Callers |-> "idle"]
    /\ UNCHANGED <<kind, heap, top, start, end, lock, want, flush, overwritten>>
-----------------------------------------------------------------------------
(* Operations of the allocator                                              *)

Enters(x) == pc[x] = "idle" /\ lock = None

\* A kernel operation ends by looking for growth to announce, which
\* flush_growth() leaves alone with interrupts off.
Leave(x) ==
    pc' = [pc EXCEPT ![x] = IF kind = "kernel" /\ x \notin Interrupts THEN "flush" ELSE "idle"]

HeaderAt(p) == p.ptr - p.back

\* header_of(): the block a payload belongs to.
BlockOf(p) == CHOOSE i \in DOMAIN blocks : blocks[i].at = HeaderAt(p)

Resized(p, size) == (live \ {p}) \cup {[p EXCEPT !.size = size]}

Free(x, p) ==
    /\ Enters(x)
    /\ in_use' = in_use - blocks[BlockOf(p)].size
    /\ blocks' = GiveBlock(blocks, BlockOf(p))
    /\ live' = live \ {p}
    /\ Leave(x)
    /\ UNCHANGED <<kind, regions, growth, lock, want, flush, overwritten>>

\* A bug to catch: the size is derived from the request, not from where the
\* payload is.
NeedInPlaceAnew(p, size) == BlockFor(size, ALIGN)

\* A payload that stays needs the block to reach its end.
NeedInPlace(p, size) == AlignUp(p.back + size, ALIGN)

Shrink(x, p, size) ==
    /\ Enters(x)
    /\ LET i == BlockOf(p)
       IN  /\ NeedInPlace(p, size) <= blocks[i].size
           /\ blocks' = CutTo(blocks, i, NeedInPlace(p, size))
           /\ in_use' = in_use - blocks[i].size + blocks'[i].size
    /\ live' = Resized(p, size)
    /\ Leave(x)
    /\ UNCHANGED <<kind, regions, growth, lock, want, flush, overwritten>>

Grow(x, p, size) ==
    /\ Enters(x)
    /\ LET i == BlockOf(p)
           need == NeedInPlace(p, size)
       IN  /\ need > blocks[i].size /\ CanExtend(blocks, i, need)
           /\ blocks' = Extend(blocks, i, need)
           /\ in_use' = in_use - blocks[i].size + blocks'[i].size
    /\ live' = Resized(p, size)
    /\ Leave(x)
    /\ UNCHANGED <<kind, regions, growth, lock, want, flush, overwritten>>

\* Alloc, and the part of realloc that has to move the payload, keep the lock
\* until a block is found or the supplier has nothing more.
Begin(x, request) ==
    /\ Enters(x)
    /\ lock' = x
    /\ want' = [want EXCEPT ![x] = request]
    /\ pc' = [pc EXCEPT ![x] = "search"]
    /\ UNCHANGED <<kind, heap, growth, flush, overwritten>>

Alloc(x, size, align) ==
    /\ Cardinality(live) < MAX_LIVE
    /\ Begin(x, [size |-> size, align |-> align, old |-> None])

Move(x, p, size) ==
    /\ LET i == BlockOf(p)
       IN  NeedInPlace(p, size) > blocks[i].size /\ ~CanExtend(blocks, i, NeedInPlace(p, size))
    /\ Begin(x, [size |-> size, align |-> p.align, old |-> p])

NeedOf(w) == BlockFor(Larger(w.size, 1), w.align)

\* take_block() finds one; a payload being moved gives its old block back.
Found(x) ==
    /\ pc[x] = "search"
    /\ LET w == want[x]
       IN  \E i \in Fitting(blocks, NeedOf(w)) :
             LET at == blocks[i].at
                 ptr == AlignUp(at + HEADER, w.align)
                 new == [ptr |-> ptr, back |-> ptr - at, size |-> w.size, align |-> w.align]
                 taken == TakeBlock(blocks, i, NeedOf(w))
                 j == CHOOSE k \in DOMAIN taken : taken[k].at = HeaderAt(w.old)
             IN  IF w.old = None
                 THEN /\ blocks' = taken
                      /\ live' = live \cup {new}
                      /\ in_use' = in_use + taken[i].size
                 ELSE /\ blocks' = GiveBlock(taken, j)
                      /\ live' = (live \ {w.old}) \cup {new}
                      /\ in_use' = in_use + taken[i].size - taken[j].size
    /\ lock' = None
    /\ want' = [want EXCEPT ![x] = NoWant]
    /\ Leave(x)
    /\ UNCHANGED <<kind, regions, growth, flush, overwritten>>
-----------------------------------------------------------------------------
(* Growing                                                                  *)

Left == HEAP_START + HEAP_RESERVE - top

\* How much supply() asks for.
GrowBytes(need) ==
    AlignUp(Smaller(Smaller(Larger(need, HEAP_GROW_MIN), HEAP_GROW_MAX), Left), PAGE)

\* Nothing fits, the supplier maps pages at the top and publishes their end ...
Supply(x) ==
    /\ pc[x] = "search" /\ Fitting(blocks, NeedOf(want[x])) = {}
    /\ kind = "kernel" /\ Left >= PAGE /\ ~torn
    /\ top' = top + GrowBytes(NeedOf(want[x]))
    /\ end' = top'
    /\ first' = [first EXCEPT ![x] = top]
    /\ pc' = [pc EXCEPT ![x] = "supplied"]
    /\ UNCHANGED <<kind, heap, torn, start, lock, want, announced, overwritten>>

\* ... then their start.  The region joins the heap and the search starts again.
Supplied(x) ==
    /\ pc[x] = "supplied"
    /\ start' = first[x]
    /\ overwritten' = overwritten \cup (IF start = 0 THEN {} ELSE Pages(start, first[x]))
    /\ first' = [first EXCEPT ![x] = 0]
    /\ LET r == [base |-> first[x], len |-> top - first[x]]
       IN  IF Accepts(regions, r)
           THEN /\ blocks' = AddRegion(blocks, r)
                /\ regions' = Append(regions, r)
                /\ pc' = [pc EXCEPT ![x] = "search"]
                /\ UNCHANGED <<lock, want>>
           ELSE /\ lock' = None
                /\ want' = [want EXCEPT ![x] = NoWant]
                /\ Leave(x)
                /\ UNCHANGED <<blocks, regions>>
    /\ UNCHANGED <<kind, in_use, live, top, torn, end, announced>>

\* The supplier refuses or runs out of frames, possibly with some pages mapped;
\* a page that is mapped already makes every later attempt fail too.
NoRoom(x) ==
    /\ pc[x] = "search" /\ Fitting(blocks, NeedOf(want[x])) = {}
    /\ \/ kind = "service" /\ UNCHANGED torn
       \/ kind = "kernel" /\ Left < PAGE /\ UNCHANGED torn
       \/ kind = "kernel" /\ Left >= PAGE
            /\ torn' \in {torn, torn \/ GrowBytes(NeedOf(want[x])) > PAGE}
    /\ lock' = None
    /\ want' = [want EXCEPT ![x] = NoWant]
    /\ Leave(x)
    /\ UNCHANGED <<kind, heap, top, start, end, flush, overwritten>>
-----------------------------------------------------------------------------
(* Announcing growth                                                        *)

SwapStart(x) ==
    /\ pc[x] = "flush"
    /\ first' = [first EXCEPT ![x] = start]
    /\ start' = 0
    /\ pc' = [pc EXCEPT ![x] = "swapped"]
    /\ UNCHANGED <<kind, heap, top, torn, end, lock, want, announced, overwritten>>

\* A bug to catch: nothing is announced when there was no start to take.
SwapEndIfStarted(x) ==
    /\ pc[x] = "swapped"
    /\ announced' = announced \cup (IF first[x] = 0 THEN {} ELSE Pages(first[x], end))
    /\ end' = 0
    /\ first' = [first EXCEPT ![x] = 0]
    /\ pc' = [pc EXCEPT ![x] = "idle"]
    /\ UNCHANGED <<kind, heap, top, torn, start, lock, want, overwritten>>

\* The second swap, and flush_shared_range if it found an end.
SwapEnd(x) ==
    /\ pc[x] = "swapped"
    /\ announced' = announced \cup Pages(first[x], end)
    /\ end' = 0
    /\ first' = [first EXCEPT ![x] = 0]
    /\ pc' = [pc EXCEPT ![x] = "idle"]
    /\ UNCHANGED <<kind, heap, top, torn, start, lock, want, overwritten>>

Next ==
    \/ Boot \/ BootFails \/ ServiceBoot
    \/ \E x \in Callers :
          \/ Found(x) \/ Supply(x) \/ Supplied(x) \/ NoRoom(x)
          \/ SwapStart(x) \/ SwapEnd(x)
          \/ \E p \in live : Free(x, p)
          \/ \E size \in Sizes :
                \/ \E align \in Aligns : Alloc(x, size, align)
                \/ \E p \in live : \/ Shrink(x, p, size) \/ Grow(x, p, size)
                                   \/ Move(x, p, size)

Spec == Init /\ [][Next]_vars
-----------------------------------------------------------------------------
(* Properties                                                               *)

\* The blocks tile the heap: each begins where the one before it ends, from the
\* start of the window to its top, and no two free ones lie side by side ("two
\* free blocks side by side would leave the heap refusing requests").  Only
\* pages whose region was refused are outside.  The heap keeps to its window,
\* and the count of bytes in use is that of the blocks in use.
BlocksTileTheHeap ==
    blocks # <<>> =>
        /\ blocks[1].at = HEAP_START
        /\ End(Last(blocks)) = Last(regions).base + Last(regions).len
        /\ top <= HEAP_START + HEAP_RESERVE
        /\ in_use = FoldFunction(+, 0, [i \in DOMAIN blocks |->
                                           IF blocks[i].free THEN 0 ELSE blocks[i].size])
        /\ \A i \in 1 .. Len(blocks) - 1 :
              End(blocks[i]) = blocks[i + 1].at /\ ~(blocks[i].free /\ blocks[i + 1].free)

\* Every payload handed out is aligned and lies inside a block in use of its
\* own, whose header its back distance finds, through every split, merge,
\* resize, move and growth; and every block in use has one.
PayloadsAreTheirOwn ==
    /\ \A p \in live :
          /\ p.ptr % p.align = 0
          /\ \E i \in DOMAIN blocks :
                /\ blocks[i].at = HeaderAt(p) /\ ~blocks[i].free
                /\ p.back >= HEADER /\ p.ptr + p.size <= End(blocks[i])
    /\ \A p, q \in live : p # q => HeaderAt(p) # HeaderAt(q)
    /\ Cardinality(live) = Cardinality({i \in DOMAIN blocks : ~blocks[i].free})

\* The pages some caller still has in its hands to publish or to announce.
InHand(p) ==
    \E x \in Callers :
        \/ pc[x] = "supplied" /\ first[x] <= p
        \/ pc[x] = "swapped" /\ first[x] <= p /\ p < end

\* No growth is forgotten between the two atomics: a mapped page has been
\* announced, is in the pending range, or is in the hands of a caller that will
\* do one of those ("leaves the range pending for the next allocation that can
\* flush it", docs/ARCHITECTURE.md).  The known exception is a pending range
\* that the next growth overwrites.
GrowthStaysPending ==
    \A p \in Pages(HEAP_START, top) :
        p \in announced \/ (start # 0 /\ start <= p /\ p < end) \/ InHand(p) \/ p \in overwritten
=============================================================================
