------------------------------ MODULE BlockList ------------------------------
(***************************************************************************)
(* The block list of the allocator (crates/k1k-alloc/src/lib.rs) as operators *)
(* on a sequence of blocks [at, size, free] in list order.  A block's size     *)
(* includes its header; sizes and addresses are bytes, as in the code.         *)
(***************************************************************************)
EXTENDS Integers, Sequences, SequencesExt, FiniteSetsExt

CONSTANTS ALIGN,      \* 16
          HEADER,     \* 32
          MAX_REGIONS \* 1024

ASSUME BlockListAssumption ==
    /\ {ALIGN, HEADER, MAX_REGIONS} \subseteq Nat \ {0}
    /\ HEADER % ALIGN = 0

MIN_SPLIT == HEADER + ALIGN

Larger(a, b) == IF a < b THEN b ELSE a

Smaller(a, b) == IF a < b THEN a ELSE b

AlignUp(v, to) == ((v + to - 1) \div to) * to

\* The block a payload needs: header, payload, and slack to place it.
BlockFor(size, align) == AlignUp(size + HEADER + align - 1, ALIGN)

End(b) == b.at + b.size

\* A free block of "size" behind block i, absorbing a free one after it.
LinkFree(bs, i, size) ==
    LET absorb == i < Len(bs) /\ bs[i + 1].free
        new == [at |-> End(bs[i]), free |-> TRUE,
                size |-> size + (IF absorb THEN bs[i + 1].size ELSE 0)]
    IN  SubSeq(bs, 1, i) \o <<new>> \o SubSeq(bs, IF absorb THEN i + 2 ELSE i + 1, Len(bs))

\* Cut block i down to "keep" when what is left over can be a block.
CutTo(bs, i, keep) ==
    IF bs[i].size - keep < MIN_SPLIT THEN bs
    ELSE LinkFree([bs EXCEPT ![i].size = keep], i, bs[i].size - keep)

\* First fit: none or one index.
Fitting(bs, need) ==
    LET fit == {i \in DOMAIN bs : bs[i].free /\ bs[i].size >= need}
    IN  IF fit = {} THEN {} ELSE {Min(fit)}

TakeBlock(bs, i, need) == CutTo([bs EXCEPT ![i].free = FALSE], i, need)

\* Block i swallows the one after it.
Swallow(bs, i) == RemoveAt([bs EXCEPT ![i].size = @ + bs[i + 1].size], i + 1)

NextIsFree(bs, i) == i < Len(bs) /\ bs[i + 1].free

\* A bug to catch: a freed block is not merged with the one before it.
GiveBlockForward(bs, i) ==
    LET f == [bs EXCEPT ![i].free = TRUE]
    IN  IF NextIsFree(f, i) THEN Swallow(f, i) ELSE f

GiveBlock(bs, i) ==
    LET f == [bs EXCEPT ![i].free = TRUE]
        n == IF NextIsFree(f, i) THEN Swallow(f, i) ELSE f
    IN  IF i > 1 /\ n[i - 1].free THEN Swallow(n, i - 1) ELSE n

\* Whether block i can be made "need" bytes long where it is.
CanExtend(bs, i, need) == NextIsFree(bs, i) /\ bs[i].size + bs[i + 1].size >= need

\* Take over as much of the free neighbour as is needed.
Extend(bs, i, need) == CutTo(Swallow(bs, i), i, need)

\* A region that continues a free tail is folded into it.
AddRegion(bs, r) ==
    IF bs # <<>> /\ End(Last(bs)) = r.base /\ Last(bs).free
    THEN [bs EXCEPT ![Len(bs)].size = @ + r.len]
    ELSE Append(bs, [at |-> r.base, size |-> r.len, free |-> TRUE])

\* Too small, misaligned, one too many or overlapping regions are refused.
Accepts(regions, r) ==
    /\ r.len >= MIN_SPLIT /\ r.base % ALIGN = 0 /\ Len(regions) < MAX_REGIONS
    /\ \A i \in DOMAIN regions :
          r.base >= regions[i].base + regions[i].len \/ regions[i].base >= r.base + r.len
=============================================================================
