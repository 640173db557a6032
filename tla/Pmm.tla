-------------------------------- MODULE Pmm --------------------------------
(***************************************************************************)
(* The physical frame allocator (kernel/src/mm/pmm.rs) as operators on its   *)
(* bitmap.  A bitmap is a record: "used" holds the numbers of the frames      *)
(* whose bit is set, "free" and "hint" are the two counters the code keeps    *)
(* beside the bits.  Every operation runs under the allocator's lock with      *)
(* interrupts off, so each is one value.                                      *)
(***************************************************************************)
EXTENDS Integers, Sequences, FiniteSets, SequencesExt, FiniteSetsExt

CONSTANTS WORD,            \* frames per word of the map (64 in the code)
          WORDS_PER_FRAME, \* words that fit in one frame (512)
          MAP_SHARE,       \* the map may take this share of a region (8)
          MAX_RECLAIM      \* reclaimable regions that are remembered (16)

ASSUME PmmAssumption ==
    /\ {WORD, WORDS_PER_FRAME, MAP_SHARE} \subseteq Nat \ {0}
    /\ MAX_RECLAIM \in Nat

CeilDiv(a, b) == (a + b - 1) \div b

\* A region of the boot memory map, in frames.
Span(r) == r.base .. r.base + r.len - 1

SpanEnd(r) == r.base + r.len
-----------------------------------------------------------------------------
(* Building the map at boot                                                 *)

OfKind(regions, kind) == SelectSeq(regions, LAMBDA r : r.kind = kind)

EndOf(regions) == Max({0} \cup {SpanEnd(regions[i]) : i \in DOMAIN regions})

\* The first of the usable regions of greatest length holds the map.
Largest(regions) ==
    LET us == OfKind(regions, "usable")
    IN  us[Min({i \in DOMAIN us : \A j \in DOMAIN us : us[j].len <= us[i].len})]

\* The map reaches the end of the reclaimable memory unless that makes it take
\* more than its share of the region it lives in.
FramesMapped(regions) ==
    LET highest == EndOf(regions)
        budget == (Largest(regions).len * WORDS_PER_FRAME) \div MAP_SHARE
    IN  IF CeilDiv(highest, WORD) > budget
        THEN EndOf(OfKind(regions, "usable"))
        ELSE highest

BootBitmap(regions) ==
    LET frames == FramesMapped(regions)
        words == CeilDiv(frames, WORD)
        us == OfKind(regions, "usable")
        usable == UNION {Span(us[i]) : i \in DOMAIN us}
        at == Largest(regions).base
        own == at .. at + CeilDiv(words, WORDS_PER_FRAME) - 1
    IN  [words |-> words, frames |-> frames,
         used |-> ((0 .. words * WORD - 1) \ usable) \cup own,
         free |-> Cardinality(usable) - Cardinality(own), hint |-> 0]

\* The regions reclaim_bootloader() will give back.
Remembered(regions) ==
    LET rs == OfKind(regions, "reclaimable")
    IN  SubSeq(rs, 1, Min({Len(rs), MAX_RECLAIM}))

\* Every remembered frame the map reaches and has not freed already is freed.
ReclaimBootloader(bm, regions) ==
    LET rs == Remembered(regions)
        back == UNION {Span(rs[i]) : i \in DOMAIN rs}
                   \cap (0 .. bm.frames - 1) \cap bm.used
    IN  [bm EXCEPT !.used = @ \ back, !.free = @ + Cardinality(back)]
-----------------------------------------------------------------------------
(* Allocation and release                                                   *)

WordOf(i) == i \div WORD

Clear(bm) == (0 .. bm.words * WORD - 1) \ bm.used

\* The words in the order alloc() looks at them, and the lowest clear bit of
\* each, which counts only when it is inside the map.
Candidates(bm) ==
    LET word(step) == (WordOf(bm.hint) + step) % bm.words
        clear(step) == {i \in Clear(bm) : WordOf(i) = word(step)}
        hit == {s \in 0 .. bm.words - 1 : clear(s) # {} /\ Min(clear(s)) < bm.frames}
    IN  IF hit = {} THEN {} ELSE {Min(clear(Min(hit)))}

CanAlloc(bm) == Candidates(bm) # {}

NextFrame(bm) == CHOOSE i \in Candidates(bm) : TRUE

AllocFrame(bm) ==
    [bm EXCEPT !.used = @ \cup {NextFrame(bm)},
               !.free = @ - 1,
               !.hint = NextFrame(bm) + 1]

Release(bm, i) ==
    [bm EXCEPT !.used = @ \ {i}, !.free = @ + 1, !.hint = Min({@, i})]

ReleaseAll(bm, frames) == FoldSet(LAMBDA i, b : Release(b, i), bm, frames)

\* alloc_contiguous() counts clear bits without starting again at a set one, so
\* it takes the first "count" clear bits wherever they are: it marks everything
\* from the first to the last of them, and answers with the first.
ContiguousPick(bm, count) ==
    LET clear == SetToSortSeq(Clear(bm), <)
    IN  IF count = 0 \/ count > Len(clear) THEN {}
        ELSE IF clear[count] >= bm.frames THEN {}
        ELSE {<<clear[1], clear[count]>>}

AllocContiguous(bm, pick, count) ==
    [bm EXCEPT !.used = @ \cup (pick[1] .. pick[2]), !.free = @ - count]
=============================================================================
