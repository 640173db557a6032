------------------------------ MODULE MCMemory ------------------------------
(***************************************************************************)
(* Instances of Memory: eight usable frames in one region or two, one of       *)
(* which holds the map, and boot-time memory to reclaim.  Two tasks of three   *)
(* frames each leave too few for everything they may ask, so every failure is  *)
(* reached.                                                                    *)
(***************************************************************************)
EXTENDS Memory

Region(kind, base, len) == [kind |-> kind, base |-> base, len |-> len]

\* The map covers the reclaimable region above RAM.
WholeMap == <<Region("usable", 1, 8), Region("reclaimable", 10, 1), Region("reclaimable", 11, 1)>>

\* The largest region is too small for that, so the map stops at the end of RAM;
\* a second usable region and a hole.
CutMap == <<Region("usable", 1, 2), Region("usable", 4, 6),
            Region("reclaimable", 3, 1), Region("reclaimable", 30, 2)>>

MCMaps == {WholeMap, CutMap}

MCBar == <<100, 101>>

\* Nothing is explored beyond a spoiled state.
Unspoiled == ~spoiled

Symmetry == Permutations(Tasks) \cup Permutations(Objects)
=============================================================================
