-------------------------------- MODULE Fat ---------------------------------
(***************************************************************************)
(* A read-only FAT volume (user/svc/fs/src/fat.rs) and paths on it            *)
(* (paths.rs): where the sectors of a cluster and of its FAT entry are, what   *)
(* a scan of directory sectors yields, and how a path is taken apart.  A       *)
(* volume is a record of its layout, its FAT (`next`), its directory sectors   *)
(* (`slots`) and, for reference, the entry each path really names (`tree`).    *)
(* A unit stands for a run of bytes; a sector has UNITS of them.              *)
(***************************************************************************)
EXTENDS Integers, Sequences, SequencesExt

CONSTANTS UNITS,      \* units in a sector
          FAT_UNITS,  \* clusters whose FAT entries start in one FAT sector
          MAX_DEPTH   \* directories a path may go through

End == -1       \* an end-of-chain value
Root == 0       \* the directory cluster that means the root

Lesser(a, b) == IF a < b THEN a ELSE b

ClusterUnits(vol) == vol.spc * UNITS

\* cluster_lba.
ClusterLba(vol, c) == vol.data_start + (c - 2) * vol.spc

\* next_cluster: the FAT sectors an entry lies in, in the order they are read.
\* A FAT12 entry may begin in the last byte of one and end in the next.
FatSectors(vol, c) ==
    LET s == vol.fat_start + c \div FAT_UNITS
    IN  IF vol.kind = "fat12" /\ c % FAT_UNITS = FAT_UNITS - 1 THEN <<s, s + 1>> ELSE <<s>>

\* scan_entries: the live entries up to the end-of-directory marker, over the
\* sectors read, and whether the marker was there.
Slotted(vol, lbas) == FoldLeft(LAMBDA acc, lba : acc \o vol.slots[lba], <<>>, lbas)
UpToMark(es) ==
    LET marks == {i \in DOMAIN es : es[i].kind = "end"}
    IN  IF marks = {} THEN es ELSE SubSeq(es, 1, (CHOOSE i \in marks : \A j \in marks : i <= j) - 1)
Live(es) == SelectSeq(UpToMark(es), LAMBDA e : e.kind \in {"file", "dir"})

\* A bug to catch: the scan goes on behind the marker.
MarkedNever(es) == FALSE

Marked(es) == \E i \in DOMAIN es : es[i].kind = "end"

\* lookup: the first entry of that name.
Named(es, name) == SelectSeq(es, LAMBDA e : e.name = name)

\* split_parent takes a path apart without the dots.
Parts(path) == SelectSeq(path, LAMBDA c : c # ".")

\* The units of a run of sectors.
Units(lbas) == FoldLeft(LAMBDA acc, lba : acc \o [i \in 1 .. UNITS |-> <<lba, i>>], <<>>, lbas)
-----------------------------------------------------------------------------
(* what the volume holds, to compare with                                   *)

\* The chain of clusters from c.
ChainFrom(vol, c) ==
    LET chain[n \in 0 .. Len(vol.next)] ==
          IF n = 0 THEN <<c>>
          ELSE LET before == chain[n - 1]
                   last == before[Len(before)]
               IN  IF last < 2 \/ vol.next[last] = End THEN before
                   ELSE Append(before, vol.next[last])
    IN  chain[Len(vol.next)]

\* A file's units, `count` of them from `offset`, up to its end or its chain's.
Contents(vol, e, offset, count) ==
    LET lbas == FoldLeft(LAMBDA acc, c : acc \o [i \in 1 .. vol.spc |-> ClusterLba(vol, c) + i - 1],
                         <<>>, ChainFrom(vol, e.cluster))
    IN  SubSeq(Units(lbas), offset + 1,
               Lesser(Lesser(offset + count, e.size), Len(lbas) * UNITS))

\* A directory's entries.
Listing(vol, c) ==
    LET lbas == IF c = Root /\ vol.kind # "fat32"
                THEN [i \in 1 .. vol.root_sectors |-> vol.root_start + i - 1]
                ELSE FoldLeft(LAMBDA acc, k : acc \o [i \in 1 .. vol.spc |-> ClusterLba(vol, k) + i - 1],
                              <<>>, ChainFrom(vol, IF c = Root THEN vol.root_cluster ELSE c))
    IN  Live(Slotted(vol, lbas))
=============================================================================
