------------------------------- MODULE MCFiles ------------------------------
(***************************************************************************)
(* A FAT12 volume with clusters of one sector, whose FAT has entries that      *)
(* lie in two sectors, and a FAT32 volume with clusters of two sectors and a    *)
(* root directory of three clusters, the last behind the end marker.  `f` ends  *)
(* inside a cluster, `svc` is a directory with the images a and b of the two    *)
(* services and the file g, whose chain on the first volume is too short for    *)
(* its size.                                                                   *)
(***************************************************************************)
EXTENDS Files

CONSTANTS c1, c2

File(name, c, size) == [kind |-> "file", name |-> name, cluster |-> c, size |-> size]
Dir(name, c) == [kind |-> "dir", name |-> name, cluster |-> c, size |-> 0]
Deleted == [kind |-> "skip", name |-> "f", cluster |-> 2, size |-> 1]
Mark == [kind |-> "end"]

\* What the paths of a run name.
Tree(f, svc, g) ==
    (<<>> :> Dir("/", Root)) @@ (<<"svc">> :> svc)
    @@ (<<"svc", "..", "f">> :> f) @@ (<<"svc", "g">> :> g)
    @@ [p \in {<<"f", "g">>, <<"f", ".">>, <<"long">>, <<"svc", "svc", "g">>} |-> NoEntry]

Vol12 ==
    LET f == File("f", 2, 5)
        svc == Dir("svc", 5)
        g == File("g", 9, 5)
    IN  [kind |-> "fat12", spc |-> 1, fat_start |-> 1, root_start |-> 4, root_sectors |-> 2,
         root_cluster |-> Root, data_start |-> 6,
         next |-> <<End, 3, 7, End, End, 10, 4, End, End, End>>,
         slots |-> (4 :> <<Deleted, f>>) @@ (5 :> <<svc, Mark>>)
                   @@ (9 :> <<File("a", 6, 3), File("b", 8, 1), g, Mark, f>>),
         tree |-> Tree(f, svc, g)]

Vol32 ==
    LET f == File("f", 5, 5)
        svc == Dir("svc", 4)
        g == File("g", 8, 2)
    IN  [kind |-> "fat32", spc |-> 2, fat_start |-> 1, root_start |-> 4, root_sectors |-> 0,
         root_cluster |-> 2, data_start |-> 4,
         next |-> <<End, 3, 9, End, 7, End, End, End, End>>,
         slots |-> (4 :> <<svc>>) @@ (5 :> <<Deleted>>) @@ (6 :> <<f>>) @@ (7 :> <<Mark>>)
                   @@ (8 :> <<File("a", 6, 3)>>) @@ (9 :> <<File("b", 6, 1), g>>) @@ (18 :> <<f>>) @@ (19 :> <<>>),
         tree |-> Tree(f, svc, g)]

MCVolumes == [twelve |-> Vol12, thirtytwo |-> Vol32]
MCBoot == <<[kind |-> "readme", path |-> <<"f">>],
            [kind |-> "manifest", path |-> <<"svc", "b">>],
            [kind |-> "image", path |-> <<"svc", "x">>, client |-> c1],
            [kind |-> "image", path |-> <<"long">>, client |-> c1],
            [kind |-> "image", path |-> <<"svc", "a">>, client |-> c1],
            [kind |-> "image", path |-> <<"svc", "b">>, client |-> c2]>>
Path(op, path) == [op |-> op, path |-> path]
List(path, max) == [op |-> "list", path |-> path, max |-> max]
MCAsks ==
    [twelve |-> (c1 :> {Path("open", <<"svc", "..", "f">>)})
                @@ (c2 :> {Path("open", <<"svc", "g">>), [op |-> "close", handle |-> 0]}),
     thirtytwo |-> (c1 :> {Path("open", <<"svc", "..", "f">>)})
                   @@ (c2 :> {Path("stat", <<>>), Path("stat", <<"svc">>), List(<<>>, 4), List(<<"svc">>, 1)})]
MCSpans == {<<3, 3>>, <<1, 4>>}
=============================================================================
