------------------------------- MODULE Memory -------------------------------
(***************************************************************************)
(* Memory objects and user address spaces (kernel/src/obj/mod.rs,            *)
(* kernel/src/mm/vmm.rs and the mem_* and dev_map system calls) on top of the *)
(* frame allocator of module Pmm.  Tasks are spawned, create objects, share    *)
(* capabilities, map objects and device memory, and are reaped.  An object    *)
(* lives while a capability, a mapping or a system call refers to it.         *)
(*                                                                           *)
(* A page number stands for a virtual address; one leaf table serves SPAN     *)
(* pages, and the two levels above it, which a task allocates once, are left   *)
(* out.                                                                      *)
(***************************************************************************)
EXTENDS Pmm, Functions, TLC

CONSTANTS Tasks, Objects,
          Drivers,        \* the tasks that hold a device capability
          MemoryMaps,     \* boot memory maps to start from
          PAGES,          \* sizes of the objects created
          DMA_PAGES,      \* sizes of the contiguous objects created
          SPAN,           \* pages per leaf table (512)
          USER_PAGES,     \* pages of an image, its stack and its heap
          USER_MMAP_BASE, \* first page of the mappings area
          BAR,            \* the frames of a device's memory BAR, in order
          MAX_MAPPINGS,   \* bound on the mappings of one task
          MAX_BIRTHS,     \* bound on the tasks and objects of a behaviour
          None

ASSUME MemoryAssumption ==
    /\ SPAN \in Nat \ {0} /\ USER_PAGES < USER_MMAP_BASE
    /\ USER_MMAP_BASE % SPAN = 0
    /\ None \notin Objects \cup {BAR}
    /\ \A m \in MemoryMaps : FramesMapped(m) \notin Range(BAR)

VARIABLES regions,   \* the boot memory map
          bm,        \* PMM
          reclaimed, \* RECLAIMED
          doing,     \* where each task is
          space,     \* Task::addr_space
          caps,      \* the objects a task's table names
          frames,    \* MemoryObject::frames, <<>> when there is no object
          lost,      \* frames map_user_page() forgot
          births,    \* tasks and objects asked for so far
          spoiled    \* a mapping stopped half way, or a DMA run had a gap

vars == <<regions, bm, reclaimed, doing, space, caps, frames, lost, births, spoiled>>

Idle == [at |-> "idle", obj |-> None, want |-> 0, got |-> <<>>]

Gone == [Idle EXCEPT !.at = "none"]

NoSpace == [pml4 |-> None, tables |-> <<>>, pages |-> <<>>, shared |-> <<>>, next |-> 0]

Init ==
    /\ regions \in MemoryMaps
    /\ bm = BootBitmap(regions)
    /\ reclaimed = FALSE
    /\ doing = [t \in Tasks |-> Gone]
    /\ space = [t \in Tasks |-> NoSpace]
    /\ caps = [t \in Tasks |-> {}]
    /\ frames = [o \in Objects |-> <<>>]
    /\ lost = {}
    /\ births = 0
    /\ spoiled = FALSE
-----------------------------------------------------------------------------
(* Page tables.  A mapping in progress is [bm, sp, ok, lost].                *)

\* map_to(): a missing leaf table is allocated first; a page already present
\* is an error, and what was allocated stays.
MapTo(r, va, f) ==
    LET leaf == va \div SPAN
        new == leaf \notin DOMAIN r.sp.tables
    IN  IF ~r.ok \/ va \in DOMAIN r.sp.pages \/ (new /\ ~CanAlloc(r.bm))
        THEN [r EXCEPT !.ok = FALSE]
        ELSE [r EXCEPT !.bm = IF new THEN AllocFrame(@) ELSE @,
                       !.sp.tables = IF new THEN @ @@ (leaf :> NextFrame(r.bm)) ELSE @,
                       !.sp.pages = @ @@ (va :> f)]

\* The pages of "fs" from the next free address; nothing is undone when one fails.
MapAll(b, sp, fs) ==
    FoldLeft(LAMBDA r, i : MapTo(r, sp.next + i - 1, fs[i]),
             [bm |-> b, sp |-> sp, ok |-> TRUE, lost |-> {}],
             [i \in DOMAIN fs |-> i])

\* The next mapping starts behind a guard page.
RecordMapping(sp, n, owner) ==
    [sp EXCEPT !.next = @ + n + 1,
               !.shared = Append(@, [start |-> sp.next, pages |-> n, owner |-> owner])]

\* map_shared() and map_device().
MapForeign(b, sp, fs, owner) ==
    LET r == MapAll(b, sp, fs)
    IN  IF r.ok THEN [r EXCEPT !.sp = RecordMapping(@, Len(fs), owner)] ELSE r

\* map_user_page(): a frame of its own, forgotten when the mapping fails.
MapUserPage(r, va) ==
    IF ~r.ok \/ ~CanAlloc(r.bm) THEN [r EXCEPT !.ok = FALSE]
    ELSE LET f == NextFrame(r.bm)
             m == MapTo([r EXCEPT !.bm = AllocFrame(@)], va, f)
         IN  IF m.ok THEN m ELSE [m EXCEPT !.lost = @ \cup {f}]

\* AddressSpace::new() and the pages of a fresh task.
NewSpace(b) ==
    LET sp == [NoSpace EXCEPT !.pml4 = NextFrame(b), !.next = USER_MMAP_BASE]
    IN  FoldLeft(MapUserPage, [bm |-> AllocFrame(b), sp |-> sp, ok |-> TRUE, lost |-> {}],
                 [i \in 1 .. USER_PAGES |-> i - 1])

SharedPages(sp) ==
    UNION {m.start .. m.start + m.pages - 1 : m \in Range(sp.shared)}

\* A bug to catch: an address space frees the shared frames as well.
OwnFramesAll(sp) ==
    IF sp.pml4 = None THEN {}
    ELSE {sp.pml4} \cup Range(sp.tables) \cup {sp.pages[va] : va \in DOMAIN sp.pages}

\* What is left in the tables once the shared mappings are out of them is what
\* Drop gives back.
OwnFrames(sp) ==
    IF sp.pml4 = None THEN {}
    ELSE {sp.pml4} \cup Range(sp.tables)
            \cup {sp.pages[va] : va \in DOMAIN sp.pages \ SharedPages(sp)}
-----------------------------------------------------------------------------
(* Objects                                                                  *)

\* A bug to catch: a mapping does not keep its object alive.
ReferencedByCaps(o, cs, sps, ds) ==
    \E t \in Tasks : o \in cs[t] \/ ds[t].obj = o

\* The Arcs on an object: capabilities, mappings, and a mem_map under way.
Referenced(o, cs, sps, ds) ==
    \E t \in Tasks : \/ o \in cs[t]
                     \/ \E m \in Range(sps[t].shared) : m.owner = o
                     \/ ds[t].obj = o

\* Store the new state; the objects nothing refers to any more give their
\* frames back (MemoryObject::drop).
Settle(b, cs, sps, ds) ==
    LET dead == {o \in Objects : frames[o] # <<>> /\ ~Referenced(o, cs, sps, ds)}
    IN  /\ caps' = cs /\ space' = sps /\ doing' = ds
        /\ frames' = [o \in Objects |-> IF o \in dead THEN <<>> ELSE frames[o]]
        /\ bm' = ReleaseAll(b, UNION {Range(frames[o]) : o \in dead})

\* insert_cap() of a new object, for the first free name.
Enter(t, o, fs, b) ==
    /\ frames[o] = <<>>
    /\ frames' = [frames EXCEPT ![o] = fs]
    /\ caps' = [caps EXCEPT ![t] = @ \cup {o}]
    /\ doing' = [doing EXCEPT ![t] = Idle]
    /\ bm' = b

Born == births < MAX_BIRTHS /\ births' = births + 1

\* MemoryObject::new() takes the allocator's lock once per frame.
Create(t, n) ==
    /\ doing[t].at = "idle" /\ CanAlloc(bm)
    /\ doing' = [doing EXCEPT ![t] = [@ EXCEPT !.at = "create", !.want = n,
                                               !.got = <<NextFrame(bm)>>]]
    /\ bm' = AllocFrame(bm)
    /\ Born
    /\ UNCHANGED <<regions, reclaimed, space, caps, frames, lost, spoiled>>

CreateFrame(t) ==
    /\ doing[t].at = "create" /\ Len(doing[t].got) < doing[t].want /\ CanAlloc(bm)
    /\ doing' = [doing EXCEPT ![t].got = Append(@, NextFrame(bm))]
    /\ bm' = AllocFrame(bm)
    /\ UNCHANGED <<regions, reclaimed, space, caps, frames, lost, births, spoiled>>

CreateFails(t) ==
    /\ doing[t].at = "create" /\ Len(doing[t].got) < doing[t].want /\ ~CanAlloc(bm)
    /\ doing' = [doing EXCEPT ![t] = Idle]
    /\ bm' = ReleaseAll(bm, Range(doing[t].got))
    /\ UNCHANGED <<regions, reclaimed, space, caps, frames, lost, births, spoiled>>

CreateDone(t, o) ==
    /\ doing[t].at = "create" /\ Len(doing[t].got) = doing[t].want
    /\ Enter(t, o, doing[t].got, bm)
    /\ UNCHANGED <<regions, reclaimed, space, lost, births, spoiled>>

\* insert_cap() finds the table full, of whatever else the task holds, and the
\* new object is dropped at once.
CreateRefused(t) ==
    /\ doing[t].at = "create" /\ Len(doing[t].got) = doing[t].want
    /\ doing' = [doing EXCEPT ![t] = Idle]
    /\ bm' = ReleaseAll(bm, Range(doing[t].got))
    /\ UNCHANGED <<regions, reclaimed, space, caps, frames, lost, births, spoiled>>

\* The object is the "n" frames from the first one found, whatever was marked.
CreateDma(t, o, n) ==
    /\ doing[t].at = "idle"
    /\ \E pick \in ContiguousPick(bm, n) :
          /\ Enter(t, o, [i \in 1 .. n |-> pick[1] + i - 1], AllocContiguous(bm, pick, n))
          /\ spoiled' = (spoiled \/ pick[2] # pick[1] + n - 1)
    /\ Born
    /\ UNCHANGED <<regions, reclaimed, space, lost>>

\* Another task receives a copy of a capability.
Share(t, u, o) ==
    /\ doing[t].at = "idle" /\ doing[u].at # "none" /\ o \in caps[t] \ caps[u]
    /\ caps' = [caps EXCEPT ![u] = @ \cup {o}]
    /\ UNCHANGED <<regions, bm, reclaimed, doing, space, frames, lost, births, spoiled>>

\* cap_drop() by the holder or a revocation by somebody else.
Lose(t, o) ==
    /\ o \in caps[t]
    /\ Settle(bm, [caps EXCEPT ![t] = @ \ {o}], space, doing)
    /\ UNCHANGED <<regions, reclaimed, lost, births, spoiled>>
-----------------------------------------------------------------------------
(* Mapping                                                                  *)

\* sys_mem_map() looks the object up in one section and maps it in another.
MapLookup(t, o) ==
    /\ doing[t].at = "idle" /\ o \in caps[t] /\ Len(space[t].shared) < MAX_MAPPINGS
    /\ doing' = [doing EXCEPT ![t] = [@ EXCEPT !.at = "map", !.obj = o]]
    /\ UNCHANGED <<regions, bm, reclaimed, space, caps, frames, lost, births, spoiled>>

MapPages(t) ==
    /\ doing[t].at = "map"
    /\ LET o == doing[t].obj
           r == MapForeign(bm, space[t], frames[o], o)
       IN  /\ Settle(r.bm, caps, [space EXCEPT ![t] = r.sp], [doing EXCEPT ![t] = Idle])
           /\ spoiled' = (spoiled \/ (~r.ok /\ r.sp.pages # space[t].pages))
    /\ UNCHANGED <<regions, reclaimed, lost, births>>

DevMap(t) ==
    /\ doing[t].at = "idle" /\ t \in Drivers /\ Len(space[t].shared) < MAX_MAPPINGS
    /\ LET r == MapForeign(bm, space[t], BAR, BAR)
       IN  /\ bm' = r.bm
           /\ space' = [space EXCEPT ![t] = r.sp]
           /\ spoiled' = (spoiled \/ (~r.ok /\ r.sp.pages # space[t].pages))
    /\ UNCHANGED <<regions, reclaimed, doing, caps, frames, lost, births>>
-----------------------------------------------------------------------------
(* Tasks                                                                    *)

Spawn(t) ==
    /\ doing[t].at = "none" /\ CanAlloc(bm)
    /\ LET r == NewSpace(bm)
       IN  /\ r.ok
           /\ space' = [space EXCEPT ![t] = r.sp]
           /\ bm' = r.bm
    /\ doing' = [doing EXCEPT ![t] = Idle]
    /\ Born
    /\ UNCHANGED <<regions, reclaimed, caps, frames, lost, spoiled>>

\* A spawn that runs out of frames drops the address space it has built.
SpawnFails(t) ==
    /\ doing[t].at = "none" /\ CanAlloc(bm)
    /\ LET r == NewSpace(bm)
       IN  /\ ~r.ok
           /\ bm' = ReleaseAll(r.bm, OwnFrames(r.sp))
           /\ lost' = lost \cup r.lost
    /\ Born
    /\ UNCHANGED <<regions, reclaimed, doing, space, caps, frames, spoiled>>

Exit(t) ==
    /\ doing[t].at = "idle"
    /\ doing' = [doing EXCEPT ![t].at = "dead"]
    /\ UNCHANGED <<regions, bm, reclaimed, space, caps, frames, lost, births, spoiled>>

\* take_dead() empties the capability table, then the task and its address
\* space are dropped.
Reap(t) ==
    /\ doing[t].at = "dead"
    /\ Settle(ReleaseAll(bm, OwnFrames(space[t])), [caps EXCEPT ![t] = {}],
              [space EXCEPT ![t] = NoSpace], [doing EXCEPT ![t] = Gone])
    /\ UNCHANGED <<regions, reclaimed, lost, births, spoiled>>

Reclaim ==
    /\ ~reclaimed
    /\ reclaimed' = TRUE
    /\ bm' = ReclaimBootloader(bm, regions)
    /\ UNCHANGED <<regions, doing, space, caps, frames, lost, births, spoiled>>

Next ==
    \/ Reclaim
    \/ \E t \in Tasks :
          \/ Spawn(t) \/ SpawnFails(t) \/ Exit(t) \/ Reap(t)
          \/ CreateFrame(t) \/ CreateFails(t) \/ CreateRefused(t)
          \/ MapPages(t) \/ DevMap(t)
          \/ \E n \in PAGES : Create(t, n)
          \/ \E o \in Objects : \/ CreateDone(t, o) \/ Lose(t, o) \/ MapLookup(t, o)
                                \/ \E n \in DMA_PAGES : CreateDma(t, o, n)
                                \/ \E u \in Tasks : Share(t, u, o)

Spec == Init /\ [][Next]_vars
-----------------------------------------------------------------------------
(* Properties                                                               *)

\* Whoever answers for giving frames back, with those frames: the boot-time
\* reservation, a task's own pages and tables, an object, a creation in
\* progress, and the frames nobody answers for any more.
Holdings ==
    LET boot == BootBitmap(regions)
        kept == IF reclaimed THEN ReclaimBootloader(boot, regions).used ELSE boot.used
    IN  {<<t, OwnFrames(space[t])>> : t \in Tasks}
        \cup {<<o, Range(frames[o])>> : o \in Objects}
        \cup {<<t, Range(doing[t].got), "creating">> : t \in Tasks}
        \cup {<<"boot", kept>>, <<"lost", lost>>}

\* Every frame the allocator counts as used has exactly one owner, and every
\* owner's frames are used: no frame is handed out twice, freed under its owner
\* or forgotten.  The free counter agrees with the bits, and an allocation fails
\* only when it is zero, whatever the hint says.  The two known ways out of it, a
\* contiguous allocation across a gap and a mapping that stops half way, are
\* excepted by "spoiled".
EveryFrameHasOneOwner ==
    ~spoiled =>
        /\ bm.used = UNION {h[2] : h \in Holdings}
        /\ \A g, h \in Holdings : g # h => g[2] \cap h[2] = {}
        /\ bm.free = Cardinality(Clear(bm))
        /\ CanAlloc(bm) <=> bm.free > 0

\* A page mapped from an object shows that object's frame for as long as the
\* mapping exists, even when every capability is gone: "Frames are returned to
\* the PMM when the last capability and mapping are gone".
MappingsAreBacked ==
    \A t \in Tasks : \A m \in Range(space[t].shared) :
        m.owner \in Objects =>
            /\ Len(frames[m.owner]) = m.pages
            /\ \A i \in 1 .. m.pages : space[t].pages[m.start + i - 1] = frames[m.owner][i]

=============================================================================
