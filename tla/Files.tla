-------------------------------- MODULE Files -------------------------------
(***************************************************************************)
(* The file service (user/svc/fs), its clients (user/rt/src/file.rs) and the   *)
(* block service under it (BlockDevice.tla).  fs is one task: it mounts the    *)
(* volume, starts the services the manifest names, then serves one request at  *)
(* a time.  Every block it reads is a request to the driver and a wait for the *)
(* reply.  `fs` is what it is doing: `at` where, `by` for whom, `io` the       *)
(* sectors being read and where to go on after them, and the locals of the     *)
(* walk.                                                                      *)
(***************************************************************************)
EXTENDS BlockDevice, Fat, FiniteSets, FiniteSetsExt, TLC

CONSTANTS Clients,      \* the tasks of the services the manifest names
          Volumes,      \* by name, the volumes that may be on the disk
          Boot,         \* what fs reads when it starts: README, manifest, images
          Asks,         \* by volume, the requests of each client besides those on its files
          Spans,        \* the <<offset, count>> of reads
          MAX_BLOCKS, MAX_OPEN, MAX_CLIENTS, MAX_READ, README_MAX,
          NoEntry, Nobody

VARIABLES vol, fs,
          cached,   \* the FAT sector in memory
          todo,     \* the next entry of Boot
          open,     \* the open-file table
          slots, cursor,  \* Server: the client table
          serve,    \* the endpoint fs serves on
          cl,       \* each client: [at, req, handles]
          mail,     \* each client's reply endpoint
          shm       \* the data area of each client's buffer

fsVars == <<vol, fs, cached, todo, open, slots, cursor, serve, cl, mail, shm>>
vars == <<devVars, fsVars>>

Disk == Volumes[vol]
NoReq == [op |-> "none"]
NoIo == [lba |-> 0, left |-> 0, got |-> <<>>, then |-> "none"]
At(where) == [at |-> where, by |-> Nobody, req |-> NoReq, io |-> NoIo, parts |-> <<>>,
              stack |-> <<>>, seek |-> "none", cluster |-> Root, rest |-> 0, seen |-> <<>>,
              entry |-> NoEntry, need |-> <<>>, goal |-> "none", pos |-> 0, out |-> <<>>]
FreeSlot == [task |-> Nobody, reply |-> FALSE, buf |-> FALSE]

Init ==
    /\ DevInit
    /\ vol \in DOMAIN Volumes
    /\ fs = At("down") /\ cached = End /\ todo = 1
    /\ open = [h \in 1 .. MAX_OPEN |-> NoEntry]
    /\ slots = [i \in 0 .. MAX_CLIENTS - 1 |-> FreeSlot] /\ cursor = 0
    /\ serve = <<>>
    /\ cl = [c \in Clients |-> [at |-> "off", req |-> NoReq, handles |-> {}]]
    /\ mail = [c \in Clients |-> <<>>]
    /\ shm = [c \in Clients |-> <<>>]
-----------------------------------------------------------------------------
(* block reads                                                              *)

\* The sectors to read next, and where to go on once they are there.
Reading(job, lba, n, then) ==
    [job EXCEPT !.at = "wait", !.io = [lba |-> lba, left |-> n, got |-> <<>>, then |-> then]]

\* Blk::read: one request of at most MAX_BLOCKS, and a wait for the reply.
Sends == IF fs'.at = "wait" THEN AskFor(fs'.io.lba, Lesser(fs'.io.left, MAX_BLOCKS))
         ELSE UNCHANGED devVars

\* main: the buffer and the reply endpoint are handed to blk; mount reads the
\* boot sector.
FsStart ==
    /\ fs.at = "down"
    /\ fs' = Reading(At("down"), 0, 1, "mounted")
    /\ cached' = End /\ todo' = 1
    /\ Sends
    /\ UNCHANGED <<vol, open, slots, cursor, serve, cl, mail, shm>>

\* The next of the blocks a caller wants.
SendRead ==
    /\ fs.at = "next"
    /\ fs' = [fs EXCEPT !.at = "wait"]
    /\ Sends
    /\ UNCHANGED <<vol, cached, todo, open, slots, cursor, serve, cl, mail, shm>>

\* A good answer: the blocks are copied out of the shared buffer.
ReadOk ==
    /\ fs.at = "wait" /\ answer = "ok" /\ holds
    /\ TakeAnswer
    /\ fs' = [fs EXCEPT
                 !.at = IF fs.io.left = want.n THEN fs.io.then ELSE "next",
                 !.io = [@ EXCEPT !.lba = @ + want.n, !.left = @ - want.n,
                                  !.got = @ \o Blocks(want.lba, want.n)]]
    /\ UNCHANGED <<vol, cached, todo, open, slots, cursor, serve, cl, mail, shm>>
-----------------------------------------------------------------------------
(* the end of a request, and of a part of the start                         *)

SlotOf(c) == {i \in DOMAIN slots : slots[i].task = c}

\* Server::reply: only a client in the table with a reply endpoint is answered.
Answered(c, status, n, data, fault) ==
    /\ mail' = IF \E i \in SlotOf(c) : slots[i].reply
               THEN [mail EXCEPT ![c] = Append(@, [status |-> status, n |-> n, fault |-> fault])]
               ELSE mail
    /\ shm' = [shm EXCEPT ![c] = data]
    /\ fs' = At("recv")
    /\ UNCHANGED <<todo, cl>>

\* A service is skipped if its image cannot be had; all are if the manifest
\* cannot.
Skipped ==
    /\ todo' = IF Boot[todo].kind = "manifest" THEN Len(Boot) + 1 ELSE todo + 1
    /\ fs' = At("boot")
    /\ UNCHANGED <<cl, mail, shm>>

\* A bug to catch: the client of a failed request is not told.
FailsSilently(status, fault) ==
    IF fs.by = Nobody THEN Skipped
    ELSE fs' = At("recv") /\ UNCHANGED <<todo, cl, mail, shm>>

\* ?, and the arms of the operations that answer an error.
Fails(status, fault) ==
    IF fs.by = Nobody THEN Skipped ELSE Answered(fs.by, status, 0, <<>>, fault)

\* A failed read: mount gives up and fs is started anew; a failure on the way
\* to the parent directory is reported as a missing file.
ReadFails ==
    /\ fs.at = "wait" /\ answer = "error"
    /\ TakeAnswer
    /\ IF fs.io.then = "mounted"
       THEN fs' = At("down") /\ UNCHANGED <<todo, cl, mail, shm>>
       ELSE Fails(IF fs.seek = "parent" THEN "NOENT" ELSE "IO", TRUE)
    /\ UNCHANGED <<vol, cached, open, slots, cursor, serve>>
-----------------------------------------------------------------------------
(* paths and directories                                                    *)

\* split_parent and lookup, from the first part of the path on.
Seek(job, path) == [job EXCEPT !.at = "seek", !.parts = Parts(path)]

InDir(job) == IF job.stack = <<>> THEN Root ELSE Last(job.stack)

\* read_dir begins: the root of FAT12/16 is a run of sectors, any other
\* directory a chain of clusters.
ReadDir(job, dir) ==
    LET n == Lesser(Disk.root_sectors, MAX_BLOCKS)
    IN  IF dir = Root /\ Disk.kind # "fat32"
        THEN Reading([job EXCEPT !.rest = Disk.root_sectors - n, !.cluster = Root, !.seen = <<>>],
                     Disk.root_start, n, "scan")
        ELSE LET c == IF dir = Root THEN Disk.root_cluster ELSE dir
             IN  Reading([job EXCEPT !.cluster = c, !.seen = <<>>], ClusterLba(Disk, c), Disk.spc, "scan")

\* One component: the last is looked up in the directory reached, any other
\* must be a directory; `..` steps back, and never above the root.
Resolve ==
    /\ fs.at = "seek"
    /\ LET parts == fs.parts
       IN  \/ /\ parts # <<>> /\ Head(parts) = ".."
              /\ fs' = [fs EXCEPT !.parts = Tail(parts),
                                  !.stack = IF @ = <<>> THEN @ ELSE Front(@)]
              /\ UNCHANGED <<todo, cl, mail, shm>>
           \/ /\ \/ parts = <<>>
                 \/ Head(parts) = "long"
                 \/ Len(parts) = 1 /\ Last(fs.req.path) = "." /\ Head(parts) # ".."
                 \/ Len(parts) > 1 /\ Head(parts) # ".." /\ Len(fs.stack) >= MAX_DEPTH
              /\ Fails("NOENT", FALSE)
           \/ /\ parts # <<>> /\ Head(parts) \notin {"..", "long"}
              /\ IF Len(parts) = 1 THEN Last(fs.req.path) # "." ELSE Len(fs.stack) < MAX_DEPTH
              /\ fs' = ReadDir([fs EXCEPT !.seek = IF Len(parts) = 1 THEN "leaf" ELSE "parent"],
                               InDir(fs))
              /\ UNCHANGED <<todo, cl, mail, shm>>
    /\ Sends
    /\ UNCHANGED <<vol, cached, open, slots, cursor, serve>>

\* next_cluster is asked for the cluster after this one.
Chain(job, goal) == [job EXCEPT !.at = "fat", !.goal = goal, !.need = FatSectors(Disk, job.cluster),
                                !.io = NoIo]

\* The sectors read are scanned; without an end marker the scan goes on.
Scan ==
    /\ fs.at = "scan"
    /\ LET es == Slotted(Disk, fs.io.got)
           job == [fs EXCEPT !.seen = @ \o Live(es), !.io = NoIo]
           n == Lesser(fs.rest, MAX_BLOCKS)
       IN  fs' = IF Marked(es) \/ (fs.cluster = Root /\ fs.rest = 0)
                 THEN [job EXCEPT !.at = "found", !.rest = 0]
                 ELSE IF fs.cluster = Root
                 THEN Reading([job EXCEPT !.rest = @ - n], fs.io.lba, n, "scan")
                 ELSE Chain(job, "dir")
    /\ Sends
    /\ UNCHANGED <<vol, cached, todo, open, slots, cursor, serve, cl, mail, shm>>
-----------------------------------------------------------------------------
(* following a chain                                                        *)

\* fat_sector: the sector in memory is the one wanted, or it is read.
FatSector ==
    /\ fs.at = "fat" /\ fs.need # <<>>
    /\ fs' = IF cached = Head(fs.need) THEN [fs EXCEPT !.need = Tail(@)]
             ELSE Reading(fs, Head(fs.need), 1, "fatread")
    /\ Sends
    /\ UNCHANGED <<vol, cached, todo, open, slots, cursor, serve, cl, mail, shm>>

FatRead ==
    /\ fs.at = "fatread"
    /\ cached' = Head(fs.need)
    /\ fs' = [fs EXCEPT !.at = "fat", !.need = Tail(@), !.io = NoIo]
    /\ UNCHANGED <<devVars, vol, todo, open, slots, cursor, serve, cl, mail, shm>>

ReadCluster(job, c, then) == Reading([job EXCEPT !.cluster = c], ClusterLba(Disk, c), Disk.spc, then)

\* The entry is known: read_dir, read_file and read_at go on from the cluster
\* it names, or end; a chain too short for the walk of read_at is an error.
Link ==
    /\ fs.at = "fat" /\ fs.need = <<>>
    /\ LET c == Disk.next[fs.cluster]
           job == [fs EXCEPT !.goal = "none"]
       IN  IF fs.goal \in {"walk", "more"} /\ c = End
           THEN Fails("IO", FALSE)
           ELSE /\ \/ /\ fs.goal = "dir"
                      /\ fs' = IF c = End THEN [job EXCEPT !.at = "found"]
                               ELSE ReadCluster(job, c, "scan")
                   \/ /\ fs.goal = "load"
                      /\ fs' = IF c = End \/ Len(fs.out) = fs.entry.size
                               THEN [job EXCEPT !.at = "loaded"] ELSE ReadCluster(job, c, "data")
                   \/ /\ fs.goal = "walk"
                      /\ fs' = [job EXCEPT !.at = "walk", !.cluster = c]
                   \/ /\ fs.goal = "more"
                      /\ fs' = ReadCluster(job, c, "data")
                /\ UNCHANGED <<todo, cl, mail, shm>>
    /\ Sends
    /\ UNCHANGED <<vol, cached, open, slots, cursor, serve>>

\* read_at goes to the cluster that holds the offset.
Walk ==
    /\ fs.at = "walk"
    /\ fs' = IF fs.pos < ClusterUnits(Disk) THEN ReadCluster(fs, fs.cluster, "data")
             ELSE Chain([fs EXCEPT !.pos = @ - ClusterUnits(Disk)], "walk")
    /\ Sends
    /\ UNCHANGED <<vol, cached, todo, open, slots, cursor, serve, cl, mail, shm>>

\* A bug to catch: the offset is left out of what remains of the file.
WantedPast == IF fs.by = Nobody THEN fs.entry.size ELSE Lesser(fs.req.count, fs.entry.size)

\* How much of the file is wanted, and the part of it this cluster has.
Wanted == IF fs.by = Nobody THEN fs.entry.size
          ELSE Lesser(fs.req.count, fs.entry.size - fs.req.offset)
Copied ==
    LET n == Lesser(Wanted - Len(fs.out), ClusterUnits(Disk) - fs.pos)
    IN  fs.out \o SubSeq(Units(fs.io.got), fs.pos + 1, fs.pos + n)

Data ==
    /\ fs.at = "data"
    /\ LET job == [fs EXCEPT !.out = Copied, !.pos = 0]
       IN  IF fs.by # Nobody /\ Len(Copied) = Wanted
           THEN Answered(fs.by, "OK", Wanted, Copied, FALSE)
           ELSE /\ fs' = Chain(job, IF fs.by = Nobody THEN "load" ELSE "more")
                /\ UNCHANGED <<todo, cl, mail, shm>>
    /\ UNCHANGED <<devVars, vol, cached, open, slots, cursor, serve>>
-----------------------------------------------------------------------------
(* what a directory scan was for                                            *)

\* A bug to catch: the slot picked may be in use.
FreeHandlesAny == DOMAIN open

\* op_open: the slots that are free.
FreeHandles == {h \in DOMAIN open : open[h] = NoEntry}

\* op_open with the entry found: a handle is its slot's number, from one.
Opened(e) ==
    IF e.kind = "dir" THEN Fails("ISDIR", FALSE) /\ UNCHANGED open
    ELSE IF FreeHandles = {} THEN Fails("NOSPC", FALSE) /\ UNCHANGED open
    ELSE LET h == Min(FreeHandles)
         IN  /\ open' = [open EXCEPT ![h] = e]
             /\ Answered(fs.by, "OK", h, <<>>, FALSE)

\* show_readme, read_manifest, start_one: what is worth loading.
Loadable(e) ==
    /\ e.kind = "file" /\ e.size > 0
    /\ Boot[todo].kind = "readme" => e.size <= README_MAX

FoundLeaf(e) ==
    \/ /\ fs.by = Nobody
       /\ IF Loadable(e)
          THEN /\ fs' = ReadCluster([fs EXCEPT !.entry = e, !.seen = <<>>], e.cluster, "data")
               /\ UNCHANGED <<todo, cl, mail, shm>>
          ELSE Skipped
       /\ UNCHANGED open
    \/ fs.req.op = "open" /\ Opened(e)
    \/ /\ fs.req.op = "stat"
       /\ Answered(fs.by, "OK", e.size, <<e.kind>>, FALSE)
       /\ UNCHANGED open
    \/ /\ fs.req.op = "list"
       /\ IF e.kind = "dir"
          THEN /\ fs' = ReadDir([fs EXCEPT !.seek = "list"], e.cluster)
               /\ UNCHANGED <<todo, cl, mail, shm>>
          ELSE Fails("NOTDIR", FALSE)
       /\ UNCHANGED open

\* The directory is read to its end: lookup has its answer, or op_list has.
Found ==
    /\ fs.at = "found"
    /\ \/ /\ fs.seek = "list"
          /\ LET n == Lesser(fs.req.max, Len(fs.seen))
             IN  Answered(fs.by, "OK", n, SubSeq(fs.seen, 1, n), FALSE)
          /\ UNCHANGED open
       \/ /\ fs.seek # "list"
          /\ LET hits == Named(fs.seen, Head(fs.parts))
             IN  IF hits = <<>> \/ (fs.seek = "parent" /\ Head(hits).kind # "dir")
                 THEN Fails("NOENT", FALSE) /\ UNCHANGED open
                 ELSE IF fs.seek = "parent"
                 THEN /\ fs' = [fs EXCEPT !.at = "seek", !.parts = Tail(@), !.seen = <<>>,
                                          !.stack = Append(@, Head(hits).cluster)]
                      /\ UNCHANGED <<todo, cl, mail, shm, open>>
                 ELSE FoundLeaf(Head(hits))
    /\ Sends
    /\ UNCHANGED <<vol, cached, slots, cursor, serve>>
-----------------------------------------------------------------------------
(* starting                                                                 *)

Mounted ==
    /\ fs.at = "mounted"
    /\ fs' = At("boot")
    /\ UNCHANGED <<devVars, vol, cached, todo, open, slots, cursor, serve, cl, mail, shm>>

\* The next file fs needs to start, or the request loop.
BootNext ==
    /\ fs.at = "boot"
    /\ fs' = IF todo > Len(Boot) THEN At("recv")
             ELSE Seek([At("seek") EXCEPT !.req = [op |-> "load", path |-> Boot[todo].path]],
                       Boot[todo].path)
    /\ UNCHANGED <<devVars, vol, cached, todo, open, slots, cursor, serve, cl, mail, shm>>

\* A file is in memory: an image is handed to spawn, which may refuse it.
Loaded ==
    /\ fs.at = "loaded"
    /\ \E started \in BOOLEAN :
         cl' = IF started /\ Boot[todo].kind = "image"
               THEN [cl EXCEPT ![Boot[todo].client].at = "new"] ELSE cl
    /\ todo' = todo + 1
    /\ fs' = At("boot")
    /\ UNCHANGED <<devVars, vol, cached, open, slots, cursor, serve, mail, shm>>
-----------------------------------------------------------------------------
(* Server::recv and dispatch                                                *)

\* slot_of_or_new: the client's slot, or the next free one after the cursor.
SlotFor(c) ==
    LET free == {k \in 1 .. MAX_CLIENTS : slots[(cursor + k) % MAX_CLIENTS] = FreeSlot}
    IN  IF SlotOf(c) # {} THEN SlotOf(c)
        ELSE IF free = {} THEN {} ELSE {(cursor + Min(free)) % MAX_CLIENTS}

\* CONNECT and REGISTER_BUF fill in their half of the client's slot; the buffer
\* may fail to map.
Handshake(c, half) ==
    /\ \E done \in (IF half = "buf" THEN BOOLEAN ELSE {TRUE}) :
         slots' = [i \in DOMAIN slots |->
                     IF i \notin SlotFor(c) THEN slots[i]
                     ELSE IF half = "buf" THEN [slots[i] EXCEPT !.task = c, !.buf = done]
                     ELSE [slots[i] EXCEPT !.task = c, !.reply = TRUE]]
    /\ cursor' = IF SlotOf(c) # {} \/ SlotFor(c) = {} THEN cursor ELSE Min(SlotFor(c))
    /\ UNCHANGED <<open, fs, todo, cl, mail, shm>>

\* read_at: nothing is left to read from there.
AtEnd(e, offset) == offset >= e.size

OpRead(job, req) ==
    LET e == IF req.handle \in DOMAIN open THEN open[req.handle] ELSE NoEntry
    IN  IF req.count = 0 THEN Answered(req.from, "OK", 0, <<>>, FALSE)
        ELSE IF req.count > MAX_READ THEN Answered(req.from, "TOOBIG", 0, <<>>, FALSE)
        ELSE IF e = NoEntry THEN Answered(req.from, "BADF", 0, <<>>, FALSE)
        ELSE IF AtEnd(e, req.offset) THEN Answered(req.from, "OK", 0, <<>>, FALSE)
        ELSE /\ fs' = [job EXCEPT !.at = "walk", !.entry = e, !.cluster = e.cluster,
                                  !.pos = req.offset]
             /\ UNCHANGED <<todo, cl, mail, shm>>

\* op_close.
Closed(h) == [open EXCEPT ![h] = NoEntry]

Dispatch(req) ==
    LET job == [At("recv") EXCEPT !.by = req.from, !.req = req]
    IN  IF ~\E i \in SlotOf(req.from) : slots[i].buf
        THEN Answered(req.from, "NOCONN", 0, <<>>, FALSE) /\ UNCHANGED open
        ELSE \/ /\ req.op = "read"
                /\ OpRead(job, req)
                /\ UNCHANGED open
             \/ /\ req.op = "close"
                /\ IF req.handle \in DOMAIN open /\ open[req.handle] # NoEntry
                   THEN open' = Closed(req.handle) /\ Answered(req.from, "OK", 0, <<>>, FALSE)
                   ELSE UNCHANGED open /\ Answered(req.from, "BADF", 0, <<>>, FALSE)
             \/ /\ req.op \in {"open", "stat", "list"}
                /\ \/ /\ req.path # <<>> \/ req.op = "open"
                      /\ fs' = Seek(job, req.path)
                      /\ UNCHANGED <<todo, cl, mail, shm>>
                   \/ /\ req.path = <<>> /\ req.op = "stat"
                      /\ Answered(req.from, "OK", 0, <<"dir">>, FALSE)
                   \/ /\ req.path = <<>> /\ req.op = "list"
                      /\ fs' = ReadDir([job EXCEPT !.seek = "list"], Root)
                      /\ UNCHANGED <<todo, cl, mail, shm>>
                /\ UNCHANGED open

Serve ==
    /\ fs.at = "recv" /\ serve # <<>>
    /\ serve' = Tail(serve)
    /\ LET m == Head(serve)
       IN  \/ m.op = "connect" /\ Handshake(m.from, "reply")
           \/ m.op = "register_buf" /\ Handshake(m.from, "buf")
           \/ /\ m.op = "bye"
              /\ slots' = [i \in DOMAIN slots |-> IF slots[i].task = m.from THEN FreeSlot ELSE slots[i]]
              /\ UNCHANGED <<cursor, open, fs, todo, cl, mail, shm>>
           \/ /\ m.op \notin {"connect", "register_buf", "bye"}
              /\ Dispatch(m)
              /\ UNCHANGED <<slots, cursor>>
    /\ Sends
    /\ UNCHANGED <<vol, cached>>
-----------------------------------------------------------------------------
(* FileClient                                                               *)

Post(c, m) == serve' = Append(serve, m @@ [from |-> c])

\* FileClient::new: first the reply endpoint, then the buffer.
Connect(c) ==
    /\ \/ cl[c].at = "new" /\ cl' = [cl EXCEPT ![c].at = "half"] /\ Post(c, [op |-> "connect"])
       \/ cl[c].at = "half" /\ cl' = [cl EXCEPT ![c].at = "ready"] /\ Post(c, [op |-> "register_buf"])
    /\ UNCHANGED <<devVars, vol, fs, cached, todo, open, slots, cursor, mail, shm>>

\* What a client may ask next: a path, or something of a file it has open.
Wishes(c) ==
    LET hs == {f.handle : f \in cl[c].handles}
    IN  Asks[vol][c] \cup [op : {"close"}, handle : hs]
                \cup {[op |-> "read", handle |-> h, offset |-> s[1], count |-> s[2]] : h \in hs, s \in Spans}

\* request: the arguments go into the buffer, the message to the server.
Ask(c) ==
    /\ cl[c].at = "ready"
    /\ \E r \in Wishes(c) :
         /\ cl' = [cl EXCEPT ![c].at = "asked", ![c].req = r]
         /\ Post(c, r)
    /\ UNCHANGED <<devVars, vol, fs, cached, todo, open, slots, cursor, mail, shm>>

\* The reply: open keeps the handle, close forgets it, read copies the data.
Hear(c) ==
    /\ cl[c].at = "asked" /\ mail[c] # <<>>
    /\ LET m == Head(mail[c])
           r == cl[c].req
           held == IF r.op = "open" /\ m.status = "OK"
                   THEN cl[c].handles \cup {[handle |-> m.n, path |-> r.path]}
                   ELSE IF r.op = "close" THEN {f \in cl[c].handles : f.handle # r.handle}
                   ELSE cl[c].handles
       IN  cl' = [cl EXCEPT ![c] = [at |-> "ready", req |-> NoReq, handles |-> held]]
    /\ mail' = [mail EXCEPT ![c] = Tail(@)]
    /\ shm' = [shm EXCEPT ![c] = <<>>]
    /\ UNCHANGED <<devVars, vol, fs, cached, todo, open, slots, cursor, serve>>

\* disconnect, and the end of the client; or its end without a word.
Depart(c) ==
    /\ \/ cl[c].at = "ready" /\ Post(c, [op |-> "bye"])
       \/ cl[c].at \in {"half", "ready", "asked"} /\ UNCHANGED serve
    /\ LET closing == cl[c].at = "asked" /\ cl[c].req.op = "close"
       IN  cl' = [cl EXCEPT ![c] = [at |-> "gone", req |-> NoReq,
                                    handles |-> {f \in @.handles : ~(closing /\ f.handle = @.req.handle)}]]
    /\ UNCHANGED <<devVars, vol, fs, cached, todo, open, slots, cursor, mail, shm>>
-----------------------------------------------------------------------------
FsStep ==
    \/ FsStart \/ SendRead \/ ReadOk \/ ReadFails
    \/ Resolve \/ Scan \/ FatSector \/ FatRead \/ Link \/ Walk \/ Data \/ Found
    \/ Mounted \/ BootNext \/ Loaded \/ Serve

\* The device, for as long as it keeps its promise.
Device == Answer /\ ~faulty' /\ UNCHANGED fsVars

Next ==
    \/ Device \/ FsStep
    \/ \E c \in Clients : Connect(c) \/ Ask(c) \/ Hear(c) \/ Depart(c)

\* fs and its clients are scheduled again and again, and the driver answers
\* (Nvme.tla: ReadsAreAnswered).
Fairness ==
    /\ WF_vars(FsStep) /\ WF_vars(Device)
    /\ \A c \in Clients : WF_vars(Hear(c))

Spec == Init /\ [][Next]_vars /\ Fairness
-----------------------------------------------------------------------------
(* Properties                                                               *)

FileOf(c, h) == {f \in cl[c].handles : f.handle = h}

\* The answer of a client's request as the volume has it.
Expected(c, r, m, data) ==
    LET e == IF r.op \in {"open", "stat", "list"} THEN Disk.tree[r.path] ELSE NoEntry
    IN  CASE r.op = "open" -> \/ e = NoEntry /\ m.status = "NOENT"
                              \/ e # NoEntry /\ e.kind = "dir" /\ m.status = "ISDIR"
                              \/ e # NoEntry /\ e.kind = "file" /\ m.status \in {"OK", "NOSPC"}
          [] r.op = "stat" -> IF e = NoEntry THEN m.status = "NOENT"
                              ELSE m.status = "OK" /\ m.n = e.size /\ data = <<e.kind>>
          [] r.op = "list" -> \/ e = NoEntry /\ m.status = "NOENT"
                              \/ e # NoEntry /\ e.kind = "file" /\ m.status = "NOTDIR"
                              \/ /\ e # NoEntry /\ e.kind = "dir" /\ m.status = "OK"
                                 /\ LET all == Listing(Disk, e.cluster)
                                    IN  data = SubSeq(all, 1, Lesser(r.max, Len(all)))
          [] r.op = "close" -> m.status = IF FileOf(c, r.handle) = {} THEN "BADF" ELSE "OK"
          [] OTHER -> TRUE

\* Every answer that met no I/O error is the one the volume calls for: the walk
\* over directories, chains and cached FAT sectors, for either kind of volume
\* and whatever the other client is doing, finds exactly the entry a path names
\* and lists exactly a directory's entries (fat.rs, paths.rs, serve.rs).  A
\* client whose buffer the server could not map is told so, and none has more
\* than one answer waiting.
AnswersAreExact ==
    \A c \in Clients :
        /\ Len(mail[c]) <= 1
        /\ cl[c].at = "asked" /\ mail[c] # <<>> =>
            LET m == Head(mail[c])
            IN  m.fault \/ m.status = "NOCONN" \/ Expected(c, cl[c].req, m, shm[c])

\* What read returns is the file's contents at that offset, up to its end: each
\* handle names the file its client opened, reads across cluster boundaries are
\* joined without a gap, and the bytes are the asking client's (serve.rs
\* op_read, fat.rs read_at).  A file whose chain is shorter than its size is an
\* error where the chain ends, never short data.  A service that fs starts is
\* started from the whole of its image (main.rs start_one, fat.rs read_file).
ReadsAreExact ==
    /\ fs.at = "loaded" => fs.out = Contents(Disk, fs.entry, 0, fs.entry.size)
    /\ \A c \in Clients :
        cl[c].at = "asked" /\ cl[c].req.op = "read" /\ mail[c] # <<>> =>
            LET m == Head(mail[c])
                r == cl[c].req
                files == FileOf(c, r.handle)
                e == Disk.tree[(CHOOSE f \in files : TRUE).path]
                whole == Lesser(r.count, e.size - r.offset)
                held == Contents(Disk, e, r.offset, r.count)
            IN  \/ m.fault \/ m.status = "NOCONN"
                \/ m.status = "TOOBIG" /\ r.count > MAX_READ
                \/ m.status = "BADF" /\ files = {}
                \/ m.status = "IO" /\ files # {} /\ Len(held) < whole
                \/ m.status = "OK" /\ files # {} /\ m.n = Len(shm[c]) /\ shm[c] = held

\* A handle belongs to one client, from the reply that gave it to the close, and
\* names the file that client opened; the table is shared by all clients and a
\* slot is reused only after a close (serve.rs op_open, op_close).
HandlesAreOwn ==
    LET held == UNION {{[c |-> c, h |-> f.handle, path |-> f.path] : f \in cl[c].handles} : c \in Clients}
        closing(x) == cl[x.c].at = "asked" /\ cl[x.c].req.op = "close" /\ cl[x.c].req.handle = x.h
    IN  /\ \A x \in held : closing(x) \/ open[x.h] = Disk.tree[x.path]
        /\ \A x, y \in held : x.h = y.h => x = y \/ closing(x) \/ closing(y)

\* Every request of a client the server has in its table is answered, or the
\* client is gone: every walk over a directory or a chain ends, and a failed read
\* ends in an error, not in silence (server.rs, serve.rs).
RequestsAreAnswered ==
    \A c \in Clients :
        (cl[c].at = "asked" /\ \E i \in SlotOf(c) : slots[i].reply)
            ~> (cl[c].at # "asked")
=============================================================================
