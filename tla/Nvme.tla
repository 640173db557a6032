-------------------------------- MODULE Nvme --------------------------------
(***************************************************************************)
(* The block driver (user/svc/blk): bringing the NVMe controller up, the     *)
(* queue pair through which it submits one command at a time, completion by   *)
(* MSI-X interrupt or by polling, and the request loop.  The controller is     *)
(* modelled from how the driver uses it.  `q` is the queue pair in use: the    *)
(* admin pair until the I/O pair is created, which replaces it.  Command ids   *)
(* are only compared for a log line and are left out.  A block is named by its *)
(* address.  The reader stands for the file service, whose side of the         *)
(* protocol (user/svc/fs/src/main.rs) it follows.                            *)
(***************************************************************************)
EXTENDS Integers, Sequences

CONSTANTS DEPTH,        \* QUEUE_DEPTH
          MAX_BLOCKS,   \* blocks of one READ request
          IRQ_LIMIT,    \* QUEUE_LIMIT of the interrupt endpoint
          Lbas,         \* the block addresses read
          MAX_LATE      \* bound on polls given up: fewer than overrun the ring

ASSUME NvmeAssumption ==
    /\ DEPTH \in Nat \ {0, 1}
    /\ MAX_BLOCKS \in Nat \ {0}
    /\ IRQ_LIMIT \in Nat /\ MAX_LATE \in 0 .. DEPTH - 2
    /\ Lbas \subseteq Nat

VARIABLES blk,       \* [at, cmd]: where the driver is, and its current command
          irq_ep,    \* it has bound its interrupt endpoint
          q,         \* the queue pair, with the controller's side of it
          msi,       \* an interrupt is on its way
          ints,      \* messages in the interrupt endpoint
          client,    \* [buf, reply]: what the one client has registered; the
                     \* buffer is "none", "own", or "stale" (of a client gone)
          requests,  \* the endpoint requests arrive on
          replies,   \* the client's reply endpoint
          dma,       \* the blocks put into the client's buffer since it last looked
          late,      \* polls given up
          lapsed,    \* a good answer may no longer be taken at its word
          reader     \* [at, ask, mounted]: the file service's side

vars == <<blk, irq_ep, q, msi, ints, client, requests, replies, dma, late, lapsed, reader>>

Slots == 0 .. DEPTH - 1
NoCmd == [op |-> "none"]
NoClient == [buf |-> "none", reply |-> FALSE]
NoRead == [lba |-> 0, n |-> 0]
Read(lba, n) == [op |-> "read", lba |-> lba, n |-> n]
AdminCmds == <<"identify", "namespace", "create_cq", "create_sq">>
Blocks(lba, n) == [i \in 1 .. n |-> lba + i - 1]

\* A queue pair whose pages have just been allocated and zeroed.
NewQueue ==
    [sq |-> [s \in Slots |-> NoCmd], sq_tail |-> 0, cq_head |-> 0, phase |-> 1,
     cq |-> [s \in Slots |-> [phase |-> 0, ok |-> TRUE]],
     fetched |-> 0, posted |-> 0, flip |-> 1]

Init ==
    /\ blk = [at |-> "down", cmd |-> NoCmd]
    /\ irq_ep = FALSE
    /\ q = NewQueue
    /\ msi = FALSE /\ ints = 0
    /\ client = NoClient
    /\ requests = <<>> /\ replies = <<>>
    /\ dma = <<>>
    /\ late = 0 /\ lapsed = FALSE
    /\ reader = [at |-> "down", ask |-> NoRead, mounted |-> FALSE]
-----------------------------------------------------------------------------
(* the controller, as the driver uses it                                    *)

\* A submitted command is carried out: a read fills the buffer and posts a
\* completion with the current phase, or posts a failure.
Execute ==
    /\ blk.at # "down"
    /\ q.fetched # q.sq_tail
    /\ (q.posted + 1) % DEPTH # q.cq_head
    /\ \E ok \in BOOLEAN :
         /\ q' = [q EXCEPT !.fetched = (@ + 1) % DEPTH, !.sq[q.fetched] = NoCmd,
                           !.posted = (@ + 1) % DEPTH,
                           !.flip = IF q.posted = DEPTH - 1 THEN 1 - @ ELSE @,
                           !.cq[q.posted] = [phase |-> q.flip, ok |-> ok]]
         /\ LET cmd == q.sq[q.fetched]
            IN  dma' = IF ok /\ cmd.op = "read" THEN Blocks(cmd.lba, cmd.n) ELSE dma
    /\ msi' = irq_ep
    /\ UNCHANGED <<blk, irq_ep, ints, client, requests, replies, late, lapsed, reader>>

\* on_vector: one message on the bound endpoint, dropped when it is full.
OnVector ==
    /\ msi
    /\ msi' = FALSE
    /\ ints' = IF ints < IRQ_LIMIT THEN ints + 1 ELSE ints
    /\ UNCHANGED <<blk, irq_ep, q, client, requests, replies, dma, late, lapsed, reader>>
-----------------------------------------------------------------------------
(* bringing the device up                                                   *)

\* main: interrupts are bound, if there are any to bind, and the admin queues
\* are allocated, before the controller is reset and enabled.
BlkStart ==
    /\ blk.at = "down"
    /\ irq_ep' \in BOOLEAN
    /\ q' = NewQueue
    /\ msi' = FALSE /\ ints' = 0
    /\ client' = NoClient
    /\ blk' = [at |-> "reset", cmd |-> NoCmd]
    /\ UNCHANGED <<requests, replies, dma, late, lapsed, reader>>

\* The command goes into the ring, and the doorbell tells the controller.
Submitted(qp, cmd) == [qp EXCEPT !.sq[qp.sq_tail] = cmd, !.sq_tail = (@ + 1) % DEPTH]

\* The controller stops and starts again in time; the first admin command.
Enable ==
    /\ blk.at = "reset"
    /\ LET cmd == [op |-> AdminCmds[1]]
       IN  /\ q' = Submitted(q, cmd)
           /\ blk' = [at |-> "submit", cmd |-> cmd]
    /\ UNCHANGED <<irq_ep, msi, ints, client, requests, replies, dma, late, lapsed, reader>>

\* exit(2): the supervisor starts the driver again.  What its queues and its
\* interrupt endpoint held goes with it; requests stay where they are.
GiveUp ==
    /\ blk' = [at |-> "down", cmd |-> NoCmd]
    /\ UNCHANGED <<irq_ep, msi, ints, client, requests, replies, dma>>

\* wait_ready gives up.
NotReady ==
    /\ blk.at = "reset"
    /\ GiveUp
    /\ UNCHANGED <<q, late, lapsed, reader>>
-----------------------------------------------------------------------------
(* submit: waiting for the completion                                       *)

\* A bug to catch: the phase is not turned over when the queue wraps.
TakenFlat == [q EXCEPT !.cq_head = (@ + 1) % DEPTH, !.cq[q.cq_head].ok = TRUE]

\* The completion at the head is consumed.
Taken ==
    [q EXCEPT !.cq_head = (@ + 1) % DEPTH, !.cq[q.cq_head].ok = TRUE,
              !.phase = IF q.cq_head = DEPTH - 1 THEN 1 - @ ELSE @]

Completed == q.cq[q.cq_head].phase = q.phase

Index(op) == CHOOSE i \in DOMAIN AdminCmds : AdminCmds[i] = op

\* send(reply, status, ...).
Respond(ok) == Append(replies, [ok |-> ok])

\* A bug to catch: a failed read is tried again, for as long as it fails.
ReadDoneWell(ok) ==
    /\ q' = IF ok THEN Taken ELSE Submitted(Taken, blk.cmd)
    /\ replies' = IF ok THEN Respond(ok) ELSE replies
    /\ blk' = IF ok THEN [at |-> "serve", cmd |-> NoCmd] ELSE blk

ReadDone(ok) ==
    /\ q' = Taken
    /\ replies' = Respond(ok)
    /\ blk' = [at |-> "serve", cmd |-> NoCmd]

\* Whatever command the completion is for, submit returns its status: the next
\* admin command follows, or the I/O pair is ready, or the client is answered.
Finish ==
    /\ blk.at = "submit" /\ Completed
    /\ LET ok == q.cq[q.cq_head].ok
       IN  \/ /\ blk.cmd.op = "read"
              /\ ReadDone(ok)
              /\ UNCHANGED <<irq_ep, msi, ints, client, requests, dma, late, lapsed, reader>>
           \/ /\ blk.cmd.op # "read" /\ ok
              /\ IF blk.cmd.op = "create_sq"
                 THEN /\ q' = NewQueue
                      /\ blk' = [at |-> "serve", cmd |-> NoCmd]
                 ELSE LET cmd == [op |-> AdminCmds[Index(blk.cmd.op) + 1]]
                      IN  /\ q' = Submitted(Taken, cmd)
                          /\ blk' = [blk EXCEPT !.cmd = cmd]
              /\ UNCHANGED <<irq_ep, msi, ints, client, requests, replies, dma, late, lapsed, reader>>
           \/ /\ blk.cmd.op # "read" /\ ~ok
              /\ GiveUp
              /\ UNCHANGED <<q, late, lapsed, reader>>

\* No completion yet: an interrupt message makes the driver look again.
TakeInterrupt ==
    /\ blk.at = "submit" /\ ~Completed
    /\ irq_ep /\ ints > 0
    /\ ints' = ints - 1
    /\ UNCHANGED <<blk, irq_ep, q, msi, client, requests, replies, dma, late, lapsed, reader>>

\* Polling is given up while the command is still with the controller.
PollTimeout ==
    /\ blk.at = "submit" /\ ~Completed
    /\ ~irq_ep /\ late < MAX_LATE
    /\ late' = late + 1 /\ lapsed' = (lapsed \/ blk.cmd.op = "read")
    /\ IF blk.cmd.op = "read"
       THEN /\ replies' = Respond(FALSE)
            /\ blk' = [at |-> "serve", cmd |-> NoCmd]
            /\ UNCHANGED <<irq_ep, q, msi, ints, client, requests, dma>>
       ELSE GiveUp /\ UNCHANGED q
    /\ UNCHANGED reader
-----------------------------------------------------------------------------
(* the request loop                                                         *)

\* READ needs a buffer, and no more blocks than fit it and a command.
Accepts(m) == client.buf # "none" /\ m.n <= MAX_BLOCKS

\* A read into a buffer whose owner is gone: it lands where no one looks.
Orphan == [op |-> "orphan"]

\* The client exits with its buffer and its reply endpoint; what is still with
\* the controller keeps the old buffer's address.
Orphaned(qp) ==
    [qp EXCEPT !.sq = [s \in Slots |-> IF @[s].op = "read" THEN Orphan ELSE @[s]]]

TakeRequest ==
    /\ blk.at = "serve" /\ requests # <<>>
    /\ requests' = Tail(requests)
    /\ LET m == Head(requests)
       IN  \/ /\ m.op = "register_buf"
              /\ \E buf \in {"own", client.buf} :
                   /\ client' = [client EXCEPT !.buf = buf]
                   /\ lapsed' = (lapsed \/ buf = "stale")
              /\ UNCHANGED <<blk, q, replies>>
           \/ /\ m.op = "set_reply"
              /\ client' = [client EXCEPT !.reply = TRUE]
              /\ UNCHANGED <<blk, q, replies, lapsed>>
           \/ /\ m.op = "read"
              /\ IF client.reply /\ Accepts(m)
                 THEN /\ q' = Submitted(q, IF client.buf = "own" THEN m ELSE Orphan)
                      /\ blk' = [at |-> "submit", cmd |-> m]
                      /\ UNCHANGED replies
                 ELSE /\ replies' = IF client.reply THEN Respond(FALSE) ELSE replies
                      /\ UNCHANGED <<blk, q>>
              /\ UNCHANGED <<client, lapsed>>
    /\ UNCHANGED <<irq_ep, msi, ints, dma, late, reader>>
-----------------------------------------------------------------------------
(* the file service's side                                                  *)

\* main of fs: the buffer and the reply endpoint are handed over.
Register ==
    /\ reader.at = "down"
    /\ reader' = [reader EXCEPT !.at = "ready"]
    /\ requests' = requests \o <<[op |-> "register_buf"], [op |-> "set_reply"]>>
    /\ UNCHANGED <<blk, irq_ep, q, msi, ints, client, replies, dma, late, lapsed>>

\* Blk::read.
SendRead ==
    /\ reader.at = "ready"
    /\ \E lba \in Lbas, n \in 1 .. MAX_BLOCKS :
         /\ requests' = Append(requests, Read(lba, n))
         /\ reader' = [reader EXCEPT !.at = "wait", !.ask = [lba |-> lba, n |-> n]]
    /\ UNCHANGED <<blk, irq_ep, q, msi, ints, client, replies, dma, late, lapsed>>

\* The answer to the first read mounts the volume, or ends fs: it is started
\* again with another buffer and another reply endpoint.
RecvReply ==
    /\ reader.at = "wait" /\ replies # <<>>
    /\ LET ends == ~reader.mounted /\ ~Head(replies).ok
       IN  /\ reader' = [at |-> IF ends THEN "down" ELSE "ready", ask |-> NoRead,
                         mounted |-> reader.mounted \/ Head(replies).ok]
           /\ q' = IF ends THEN Orphaned(q) ELSE q
           /\ client' = IF ends /\ client.buf = "own" THEN [client EXCEPT !.buf = "stale"] ELSE client
    /\ replies' = Tail(replies)
    /\ dma' = <<>>
    /\ UNCHANGED <<blk, irq_ep, msi, ints, requests, late, lapsed>>
-----------------------------------------------------------------------------
Drive ==
    \/ BlkStart \/ Enable \/ NotReady
    \/ Finish \/ TakeInterrupt \/ PollTimeout
    \/ TakeRequest

Next == Drive \/ Execute \/ OnVector \/ Register \/ SendRead \/ RecvReply

\* The two services are scheduled again and again, the controller completes
\* what is submitted, and an interrupt arrives.
Fairness == WF_vars(Drive) /\ WF_vars(Execute) /\ WF_vars(OnVector) /\ WF_vars(RecvReply)

Spec == Init /\ [][Next]_vars /\ Fairness
-----------------------------------------------------------------------------
(* Properties                                                               *)

Device == INSTANCE BlockDevice WITH
    want <- reader.ask,
    answer <- IF replies = <<>> THEN "none" ELSE IF Head(replies).ok THEN "ok" ELSE "error",
    holds <- replies # <<>> /\ Head(replies).ok /\ dma = Blocks(reader.ask.lba, reader.ask.n),
    faulty <- lapsed

\* The driver implements BlockDevice: each read is answered once, and a good
\* answer means the blocks are in the buffer, over interrupts that are stale,
\* coalesced or dropped, the wrap of the queues, failed commands and restarts
\* of either side (nvme.rs submit, main.rs).  The promise lapses when a poll is
\* given up, whose late completion answers for the next command, and when fs
\* comes back with a buffer that cannot be mapped and its old one is used.
ImplementsBlockDevice == Device!DevSpec

\* Once the driver is serving, every read is answered: no interrupt is lost
\* between the look at the queue and the wait for a message, not even when the
\* endpoint is full or the interrupt came before the command that is waited for
\* (nvme.rs:233).
ReadsAreAnswered ==
    (reader.at = "wait" /\ (blk.at = "serve" \/ blk.cmd.op = "read")) ~> reader.at # "wait"
=============================================================================
