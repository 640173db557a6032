----------------------------- MODULE NvmeProofs -----------------------------
(***************************************************************************)
(* The block driver implements BlockDevice, for any size of the queues, any    *)
(* block addresses and any number of restarts, reads and given-up polls.      *)
(***************************************************************************)
EXTENDS Nvme, TLAPS

Admin == {"identify", "namespace", "create_cq", "create_sq"}
Cmds == [op : Admin \cup {"none", "orphan"}] \cup [op : {"read"}, lba : Nat, n : 1 .. MAX_BLOCKS]
Bit == {0, 1}
Queue == [sq : [Slots -> Cmds], sq_tail : Slots, cq_head : Slots, phase : Bit,
          cq : [Slots -> [phase : Bit, ok : BOOLEAN]],
          fetched : Slots, posted : Slots, flip : Bit]

Succ(i) == (i + 1) % DEPTH

Reg == [op |-> "register_buf"]
Set == [op |-> "set_reply"]
-----------------------------------------------------------------------------
(* Sequences of up to three requests, and positions of a ring               *)

LEMMA AppendOne ==
    ASSUME NEW a, NEW b
    PROVE  Append(<<a>>, b) = <<a, b>>
<1> DEFINE S == {a, b}
<1>1. <<a>> \in Seq(S) /\ Len(<<a>>) = 1 /\ b \in S
      OBVIOUS
<1>2. /\ Append(<<a>>, b) \in Seq(S) /\ Len(Append(<<a>>, b)) = 2
      /\ Append(<<a>>, b)[1] = a /\ Append(<<a>>, b)[2] = b
      BY <1>1
<1>3. <<a, b>> \in Seq(S) /\ Len(<<a, b>>) = 2 /\ <<a, b>>[1] = a /\ <<a, b>>[2] = b
      OBVIOUS
<1>4. \A s, t \in Seq(S) : Len(s) = 2 /\ Len(t) = 2 /\ s[1] = t[1] /\ s[2] = t[2] => s = t
      OBVIOUS
<1> QED
    BY Zenon, <1>2, <1>3, <1>4

LEMMA AppendTwo ==
    ASSUME NEW a, NEW b, NEW c
    PROVE  Append(<<a, b>>, c) = <<a, b, c>>
<1> DEFINE S == {a, b, c}
           s3 == Append(<<a, b>>, c)
           t3 == <<a, b, c>>
<1>1. <<a, b>> \in Seq(S) /\ Len(<<a, b>>) = 2 /\ c \in S
      OBVIOUS
<1>2. s3 \in Seq(S) /\ Len(s3) = 3 /\ s3[1] = a /\ s3[2] = b /\ s3[3] = c
      BY <1>1
<1>3. t3 \in Seq(S) /\ Len(t3) = 3 /\ t3[1] = a /\ t3[2] = b /\ t3[3] = c
      OBVIOUS
<1>4. \A s, t \in Seq(S) : Len(s) = 3 /\ Len(t) = 3 /\ s[1] = t[1] /\ s[2] = t[2] /\ s[3] = t[3]
         => s = t
      OBVIOUS
<1> QED
    BY Zenon, <1>2, <1>3, <1>4

LEMMA TupleLemma ==
    ASSUME NEW a, NEW b, NEW c
    PROVE  /\ Head(<<a>>) = a /\ Tail(<<a>>) = <<>>
           /\ Head(<<a, b>>) = a /\ Tail(<<a, b>>) = <<b>>
           /\ Head(<<a, b, c>>) = a /\ Tail(<<a, b, c>>) = <<b, c>>
           /\ Append(<<>>, a) = <<a>> /\ Append(<<a>>, b) = <<a, b>>
           /\ Append(<<a, b>>, c) = <<a, b, c>>
           /\ <<>> \o <<a, b>> = <<a, b>>
           /\ <<a>> # <<>> /\ <<a, b>> # <<>> /\ <<a, b, c>> # <<>>
<1>1. Head(<<a>>) = a /\ Head(<<a, b>>) = a /\ Head(<<a, b, c>>) = a
      OBVIOUS
<1>2. Tail(<<a>>) = <<>>
      OBVIOUS
<1>3. Tail(<<a, b>>) = <<b>>
      OBVIOUS
<1>4. Tail(<<a, b, c>>) = <<b, c>>
      OBVIOUS
<1>5. Append(<<>>, a) = <<a>>
      OBVIOUS
<1>8. <<>> \o <<a, b>> = <<a, b>>
      OBVIOUS
<1>9. <<a>> # <<>> /\ <<a, b>> # <<>> /\ <<a, b, c>> # <<>>
      OBVIOUS
<1> QED
    BY Zenon, <1>1, <1>2, <1>3, <1>4, <1>5, AppendOne, AppendTwo, <1>8, <1>9

LEMMA LengthLemma ==
    ASSUME NEW a, NEW b, NEW c, NEW d, NEW e, NEW f
    PROVE  /\ <<a>> # <<b, c>> /\ <<a>> # <<b, c, d>> /\ <<a, b>> # <<c, d, e>>
           /\ <<a>> = <<b>> => a = b
           /\ <<a, b>> = <<c, d>> => a = c
           /\ <<a, b, c>> = <<d, e, f>> => a = d
<1>1. Len(<<a>>) = 1 /\ Len(<<b, c>>) = 2 /\ Len(<<a, b>>) = 2 /\ Len(<<b, c, d>>) = 3
      /\ Len(<<c, d, e>>) = 3
      OBVIOUS
<1>2. \A x, y : x = y => Len(x) = Len(y)
      BY Zenon
<1>3. 1 # 2 /\ 1 # 3 /\ 2 # 3
      OBVIOUS
<1>4. /\ <<a>> # <<b, c>> /\ <<a>> # <<b, c, d>> /\ <<a, b>> # <<c, d, e>>
      BY Zenon, <1>1, <1>2, <1>3
<1>5. \A x, y : x = y => x[1] = y[1]
      BY Zenon
<1>6. /\ <<a>> = <<b>> => a = b
      /\ <<a, b>> = <<c, d>> => a = c
      /\ <<a, b, c>> = <<d, e, f>> => a = d
      BY <1>5
<1> QED
    BY Zenon, <1>4, <1>6

LEMMA SuccLemma ==
    ASSUME NEW i \in Slots
    PROVE  /\ Succ(i) \in Slots /\ Succ(i) # i
           /\ i = DEPTH - 1 => Succ(i) = 0
           /\ i # DEPTH - 1 => Succ(i) = i + 1
<1>1. DEPTH \in Nat /\ DEPTH > 1 /\ i \in Nat /\ i < DEPTH
      BY NvmeAssumption DEF Slots
<1>2. CASE i = DEPTH - 1
  <2>1. Succ(i) = DEPTH % DEPTH
        BY <1>1, <1>2 DEF Succ
  <2>2. DEPTH % DEPTH = 0
        BY <1>1
  <2> QED
      BY <1>1, <1>2, <2>1, <2>2 DEF Slots
<1>3. CASE i # DEPTH - 1
  <2>1. i + 1 < DEPTH /\ i + 1 \in Nat
        BY <1>1, <1>3
  <2>2. \A n \in Nat : n < DEPTH => n % DEPTH = n
        BY <1>1
  <2>3. Succ(i) = i + 1
        BY <2>1, <2>2 DEF Succ
  <2> QED
      BY <1>1, <1>3, <2>1, <2>3 DEF Slots
<1> QED
    BY <1>2, <1>3
-----------------------------------------------------------------------------
(* The inductive invariant                                                  *)

Asked == Read(reader.ask.lba, reader.ask.n)

\* The driver is past the bringing up of the controller.
Serving == blk.at = "serve" \/ blk.cmd.op = "read"

TypeInv ==
    /\ blk \in [at : {"down", "reset", "submit", "serve"}, cmd : Cmds]
    /\ q \in Queue
    /\ client \in [buf : {"none", "own", "stale"}, reply : BOOLEAN]
    /\ lapsed \in BOOLEAN
    /\ reader \in [at : {"down", "ready", "wait"}, ask : [lba : Nat, n : 0 .. MAX_BLOCKS],
                   mounted : BOOLEAN]

\* Where the driver is, and its command; it has no client before it serves.
BlkInv ==
    /\ blk.at # "submit" => blk.cmd = NoCmd
    /\ blk.at = "submit" => blk.cmd.op \in Admin \cup {"read"}
    /\ ~Serving => client = NoClient

\* Nothing is asked for: what the reader has handed over is still under way, or
\* has arrived.
Quiet ==
    /\ reader.ask = NoRead /\ replies = <<>> /\ blk.cmd.op # "read"
    /\ \/ reader.at = "down" /\ requests = <<>>
       \/ reader.at = "ready" /\ requests = <<Reg, Set>>
       \/ reader.at = "ready" /\ Serving /\ requests = <<Set>>
       \/ reader.at = "ready" /\ Serving /\ requests = <<>> /\ client.reply

\* The request is under way, behind whatever was sent before it.
Sent ==
    /\ reader.at = "wait" /\ replies = <<>> /\ blk.cmd.op # "read"
    /\ \/ requests = <<Reg, Set, Asked>>
       \/ Serving /\ requests = <<Set, Asked>>
       \/ Serving /\ requests = <<Asked>> /\ client.reply

\* The driver is at the read.
Reading ==
    /\ reader.at = "wait" /\ requests = <<>> /\ replies = <<>>
    /\ blk.at = "submit" /\ blk.cmd = Asked /\ client.reply

\* The answer is under way.
Answered ==
    /\ reader.at = "wait" /\ requests = <<>> /\ blk.at = "serve" /\ client.reply
    /\ \E ok \in BOOLEAN : replies = <<[ok |-> ok]>>

ReaderInv ==
    /\ reader.at = "wait" => reader.ask.n \in 1 .. MAX_BLOCKS
    /\ Quiet \/ Sent \/ Reading \/ Answered

\* A buffer of a reader gone is not taken for the new reader's, unless the
\* promise has lapsed.
BufInv ==
    ~lapsed /\ client.buf = "stale"
        => reader.at = "down" \/ requests = <<Reg, Set>> \/ requests = <<Reg, Set, Asked>>

\* The completion ring: what has been posted in this round carries its phase,
\* the rest that of the round before.
Ring(p) == \A s \in Slots : p.cq[s].phase = IF s < p.posted THEN p.flip ELSE 1 - p.flip

\* Nothing is submitted; a command is submitted; its completion is posted.
Empty(p) == p.fetched = p.sq_tail /\ p.posted = p.cq_head /\ p.phase = p.flip
Busy(p, cmd) ==
    /\ p.sq_tail = Succ(p.fetched) /\ p.posted = p.cq_head /\ p.phase = p.flip
    /\ p.sq[p.fetched] = cmd
Done(p, cmd) ==
    /\ p.fetched = p.sq_tail /\ p.posted = Succ(p.cq_head)
    /\ p.phase = IF p.posted = 0 THEN 1 - p.flip ELSE p.flip
    /\ cmd.op = "read" /\ p.cq[p.cq_head].ok => dma = Blocks(cmd.lba, cmd.n)

\* Until a poll is given up, the driver and the controller agree on the queue.
QueueInv ==
    ~lapsed /\ blk.at # "down" =>
        /\ Ring(q)
        /\ blk.at # "submit" => Empty(q)
        /\ blk.at = "submit" => Busy(q, blk.cmd) \/ Done(q, blk.cmd)

\* A good answer is borne out by the buffer.
AnswerInv ==
    ~lapsed /\ replies # <<>> /\ Head(replies).ok => dma = Blocks(reader.ask.lba, reader.ask.n)

IInv == TypeInv /\ BlkInv /\ ReaderInv /\ BufInv /\ QueueInv /\ AnswerInv
-----------------------------------------------------------------------------
(* What the operations do to the queue pair                                 *)

LEMMA NewQueueLemma ==
    /\ NewQueue \in Queue
    /\ NewQueue.fetched = 0 /\ NewQueue.sq_tail = 0 /\ NewQueue.posted = 0
    /\ NewQueue.cq_head = 0 /\ NewQueue.phase = 1 /\ NewQueue.flip = 1
    /\ \A s \in Slots : NewQueue.cq[s].phase = 0
<1>1. 0 \in Slots
      BY NvmeAssumption DEF Slots
<1>2. NoCmd \in Cmds
      BY DEF NoCmd, Cmds
<1> QED
    BY <1>1, <1>2 DEF NewQueue, Queue, Bit

LEMMA SubmittedLemma ==
    ASSUME NEW p \in Queue, NEW cmd \in Cmds
    PROVE  /\ Submitted(p, cmd) \in Queue
           /\ Submitted(p, cmd).sq[p.sq_tail] = cmd
           /\ Submitted(p, cmd).sq_tail = Succ(p.sq_tail)
           /\ Submitted(p, cmd).cq_head = p.cq_head /\ Submitted(p, cmd).phase = p.phase
           /\ Submitted(p, cmd).cq = p.cq /\ Submitted(p, cmd).fetched = p.fetched
           /\ Submitted(p, cmd).posted = p.posted /\ Submitted(p, cmd).flip = p.flip
<1>1. p.sq_tail \in Slots /\ Succ(p.sq_tail) \in Slots
      BY SuccLemma DEF Queue
<1> QED
    BY <1>1 DEF Submitted, Queue, Succ

LEMMA TakenLemma ==
    ASSUME q \in Queue
    PROVE  /\ Taken \in Queue
           /\ Taken.sq = q.sq /\ Taken.sq_tail = q.sq_tail /\ Taken.fetched = q.fetched
           /\ Taken.posted = q.posted /\ Taken.flip = q.flip
           /\ Taken.cq_head = Succ(q.cq_head)
           /\ Taken.phase = IF q.cq_head = DEPTH - 1 THEN 1 - q.phase ELSE q.phase
           /\ \A s \in Slots : Taken.cq[s].phase = q.cq[s].phase
<1>1. q.cq_head \in Slots /\ Succ(q.cq_head) \in Slots
      BY SuccLemma DEF Queue
<1>2. q.phase \in Bit /\ 1 - q.phase \in Bit
      BY DEF Queue, Bit
<1> DEFINE cqs == [q.cq EXCEPT ![q.cq_head].ok = TRUE]
<1>3. q.cq \in [Slots -> [phase : Bit, ok : BOOLEAN]]
      BY DEF Queue
<1>4. /\ cqs \in [Slots -> [phase : Bit, ok : BOOLEAN]]
      /\ \A s \in Slots : cqs[s].phase = q.cq[s].phase
      BY <1>1, <1>3
<1> HIDE DEF cqs
<1>5. Taken = [q EXCEPT !.cq_head = Succ(q.cq_head), !.cq = cqs,
                        !.phase = IF q.cq_head = DEPTH - 1 THEN 1 - q.phase ELSE q.phase]
      BY DEF Taken, Succ, Queue, cqs
<1> QED
    BY <1>1, <1>2, <1>4, <1>5 DEF Queue

LEMMA OrphanedLemma ==
    ASSUME NEW p \in Queue
    PROVE  /\ Orphaned(p) \in Queue
           /\ Orphaned(p).sq_tail = p.sq_tail /\ Orphaned(p).fetched = p.fetched
           /\ Orphaned(p).cq_head = p.cq_head /\ Orphaned(p).phase = p.phase
           /\ Orphaned(p).cq = p.cq /\ Orphaned(p).posted = p.posted /\ Orphaned(p).flip = p.flip
<1>1. Orphan \in Cmds
      BY DEF Orphan, Cmds
<1>2. \A s \in Slots : p.sq[s] \in Cmds
      BY DEF Queue
<1> QED
    BY <1>1, <1>2 DEF Orphaned, Queue

\* The queue after Execute, the outcome of the command being ok.
Executed(ok) ==
    [q EXCEPT !.fetched = Succ(q.fetched), !.sq[q.fetched] = NoCmd,
              !.posted = Succ(q.posted),
              !.flip = IF q.posted = DEPTH - 1 THEN 1 - q.flip ELSE q.flip,
              !.cq[q.posted] = [phase |-> q.flip, ok |-> ok]]

LEMMA ExecuteLemma ==
    ASSUME TypeInv, Execute
    PROVE  \E ok \in BOOLEAN :
             /\ q' \in Queue
             /\ q'.fetched = Succ(q.fetched) /\ q'.posted = Succ(q.posted)
             /\ q'.sq_tail = q.sq_tail /\ q'.cq_head = q.cq_head /\ q'.phase = q.phase
             /\ q'.flip = IF q.posted = DEPTH - 1 THEN 1 - q.flip ELSE q.flip
             /\ q'.cq = [q.cq EXCEPT ![q.posted] = [phase |-> q.flip, ok |-> ok]]
             /\ dma' = IF ok /\ q.sq[q.fetched].op = "read"
                       THEN Blocks(q.sq[q.fetched].lba, q.sq[q.fetched].n) ELSE dma
<1>0. q \in Queue
      BY Zenon DEF TypeInv
<1>1. PICK ok \in BOOLEAN :
        /\ q' = Executed(ok)
        /\ dma' = IF ok /\ q.sq[q.fetched].op = "read"
                  THEN Blocks(q.sq[q.fetched].lba, q.sq[q.fetched].n) ELSE dma
      BY <1>0 DEF Execute, Executed, Succ, Queue
<1>2. /\ q.fetched \in Slots /\ Succ(q.fetched) \in Slots
      /\ q.posted \in Slots /\ Succ(q.posted) \in Slots
      BY <1>0, SuccLemma DEF Queue
<1>3. q.flip \in Bit /\ 1 - q.flip \in Bit /\ NoCmd \in Cmds
      BY <1>0 DEF Queue, Bit, NoCmd, Cmds
<1>4. /\ Executed(ok) \in Queue
      /\ Executed(ok).fetched = Succ(q.fetched) /\ Executed(ok).posted = Succ(q.posted)
      /\ Executed(ok).sq_tail = q.sq_tail /\ Executed(ok).cq_head = q.cq_head
      /\ Executed(ok).phase = q.phase
      /\ Executed(ok).flip = IF q.posted = DEPTH - 1 THEN 1 - q.flip ELSE q.flip
      /\ Executed(ok).cq = [q.cq EXCEPT ![q.posted] = [phase |-> q.flip, ok |-> ok]]
      BY <1>0, <1>2, <1>3 DEF Executed, Queue
<1> QED
    BY Zenon, <1>1, <1>4

\* The admin commands follow one another.
LEMMA IndexLemma ==
    ASSUME NEW op \in Admin, op # "create_sq"
    PROVE  AdminCmds[Index(op) + 1] \in Admin
<1>1. /\ DOMAIN AdminCmds = 1 .. 4
      /\ AdminCmds[1] = "identify" /\ AdminCmds[2] = "namespace"
      /\ AdminCmds[3] = "create_cq" /\ AdminCmds[4] = "create_sq"
      BY DEF AdminCmds
<1>2. \E i \in DOMAIN AdminCmds : AdminCmds[i] = op
      BY <1>1 DEF Admin
<1>3. Index(op) \in DOMAIN AdminCmds /\ AdminCmds[Index(op)] = op
      BY <1>2 DEF Index
<1>4. Index(op) \in 1 .. 3
      BY <1>1, <1>3
<1> QED
    BY <1>1, <1>4 DEF Admin

LEMMA CmdLemma ==
    /\ NoCmd \in Cmds /\ NoCmd.op = "none" /\ Orphan \in Cmds
    /\ \A op \in Admin : [op |-> op] \in Cmds /\ op # "read" /\ op # "none"
    /\ \A lba \in Nat, n \in 1 .. MAX_BLOCKS :
         /\ Read(lba, n) \in Cmds /\ Read(lba, n).op = "read"
         /\ Read(lba, n).lba = lba /\ Read(lba, n).n = n
    /\ Reg.op = "register_buf" /\ Set.op = "set_reply"
    /\ NoClient.buf = "none" /\ NoClient.reply = FALSE
    /\ NoClient \in [buf : {"none", "own", "stale"}, reply : BOOLEAN]
    /\ AdminCmds[1] \in Admin
    BY DEF NoCmd, Cmds, Orphan, Admin, Read, Reg, Set, NoClient, AdminCmds

\* The ring agrees with what has been posted, after a post and before.
LEMMA RingLemma ==
    ASSUME TypeInv, Execute, Ring(q)
    PROVE  Ring(q')
<1>0. q \in Queue
      BY Zenon DEF TypeInv
<1>1. PICK ok \in BOOLEAN :
             /\ q'.posted = Succ(q.posted)
             /\ q'.flip = IF q.posted = DEPTH - 1 THEN 1 - q.flip ELSE q.flip
             /\ q'.cq = [q.cq EXCEPT ![q.posted] = [phase |-> q.flip, ok |-> ok]]
      BY Zenon, ExecuteLemma
<1>2. q.posted \in Slots /\ q.flip \in Bit /\ q.cq \in [Slots -> [phase : Bit, ok : BOOLEAN]]
      BY <1>0 DEF Queue
<1>3. SUFFICES ASSUME NEW s \in Slots
               PROVE  q'.cq[s].phase = IF s < q'.posted THEN q'.flip ELSE 1 - q'.flip
      BY Zenon DEF Ring
<1>4. q'.cq[s].phase = IF s = q.posted THEN q.flip ELSE q.cq[s].phase
      BY <1>1, <1>2
<1>5. q.cq[s].phase = IF s < q.posted THEN q.flip ELSE 1 - q.flip
      BY Zenon DEF Ring
<1>6. /\ q.posted = DEPTH - 1 => Succ(q.posted) = 0
      /\ q.posted # DEPTH - 1 => Succ(q.posted) = q.posted + 1
      BY <1>2, SuccLemma, Zenon
<1>7. DEPTH \in Nat /\ s \in Nat /\ s <= DEPTH - 1 /\ q.posted \in Nat /\ q.posted <= DEPTH - 1
      BY <1>2, NvmeAssumption DEF Slots
<1> QED
    BY <1>1, <1>2, <1>4, <1>5, <1>6, <1>7 DEF Bit
-----------------------------------------------------------------------------
(* Every step keeps the invariant                                           *)

LEMMA EmptyRing ==
    /\ Ring(NewQueue) /\ Empty(NewQueue)
<1>1. \A s \in Slots : ~(s < 0)
      BY NvmeAssumption DEF Slots
<1>2. 1 - 1 = 0
      OBVIOUS
<1> QED
    BY Zenon, NewQueueLemma, <1>1, <1>2 DEF Ring, Empty

LEMMA SubmitBusy ==
    ASSUME NEW p \in Queue, NEW cmd \in Cmds, Ring(p), Empty(p)
    PROVE  Ring(Submitted(p, cmd)) /\ Busy(Submitted(p, cmd), cmd)
<1> DEFINE r == Submitted(p, cmd)
<1>1. /\ r.sq[p.sq_tail] = cmd /\ r.sq_tail = Succ(p.sq_tail)
      /\ r.cq_head = p.cq_head /\ r.phase = p.phase /\ r.cq = p.cq
      /\ r.fetched = p.fetched /\ r.posted = p.posted /\ r.flip = p.flip
      BY Zenon, SubmittedLemma
<1> HIDE DEF r
<1>2. Ring(r)
      BY Zenon, <1>1 DEF Ring
<1>3. Busy(r, cmd)
      BY <1>1 DEF Empty, Busy
<1> QED
    BY Zenon, <1>2, <1>3 DEF r

\* A completion is seen only where the controller has posted one, and with it
\* the queue is empty again.
LEMMA TakenEmpty ==
    ASSUME TypeInv, QueueInv, ~lapsed, blk.at = "submit", Completed
    PROVE  Done(q, blk.cmd) /\ Ring(Taken) /\ Empty(Taken)
<1>0. q \in Queue
      BY Zenon DEF TypeInv
<1>1. Ring(q) /\ (Busy(q, blk.cmd) \/ Done(q, blk.cmd))
      BY Zenon DEF QueueInv
<1>2. /\ q.cq_head \in Slots /\ q.flip \in Bit /\ q.phase \in Bit
      /\ q.posted \in Nat /\ q.cq_head \in Nat
      BY <1>0 DEF Queue, Slots
<1>3. ASSUME Busy(q, blk.cmd) PROVE FALSE
  <2>1. q.cq[q.cq_head].phase = 1 - q.flip
        BY <1>1, <1>2, <1>3 DEF Ring, Busy
  <2>2. q.cq[q.cq_head].phase = q.flip
        BY Zenon, <1>3 DEF Busy, Completed
  <2> QED
      BY <1>2, <2>1, <2>2 DEF Bit
<1>4. Done(q, blk.cmd)
      BY <1>1, <1>3
<1>5. Ring(Taken)
      BY Zenon, <1>0, <1>1, TakenLemma DEF Ring
<1>6. q.posted = Succ(q.cq_head) /\ q.phase = IF q.posted = 0 THEN 1 - q.flip ELSE q.flip
      BY Zenon, <1>4 DEF Done
<1>7. /\ q.cq_head = DEPTH - 1 => Succ(q.cq_head) = 0
      /\ q.cq_head # DEPTH - 1 => Succ(q.cq_head) = q.cq_head + 1
      BY Zenon, <1>2, SuccLemma
<1>8. (IF q.cq_head = DEPTH - 1 THEN 1 - q.phase ELSE q.phase) = q.flip
      BY <1>2, <1>6, <1>7 DEF Bit
<1>9. Empty(Taken)
      BY Zenon, <1>0, <1>4, <1>6, <1>8, TakenLemma DEF Empty, Done
<1> QED
    BY Zenon, <1>4, <1>5, <1>9

LEMMA SameStep ==
    ASSUME IInv, UNCHANGED <<blk, q, client, requests, replies, dma, lapsed, reader>>
    PROVE  IInv'
<1>1. TypeInv'
      BY Zenon DEF IInv, TypeInv
<1>2. BlkInv' /\ ReaderInv' /\ BufInv'
      BY Zenon DEF IInv, BlkInv, ReaderInv, BufInv, Quiet, Sent, Reading, Answered, Serving, Asked
<1>3. QueueInv' /\ AnswerInv'
      BY Zenon DEF IInv, QueueInv, AnswerInv, Ring, Empty, Busy, Done
<1> QED
    BY Zenon, <1>1, <1>2, <1>3 DEF IInv

\* Before the driver serves, all that was sent to it is still there.
LEMMA UnservedLemma ==
    ASSUME IInv, ~Serving, UNCHANGED <<requests, replies, reader>>, blk'.cmd.op # "read"
    PROVE  ReaderInv' /\ replies = <<>> /\ client = NoClient
<1>1. CASE Quiet
      BY Zenon, <1>1 DEF IInv, ReaderInv, BlkInv, Quiet
<1>2. CASE Sent
      BY Zenon, <1>2 DEF IInv, ReaderInv, BlkInv, Sent, Asked
<1>3. CASE Reading
  <2>1. reader.at = "wait" /\ reader.ask \in [lba : Nat, n : 0 .. MAX_BLOCKS]
        BY <1>3 DEF Reading, IInv, TypeInv
  <2>2. Asked.op = "read"
        BY DEF Asked, Read
  <2> QED
      BY Zenon, <1>3, <2>2 DEF Reading, Serving
<1>4. CASE Answered
      BY Zenon, <1>4 DEF Answered, Serving
<1> QED
    BY Zenon, <1>1, <1>2, <1>3, <1>4 DEF IInv, ReaderInv

LEMMA BlkStartStep ==
    ASSUME IInv, BlkStart
    PROVE  IInv'
<1>0. TypeInv /\ BlkInv /\ ReaderInv
      BY Zenon DEF IInv
<1>1. /\ blk'.at = "reset" /\ blk'.cmd = NoCmd /\ q' = NewQueue /\ client' = NoClient
      /\ blk' = [at |-> "reset", cmd |-> NoCmd]
      /\ UNCHANGED <<requests, replies, dma, lapsed, reader>>
      BY DEF BlkStart
<1>2. blk.at = "down" /\ ~Serving
      BY <1>0, CmdLemma DEF BlkStart, BlkInv, Serving
<1>3. TypeInv'
      BY <1>0, <1>1, NewQueueLemma, CmdLemma DEF TypeInv
<1>4. BlkInv'
      BY Zenon, <1>1 DEF BlkInv
<1>5. ReaderInv' /\ replies = <<>>
      BY <1>1, <1>2, UnservedLemma, CmdLemma
<1>6. BufInv'
      BY Zenon, <1>1, CmdLemma DEF BufInv
<1>7. QueueInv'
      BY Zenon, <1>1, EmptyRing DEF QueueInv
<1>8. AnswerInv'
      BY Zenon, <1>1, <1>5 DEF AnswerInv
<1> QED
    BY Zenon, <1>3, <1>4, <1>5, <1>6, <1>7, <1>8 DEF IInv

LEMMA EnableStep ==
    ASSUME IInv, Enable
    PROVE  IInv'
<1>0. TypeInv /\ BlkInv /\ ReaderInv /\ QueueInv
      BY Zenon DEF IInv
<1> DEFINE cmd == [op |-> AdminCmds[1]]
<1>1. /\ blk'.at = "submit" /\ blk'.cmd = cmd /\ q' = Submitted(q, cmd)
      /\ blk' = [at |-> "submit", cmd |-> cmd]
      /\ UNCHANGED <<client, requests, replies, dma, lapsed, reader>>
      BY DEF Enable
<1>2. blk.at = "reset" /\ ~Serving
      BY <1>0, CmdLemma DEF Enable, BlkInv, Serving
<1>3. cmd \in Cmds /\ cmd.op \in Admin /\ cmd.op # "read"
      BY CmdLemma
<1> HIDE DEF cmd
<1>4. TypeInv'
      BY <1>0, <1>1, <1>3, SubmittedLemma DEF TypeInv
<1>5. ReaderInv' /\ replies = <<>> /\ client = NoClient
      BY Zenon, <1>1, <1>2, <1>3, UnservedLemma
<1>6. BlkInv'
      BY Zenon, <1>1, <1>3, <1>5 DEF BlkInv
<1>7. BufInv'
      BY Zenon, <1>1, <1>5, CmdLemma DEF BufInv
<1>8. QueueInv'
  <2>1. ~lapsed => Ring(q) /\ Empty(q)
        BY Zenon, <1>0, <1>2 DEF QueueInv
  <2>2. ~lapsed => Ring(q') /\ Busy(q', cmd)
        BY Zenon, <1>0, <1>1, <1>3, <2>1, SubmitBusy DEF TypeInv
  <2> QED
      BY Zenon, <1>1, <2>2 DEF QueueInv
<1>9. AnswerInv'
      BY Zenon, <1>1, <1>5 DEF AnswerInv
<1> QED
    BY Zenon, <1>4, <1>5, <1>6, <1>7, <1>8, <1>9 DEF IInv

\* The driver exits before it serves.
LEMMA GiveUpStep ==
    ASSUME IInv, GiveUp, ~Serving, UNCHANGED <<q, lapsed, reader>>
    PROVE  IInv'
<1>0. TypeInv
      BY Zenon DEF IInv
<1>1. /\ blk'.at = "down" /\ blk'.cmd = NoCmd /\ blk' = [at |-> "down", cmd |-> NoCmd]
      /\ UNCHANGED <<client, requests, replies, dma>>
      BY DEF GiveUp
<1>2. TypeInv'
      BY <1>0, <1>1, CmdLemma DEF TypeInv
<1>3. ReaderInv' /\ replies = <<>> /\ client = NoClient
      BY <1>1, UnservedLemma, CmdLemma
<1>4. BlkInv'
      BY Zenon, <1>1, <1>3 DEF BlkInv
<1>5. BufInv'
      BY Zenon, <1>1, <1>3, CmdLemma DEF BufInv
<1>6. QueueInv' /\ AnswerInv'
      BY Zenon, <1>1, <1>3 DEF QueueInv, AnswerInv
<1> QED
    BY Zenon, <1>2, <1>3, <1>4, <1>5, <1>6 DEF IInv

\* While the driver is at a read, the reader waits for that read.
LEMMA AtRead ==
    ASSUME IInv, blk.at = "submit", blk.cmd.op = "read"
    PROVE  Reading
    BY Zenon DEF IInv, ReaderInv, Quiet, Sent, Answered

LEMMA AnsweredStep ==
    ASSUME IInv, Reading, NEW ok \in BOOLEAN, replies' = Respond(ok),
           blk' = [at |-> "serve", cmd |-> NoCmd], UNCHANGED <<client, requests, reader>>
    PROVE  /\ ReaderInv' /\ BlkInv'
           /\ blk'.at = "serve" /\ blk'.cmd = NoCmd /\ replies' = <<[ok |-> ok]>>
<1>1. blk'.at = "serve" /\ blk'.cmd = NoCmd
      OBVIOUS
<1>2. replies = <<>>
      BY Zenon DEF Reading
<1>3. replies' = <<[ok |-> ok]>>
      BY Zenon, <1>2, TupleLemma DEF Respond
<1>4. Answered'
      BY Zenon, <1>1, <1>3 DEF Reading, Answered
<1>5. ReaderInv'
      BY Zenon, <1>4 DEF IInv, ReaderInv
<1>6. BlkInv'
      BY Zenon, <1>1 DEF BlkInv, Serving
<1> QED
    BY Zenon, <1>1, <1>3, <1>5, <1>6

LEMMA FinishReadStep ==
    ASSUME IInv, blk.at = "submit", Completed, blk.cmd.op = "read",
           ReadDone(q.cq[q.cq_head].ok), UNCHANGED <<client, requests, dma, lapsed, reader>>
    PROVE  IInv'
<1> DEFINE ok == q.cq[q.cq_head].ok
<1>0. TypeInv /\ QueueInv /\ BufInv /\ q \in Queue
      BY Zenon DEF IInv, TypeInv
<1>1. q' = Taken /\ replies' = Respond(ok) /\ blk' = [at |-> "serve", cmd |-> NoCmd]
      BY Zenon DEF ReadDone
<1>2. ok \in BOOLEAN
      BY <1>0 DEF Queue
<1>3. Reading
      BY Zenon, AtRead
<1>4. ~lapsed => (ok => dma = Blocks(blk.cmd.lba, blk.cmd.n))
      BY Zenon, <1>0, TakenEmpty DEF Done
<1>5. blk.cmd.lba = reader.ask.lba /\ blk.cmd.n = reader.ask.n
      BY <1>3 DEF Reading, Asked, Read
<1> HIDE DEF ok
<1>6. /\ ReaderInv' /\ BlkInv'
      /\ blk'.at = "serve" /\ blk'.cmd = NoCmd /\ replies' = <<[ok |-> ok]>>
      BY Zenon, <1>1, <1>2, <1>3, AnsweredStep
<1>7. TypeInv'
      BY <1>0, <1>1, TakenLemma, CmdLemma DEF TypeInv
<1>8. BufInv'
      BY Zenon, <1>0 DEF BufInv, Asked
<1>9. QueueInv'
      BY Zenon, <1>0, <1>1, <1>6, TakenEmpty DEF QueueInv
<1>10. Head(replies').ok = ok
  <2>1. Head(<<[ok |-> ok]>>) = [ok |-> ok]
        BY Zenon, TupleLemma
  <2> QED
      BY <1>6, <2>1
<1>11. AnswerInv'
       BY Zenon, <1>4, <1>5, <1>10 DEF AnswerInv
<1> QED
    BY Zenon, <1>6, <1>7, <1>8, <1>9, <1>11 DEF IInv

LEMMA FinishAdminStep ==
    ASSUME IInv, blk.at = "submit", Completed, blk.cmd.op # "read",
           IF blk.cmd.op = "create_sq"
           THEN q' = NewQueue /\ blk' = [at |-> "serve", cmd |-> NoCmd]
           ELSE LET cmd == [op |-> AdminCmds[Index(blk.cmd.op) + 1]]
                IN  q' = Submitted(Taken, cmd) /\ blk' = [blk EXCEPT !.cmd = cmd],
           UNCHANGED <<client, requests, replies, dma, lapsed, reader>>
    PROVE  IInv'
<1>0. TypeInv /\ BlkInv /\ QueueInv /\ q \in Queue
      BY Zenon DEF IInv, TypeInv
<1>1. ~Serving /\ blk.cmd.op \in Admin
      BY Zenon, <1>0 DEF BlkInv, Serving
<1>2. CASE blk.cmd.op = "create_sq"
  <2>1. /\ q' = NewQueue /\ blk' = [at |-> "serve", cmd |-> NoCmd]
        /\ blk'.at = "serve" /\ blk'.cmd = NoCmd
        BY <1>2
  <2>2. TypeInv'
        BY <1>0, <2>1, NewQueueLemma, CmdLemma DEF TypeInv
  <2>3. ReaderInv' /\ replies = <<>> /\ client = NoClient
        BY <1>1, <2>1, UnservedLemma, CmdLemma
  <2>4. BlkInv' /\ AnswerInv'
        BY Zenon, <2>1, <2>3 DEF BlkInv, Serving, AnswerInv
  <2>5. BufInv'
        BY Zenon, <2>3, CmdLemma DEF BufInv
  <2>6. QueueInv'
        BY Zenon, <2>1, EmptyRing DEF QueueInv
  <2> QED
      BY Zenon, <2>2, <2>3, <2>4, <2>5, <2>6 DEF IInv
<1>3. CASE blk.cmd.op # "create_sq"
  <2> DEFINE cmd == [op |-> AdminCmds[Index(blk.cmd.op) + 1]]
  <2>0. cmd.op \in Admin /\ cmd \in Cmds /\ cmd.op # "read"
        BY <1>1, <1>3, IndexLemma, CmdLemma
  <2>1. q' = Submitted(Taken, cmd) /\ blk' = [blk EXCEPT !.cmd = cmd]
        BY Zenon, <1>3
  <2> HIDE DEF cmd
  <2>2. blk'.at = "submit" /\ blk'.cmd = cmd
        BY <1>0, <2>1 DEF TypeInv
  <2>3. TypeInv'
        BY <1>0, <2>0, <2>1, TakenLemma, SubmittedLemma DEF TypeInv
  <2>4. ReaderInv' /\ replies = <<>> /\ client = NoClient
        BY Zenon, <1>1, <2>0, <2>2, UnservedLemma
  <2>5. BlkInv' /\ AnswerInv'
        BY Zenon, <2>0, <2>2, <2>4 DEF BlkInv, AnswerInv
  <2>6. BufInv'
        BY Zenon, <2>4, CmdLemma DEF BufInv
  <2>7. ~lapsed => Ring(q') /\ Busy(q', cmd)
        BY Zenon, <1>0, <2>0, <2>1, TakenEmpty, TakenLemma, SubmitBusy
  <2>8. QueueInv'
        BY Zenon, <2>2, <2>7 DEF QueueInv
  <2> QED
      BY Zenon, <2>3, <2>4, <2>5, <2>6, <2>8 DEF IInv
<1> QED
    BY Zenon, <1>2, <1>3

LEMMA FinishStep ==
    ASSUME IInv, Finish
    PROVE  IInv'
<1>1. blk.at = "submit" /\ Completed
      BY Zenon DEF Finish
<1>2. ASSUME blk.cmd.op = "read" PROVE IInv'
  <2>1. /\ ReadDone(q.cq[q.cq_head].ok)
        /\ UNCHANGED <<client, requests, dma, lapsed, reader>>
        BY Zenon, <1>2 DEF Finish
  <2> QED
      BY Zenon, <1>1, <1>2, <2>1, FinishReadStep
<1>3. ASSUME blk.cmd.op # "read", q.cq[q.cq_head].ok PROVE IInv'
  <2>1. /\ IF blk.cmd.op = "create_sq"
           THEN q' = NewQueue /\ blk' = [at |-> "serve", cmd |-> NoCmd]
           ELSE LET cmd == [op |-> AdminCmds[Index(blk.cmd.op) + 1]]
                IN  q' = Submitted(Taken, cmd) /\ blk' = [blk EXCEPT !.cmd = cmd]
        /\ UNCHANGED <<client, requests, replies, dma, lapsed, reader>>
        BY Zenon, <1>3 DEF Finish
  <2> QED
      BY Zenon, <1>1, <1>3, <2>1, FinishAdminStep
<1>4. ASSUME blk.cmd.op # "read", ~q.cq[q.cq_head].ok PROVE IInv'
  <2>1. GiveUp /\ UNCHANGED <<q, lapsed, reader>>
        BY Zenon, <1>4 DEF Finish
  <2>2. ~Serving
        BY Zenon, <1>1, <1>4 DEF Serving
  <2> QED
      BY Zenon, <2>1, <2>2, GiveUpStep
<1> QED
    BY Zenon, <1>2, <1>3, <1>4

LEMMA PollTimeoutStep ==
    ASSUME IInv, PollTimeout
    PROVE  IInv'
<1>0. TypeInv
      BY Zenon DEF IInv
<1>1. blk.at = "submit" /\ lapsed' = (lapsed \/ blk.cmd.op = "read") /\ UNCHANGED reader
      BY Zenon DEF PollTimeout
<1>2. CASE blk.cmd.op = "read"
  <2>1. /\ replies' = Respond(FALSE) /\ blk' = [at |-> "serve", cmd |-> NoCmd]
        /\ UNCHANGED <<q, client, requests, dma>>
        BY Zenon, <1>2 DEF PollTimeout
  <2>2. lapsed' = TRUE
        BY <1>1, <1>2
  <2>3. Reading
        BY Zenon, <1>1, <1>2, AtRead
  <2>4. ReaderInv' /\ BlkInv'
        BY Zenon, <1>1, <2>1, <2>3, AnsweredStep
  <2>5. TypeInv'
        BY <1>0, <1>1, <2>1, <2>2, CmdLemma DEF TypeInv
  <2>6. BufInv' /\ QueueInv' /\ AnswerInv'
        BY Zenon, <2>2 DEF BufInv, QueueInv, AnswerInv
  <2> QED
      BY Zenon, <2>4, <2>5, <2>6 DEF IInv
<1>3. CASE blk.cmd.op # "read"
  <2>1. GiveUp /\ UNCHANGED <<q, reader>>
        BY Zenon, <1>3 DEF PollTimeout
  <2>2. lapsed' = lapsed
        BY <1>0, <1>1, <1>3 DEF TypeInv
  <2>3. ~Serving
        BY Zenon, <1>1, <1>3 DEF Serving
  <2> QED
      BY Zenon, <2>1, <2>2, <2>3, GiveUpStep
<1> QED
    BY Zenon, <1>2, <1>3

\* What a serving driver finds in its endpoint.
LEMMA RequestCases ==
    ASSUME IInv, blk.at = "serve", requests # <<>>
    PROVE  /\ replies = <<>> /\ blk.cmd = NoCmd /\ reader.at \in {"ready", "wait"}
           /\ \/ Quiet /\ (requests = <<Reg, Set>> \/ requests = <<Set>>)
              \/ Sent /\ \/ requests = <<Reg, Set, Asked>>
                         \/ requests = <<Set, Asked>>
                         \/ requests = <<Asked>> /\ client.reply
<1>1. ~Reading /\ ~Answered
      BY Zenon DEF Reading, Answered
<1>2. Quiet \/ Sent
      BY Zenon, <1>1 DEF IInv, ReaderInv
<1>3. blk.cmd = NoCmd
      BY Zenon DEF IInv, BlkInv
<1> QED
    BY Zenon, <1>2, <1>3 DEF Quiet, Sent

\* Which request is the first, and what is left.
LEMMA FirstRequest ==
    ASSUME IInv, blk.at = "serve", requests # <<>>
    PROVE  /\ Head(requests).op = "register_buf" =>
                \/ Quiet /\ requests = <<Reg, Set>> /\ Tail(requests) = <<Set>>
                \/ Sent /\ requests = <<Reg, Set, Asked>> /\ Tail(requests) = <<Set, Asked>>
           /\ Head(requests).op = "set_reply" =>
                \/ Quiet /\ requests = <<Set>> /\ Tail(requests) = <<>>
                \/ Sent /\ requests = <<Set, Asked>> /\ Tail(requests) = <<Asked>>
           /\ Head(requests).op = "read" =>
                /\ Sent /\ requests = <<Asked>> /\ client.reply
                /\ Head(requests) = Asked /\ Tail(requests) = <<>>
<1>1. /\ Head(<<Reg, Set>>) = Reg /\ Tail(<<Reg, Set>>) = <<Set>>
      /\ Head(<<Set>>) = Set /\ Tail(<<Set>>) = <<>>
      /\ Head(<<Reg, Set, Asked>>) = Reg /\ Tail(<<Reg, Set, Asked>>) = <<Set, Asked>>
      /\ Head(<<Set, Asked>>) = Set /\ Tail(<<Set, Asked>>) = <<Asked>>
      /\ Head(<<Asked>>) = Asked /\ Tail(<<Asked>>) = <<>>
      BY TupleLemma
<1>2. Reg.op = "register_buf" /\ Set.op = "set_reply" /\ Asked.op = "read"
      BY DEF Reg, Set, Asked, Read
<1>3. "register_buf" # "set_reply" /\ "register_buf" # "read" /\ "set_reply" # "read"
      OBVIOUS
<1>4. \/ Quiet /\ (requests = <<Reg, Set>> \/ requests = <<Set>>)
      \/ Sent /\ \/ requests = <<Reg, Set, Asked>>
                 \/ requests = <<Set, Asked>>
                 \/ requests = <<Asked>> /\ client.reply
      BY Zenon, RequestCases
<1>5. CASE Quiet /\ requests = <<Reg, Set>>
      BY Zenon, <1>1, <1>2, <1>3, <1>5
<1>6. CASE Quiet /\ requests = <<Set>>
      BY Zenon, <1>1, <1>2, <1>3, <1>6
<1>7. CASE Sent /\ requests = <<Reg, Set, Asked>>
      BY Zenon, <1>1, <1>2, <1>3, <1>7
<1>8. CASE Sent /\ requests = <<Set, Asked>>
      BY Zenon, <1>1, <1>2, <1>3, <1>8
<1>9. CASE Sent /\ requests = <<Asked>> /\ client.reply
      BY Zenon, <1>1, <1>2, <1>3, <1>9
<1> QED
    BY Zenon, <1>4, <1>5, <1>6, <1>7, <1>8, <1>9

LEMMA TakeRegisterStep ==
    ASSUME IInv, blk.at = "serve", requests # <<>>, requests' = Tail(requests),
           Head(requests).op = "register_buf",
           NEW buf \in {"own", client.buf}, client' = [client EXCEPT !.buf = buf],
           lapsed' = (lapsed \/ buf = "stale"), UNCHANGED <<blk, q, replies, dma, reader>>
    PROVE  IInv'
<1>0. TypeInv /\ BlkInv /\ QueueInv /\ AnswerInv /\ ReaderInv
      BY Zenon DEF IInv
<1>1. client'.buf = buf /\ client'.reply = client.reply
      BY <1>0 DEF TypeInv
<1>2. TypeInv'
      BY <1>0 DEF TypeInv
<1>3. Serving' /\ blk.cmd = NoCmd /\ replies = <<>>
      BY Zenon, RequestCases DEF Serving
<1>4. CASE Quiet /\ requests = <<Reg, Set>> /\ Tail(requests) = <<Set>>
  <2>1. reader.at = "ready"
        BY Zenon, <1>4, TupleLemma, LengthLemma DEF Quiet
  <2>2. Quiet'
        BY Zenon, <1>3, <1>4, <2>1 DEF Quiet
  <2> QED
      BY Zenon, <1>0, <1>2, <1>3, <2>2, <1>1 DEF IInv, BlkInv, ReaderInv, BufInv, QueueInv, AnswerInv, Ring, Empty
<1>5. CASE Sent /\ requests = <<Reg, Set, Asked>> /\ Tail(requests) = <<Set, Asked>>
  <2>1. Sent'
        BY Zenon, <1>3, <1>5 DEF Sent, Asked
  <2> QED
      BY Zenon, <1>0, <1>2, <1>3, <2>1, <1>1 DEF IInv, BlkInv, ReaderInv, BufInv, QueueInv, AnswerInv, Ring, Empty
<1> QED
    BY Zenon, FirstRequest, <1>4, <1>5

LEMMA TakeReplyStep ==
    ASSUME IInv, blk.at = "serve", requests # <<>>, requests' = Tail(requests),
           Head(requests).op = "set_reply", client' = [client EXCEPT !.reply = TRUE],
           UNCHANGED <<blk, q, replies, dma, lapsed, reader>>
    PROVE  IInv'
<1>0. TypeInv /\ BlkInv /\ QueueInv /\ AnswerInv /\ ReaderInv /\ BufInv
      BY Zenon DEF IInv
<1>1. client'.buf = client.buf /\ client'.reply
      BY <1>0 DEF TypeInv
<1>2. TypeInv'
      BY <1>0 DEF TypeInv
<1>3. Serving' /\ blk.cmd = NoCmd /\ replies = <<>> /\ reader.at # "down"
      BY Zenon, RequestCases DEF Serving
<1>4. CASE Quiet /\ requests = <<Set>> /\ Tail(requests) = <<>>
  <2>1. reader.at = "ready"
        BY Zenon, <1>4, TupleLemma DEF Quiet
  <2>2. Quiet'
        BY Zenon, <1>1, <1>3, <1>4, <2>1 DEF Quiet
  <2>3. ~lapsed => client.buf # "stale"
        BY Zenon, <1>0, <1>3, <1>4, LengthLemma DEF BufInv
  <2> QED
      BY Zenon, <1>0, <1>1, <1>2, <1>3, <2>2, <2>3
         DEF IInv, BlkInv, ReaderInv, BufInv, QueueInv, AnswerInv, Ring, Empty
<1>5. CASE Sent /\ requests = <<Set, Asked>> /\ Tail(requests) = <<Asked>>
  <2>1. Sent'
        BY Zenon, <1>1, <1>3, <1>5 DEF Sent, Asked
  <2>2. <<Set, Asked>> # <<Reg, Set, Asked>>
        BY Zenon, LengthLemma
  <2>3. <<Set, Asked>> # <<Reg, Set>>
    <3>1. <<Set, Asked>> = <<Reg, Set>> => Set = Reg
          BY Zenon, LengthLemma
    <3> QED
        BY <3>1, CmdLemma
  <2>4. ~lapsed => client.buf # "stale"
        BY Zenon, <1>0, <1>3, <1>5, <2>2, <2>3 DEF BufInv
  <2> QED
      BY Zenon, <1>0, <1>1, <1>2, <1>3, <2>1, <2>4
         DEF IInv, BlkInv, ReaderInv, BufInv, QueueInv, AnswerInv, Ring, Empty
<1> QED
    BY Zenon, FirstRequest, <1>4, <1>5

LEMMA TakeReadStep ==
    ASSUME IInv, blk.at = "serve", requests # <<>>, requests' = Tail(requests),
           Head(requests).op = "read",
           IF client.reply /\ Accepts(Head(requests))
           THEN /\ q' = Submitted(q, IF client.buf = "own" THEN Head(requests) ELSE Orphan)
                /\ blk' = [at |-> "submit", cmd |-> Head(requests)]
                /\ UNCHANGED replies
           ELSE /\ replies' = IF client.reply THEN Respond(FALSE) ELSE replies
                /\ UNCHANGED <<blk, q>>,
           UNCHANGED <<client, lapsed, dma, reader>>
    PROVE  IInv'
<1>0. TypeInv /\ BlkInv /\ QueueInv /\ AnswerInv /\ ReaderInv /\ BufInv /\ q \in Queue
      BY Zenon DEF IInv, TypeInv
<1>1. /\ Sent /\ requests = <<Asked>> /\ client.reply
      /\ Head(requests) = Asked /\ Tail(requests) = <<>>
      BY Zenon, FirstRequest
<1>2. reader.at = "wait" /\ reader.ask.n \in 1 .. MAX_BLOCKS /\ replies = <<>> /\ blk.cmd = NoCmd
      BY Zenon, <1>0, <1>1 DEF Sent, ReaderInv, BlkInv
<1>3. ~lapsed => client.buf # "stale"
      BY Zenon, <1>0, <1>1, <1>2, LengthLemma DEF BufInv
<1>4. BufInv'
      BY Zenon, <1>3 DEF BufInv
<1>5. CASE Accepts(Asked)
  <2> DEFINE cmd == IF client.buf = "own" THEN Asked ELSE Orphan
  <2>1. /\ q' = Submitted(q, cmd) /\ blk' = [at |-> "submit", cmd |-> Asked]
        /\ replies' = replies
        BY Zenon, <1>1, <1>5
  <2>2. blk'.at = "submit" /\ blk'.cmd = Asked
        BY <2>1
  <2>3. Asked \in Cmds /\ Asked.op = "read"
        BY <1>0, <1>2 DEF Asked, Read, Cmds, TypeInv
  <2>4. cmd \in Cmds
        BY Zenon, <2>3, CmdLemma
  <2>5. ~lapsed => cmd = Asked
        BY <1>0, <1>3, <1>5 DEF Accepts, TypeInv
  <2> HIDE DEF cmd
  <2>6. TypeInv'
        BY <1>0, <2>1, <2>3, <2>4, SubmittedLemma DEF TypeInv
  <2>7. BlkInv'
        BY Zenon, <2>2, <2>3 DEF BlkInv, Serving
  <2>8. Reading'
        BY Zenon, <1>1, <1>2, <2>1, <2>2 DEF Reading, Asked
  <2>9. ReaderInv' /\ AnswerInv'
        BY Zenon, <1>0, <1>2, <2>1, <2>8 DEF ReaderInv, AnswerInv
  <2>10. ~lapsed => Ring(q) /\ Empty(q)
         BY Zenon, <1>0 DEF QueueInv
  <2>11. ~lapsed => Ring(q') /\ Busy(q', Asked)
         BY Zenon, <1>0, <2>1, <2>4, <2>5, <2>10, SubmitBusy
  <2>12. QueueInv'
         BY Zenon, <2>2, <2>11 DEF QueueInv
  <2> QED
      BY Zenon, <1>4, <2>6, <2>7, <2>9, <2>12 DEF IInv
<1>6. CASE ~Accepts(Asked)
  <2>1. replies' = Respond(FALSE) /\ UNCHANGED <<blk, q>>
        BY Zenon, <1>1, <1>6
  <2>2. replies' = <<[ok |-> FALSE]>> /\ Head(replies') = [ok |-> FALSE]
        BY Zenon, <1>2, <2>1, TupleLemma DEF Respond
  <2>3. ~Head(replies').ok
        BY <2>2
  <2>4. Answered'
        BY Zenon, <1>1, <1>2, <2>1, <2>2 DEF Answered
  <2>5. ReaderInv' /\ AnswerInv'
        BY Zenon, <1>0, <2>3, <2>4 DEF ReaderInv, AnswerInv
  <2>6. TypeInv' /\ BlkInv' /\ QueueInv'
        BY Zenon, <1>0, <2>1 DEF TypeInv, BlkInv, Serving, QueueInv, Ring, Empty
  <2> QED
      BY Zenon, <1>4, <2>5, <2>6 DEF IInv
<1> QED
    BY Zenon, <1>5, <1>6

LEMMA TakeRequestStep ==
    ASSUME IInv, TakeRequest
    PROVE  IInv'
<1> DEFINE m == Head(requests)
<1>1. /\ blk.at = "serve" /\ requests # <<>> /\ requests' = Tail(requests)
      /\ UNCHANGED <<dma, reader>>
      BY Zenon DEF TakeRequest
<1>2. CASE /\ m.op = "register_buf"
           /\ \E buf \in {"own", client.buf} :
                /\ client' = [client EXCEPT !.buf = buf]
                /\ lapsed' = (lapsed \/ buf = "stale")
           /\ UNCHANGED <<blk, q, replies>>
      BY Zenon, <1>1, <1>2, TakeRegisterStep
<1>3. CASE /\ m.op = "set_reply"
           /\ client' = [client EXCEPT !.reply = TRUE]
           /\ UNCHANGED <<blk, q, replies, lapsed>>
      BY Zenon, <1>1, <1>3, TakeReplyStep
<1>4. CASE /\ m.op = "read"
           /\ IF client.reply /\ Accepts(m)
              THEN /\ q' = Submitted(q, IF client.buf = "own" THEN m ELSE Orphan)
                   /\ blk' = [at |-> "submit", cmd |-> m]
                   /\ UNCHANGED replies
              ELSE /\ replies' = IF client.reply THEN Respond(FALSE) ELSE replies
                   /\ UNCHANGED <<blk, q>>
           /\ UNCHANGED <<client, lapsed>>
      BY Zenon, <1>1, <1>4, TakeReadStep
<1> QED
    BY Zenon, <1>2, <1>3, <1>4 DEF TakeRequest

LEMMA ExecuteStep ==
    ASSUME IInv, Execute
    PROVE  IInv'
<1>0. TypeInv /\ BlkInv /\ QueueInv /\ AnswerInv /\ ReaderInv /\ BufInv /\ q \in Queue
      BY Zenon DEF IInv, TypeInv
<1>1. /\ blk.at # "down" /\ q.fetched # q.sq_tail
      /\ UNCHANGED <<blk, client, requests, replies, lapsed, reader>>
      BY Zenon DEF Execute
<1>2. PICK ok \in BOOLEAN :
        /\ q' \in Queue
        /\ q'.fetched = Succ(q.fetched) /\ q'.posted = Succ(q.posted)
        /\ q'.sq_tail = q.sq_tail /\ q'.cq_head = q.cq_head /\ q'.phase = q.phase
        /\ q'.flip = IF q.posted = DEPTH - 1 THEN 1 - q.flip ELSE q.flip
        /\ q'.cq = [q.cq EXCEPT ![q.posted] = [phase |-> q.flip, ok |-> ok]]
        /\ dma' = IF ok /\ q.sq[q.fetched].op = "read"
                  THEN Blocks(q.sq[q.fetched].lba, q.sq[q.fetched].n) ELSE dma
      BY Zenon, <1>0, ExecuteLemma
<1>3. TypeInv'
      BY Zenon, <1>0, <1>1, <1>2 DEF TypeInv
<1>4. BlkInv' /\ ReaderInv' /\ BufInv'
      BY Zenon, <1>0, <1>1 DEF BlkInv, ReaderInv, BufInv, Quiet, Sent, Reading, Answered, Serving, Asked
<1>5. CASE lapsed
      BY Zenon, <1>1, <1>3, <1>4, <1>5 DEF IInv, QueueInv, AnswerInv
<1>6. CASE ~lapsed
  <2>1. blk.at = "submit" /\ Ring(q) /\ Busy(q, blk.cmd)
        BY Zenon, <1>0, <1>1, <1>6 DEF QueueInv, Empty, Done
  <2>2. Ring(q')
        BY Zenon, <1>0, <2>1, RingLemma
  <2>3. /\ q.sq_tail = Succ(q.fetched) /\ q.posted = q.cq_head /\ q.phase = q.flip
        /\ q.sq[q.fetched] = blk.cmd
        BY Zenon, <2>1 DEF Busy
  <2>4. q.posted \in Slots /\ q.posted \in Nat /\ q.flip \in Bit
        /\ q.cq \in [Slots -> [phase : Bit, ok : BOOLEAN]]
        BY <1>0 DEF Queue, Slots
  <2>5. /\ q.posted = DEPTH - 1 => Succ(q.posted) = 0
        /\ q.posted # DEPTH - 1 => Succ(q.posted) = q.posted + 1
        BY Zenon, <2>4, SuccLemma
  <2>6. q'.phase = IF q'.posted = 0 THEN 1 - q'.flip ELSE q'.flip
        BY <1>2, <2>3, <2>4, <2>5 DEF Bit
  <2>7. q'.cq[q'.cq_head].ok = ok
        BY <1>2, <2>3, <2>4
  <2>8. blk.cmd.op = "read" /\ ok => dma' = Blocks(blk.cmd.lba, blk.cmd.n)
        BY Zenon, <1>2, <2>3
  <2>9. Done(q, blk.cmd)'
        BY Zenon, <1>1, <1>2, <2>3, <2>6, <2>7, <2>8 DEF Done
  <2>10. QueueInv'
         BY Zenon, <1>1, <2>1, <2>2, <2>9 DEF QueueInv
  <2>11. replies = <<>>
         BY Zenon, <1>0, <2>1 DEF ReaderInv, Quiet, Sent, Reading, Answered
  <2>12. AnswerInv'
         BY Zenon, <1>1, <2>11 DEF AnswerInv
  <2> QED
      BY Zenon, <1>3, <1>4, <2>10, <2>12 DEF IInv
<1> QED
    BY Zenon, <1>5, <1>6

LEMMA RegisterStep ==
    ASSUME IInv, Register
    PROVE  IInv'
<1>0. TypeInv /\ BlkInv /\ QueueInv /\ AnswerInv /\ ReaderInv /\ BufInv
      BY Zenon DEF IInv
<1>1. /\ reader.at = "down" /\ reader' = [reader EXCEPT !.at = "ready"]
      /\ requests' = requests \o <<Reg, Set>>
      /\ UNCHANGED <<blk, q, client, replies, dma, lapsed>>
      BY Zenon DEF Register, Reg, Set
<1>2. /\ reader'.at = "ready" /\ reader'.ask = reader.ask
      /\ TypeInv'
      BY <1>0, <1>1 DEF TypeInv
<1>3. Quiet /\ requests = <<>>
  <2>1. ~Sent /\ ~Reading /\ ~Answered
        BY Zenon, <1>1 DEF Sent, Reading, Answered
  <2> QED
      BY Zenon, <1>0, <1>1, <2>1 DEF ReaderInv, Quiet
<1>4. requests' = <<Reg, Set>>
      BY Zenon, <1>1, <1>3, TupleLemma
<1>5. Quiet'
      BY Zenon, <1>1, <1>2, <1>3, <1>4 DEF Quiet
<1>6. ReaderInv' /\ BufInv'
      BY Zenon, <1>2, <1>4, <1>5 DEF ReaderInv, BufInv
<1>7. BlkInv' /\ QueueInv'
      BY Zenon, <1>0, <1>1 DEF BlkInv, Serving, QueueInv, Ring, Empty, Busy, Done
<1>8. AnswerInv'
      BY Zenon, <1>1, <1>3 DEF AnswerInv, Quiet
<1> QED
    BY Zenon, <1>2, <1>6, <1>7, <1>8 DEF IInv

LEMMA SendReadStep ==
    ASSUME IInv, SendRead
    PROVE  IInv'
<1>0. TypeInv /\ BlkInv /\ QueueInv /\ AnswerInv /\ ReaderInv /\ BufInv
      BY Zenon DEF IInv
<1>1. PICK lba \in Lbas, n \in 1 .. MAX_BLOCKS :
        /\ requests' = Append(requests, Read(lba, n))
        /\ reader' = [reader EXCEPT !.at = "wait", !.ask = [lba |-> lba, n |-> n]]
      BY Zenon DEF SendRead
<1>2. reader.at = "ready" /\ UNCHANGED <<blk, q, client, replies, dma, lapsed>>
      BY Zenon DEF SendRead
<1>3. /\ reader'.at = "wait" /\ reader'.ask.lba = lba /\ reader'.ask.n = n
      /\ TypeInv'
  <2>1. [lba |-> lba, n |-> n] \in [lba : Nat, n : 0 .. MAX_BLOCKS]
        BY NvmeAssumption
  <2> QED
      BY <1>0, <1>1, <1>2, <2>1 DEF TypeInv
<1>4. Asked' = Read(lba, n)
      BY Zenon, <1>3 DEF Asked
<1>5. Quiet
      BY Zenon, <1>0, <1>2 DEF ReaderInv, Sent, Reading, Answered
<1>6. /\ requests = <<Reg, Set>> => requests' = <<Reg, Set, Asked'>>
      /\ requests = <<Set>> => requests' = <<Set, Asked'>>
      /\ requests = <<>> => requests' = <<Asked'>>
  <2>1. Append(<<Reg, Set>>, Read(lba, n)) = <<Reg, Set, Read(lba, n)>>
        BY Zenon, AppendTwo
  <2>2. Append(<<Set>>, Read(lba, n)) = <<Set, Read(lba, n)>>
        BY Zenon, TupleLemma
  <2>3. Append(<<>>, Read(lba, n)) = <<Read(lba, n)>>
        BY Zenon, TupleLemma
  <2> QED
      BY Zenon, <1>1, <1>4, <2>1, <2>2, <2>3
<1>7. Sent'
      BY Zenon, <1>2, <1>3, <1>5, <1>6 DEF Quiet, Sent, Serving
<1>8. ReaderInv'
      BY Zenon, <1>3, <1>7 DEF ReaderInv
<1>9. BufInv'
  <2>1. /\ <<Set>> # <<Reg, Set>> /\ <<Set>> # <<Reg, Set, Asked>>
        /\ <<Reg, Set>> # <<>> /\ <<Reg, Set, Asked>> # <<>>
        BY Zenon, TupleLemma, LengthLemma
  <2>2. requests = <<Reg, Set>> \/ requests = <<Set>> \/ requests = <<>>
        BY Zenon, <1>5 DEF Quiet
  <2>3. ~lapsed /\ client.buf = "stale" => requests = <<Reg, Set>>
        BY Zenon, <1>0, <1>2, <2>1, <2>2 DEF BufInv
  <2> QED
      BY Zenon, <1>2, <1>6, <2>3 DEF BufInv
<1>10. BlkInv' /\ QueueInv'
       BY Zenon, <1>0, <1>2 DEF BlkInv, Serving, QueueInv, Ring, Empty, Busy, Done
<1>11. AnswerInv'
       BY Zenon, <1>2, <1>5 DEF AnswerInv, Quiet
<1> QED
    BY Zenon, <1>3, <1>8, <1>9, <1>10, <1>11 DEF IInv

LEMMA RecvReplyStep ==
    ASSUME IInv, RecvReply
    PROVE  IInv'
<1> DEFINE ends == ~reader.mounted /\ ~Head(replies).ok
<1>0. TypeInv /\ BlkInv /\ QueueInv /\ AnswerInv /\ ReaderInv /\ BufInv /\ q \in Queue
      BY Zenon DEF IInv, TypeInv
<1>1. /\ reader.at = "wait" /\ replies # <<>> /\ replies' = Tail(replies)
      /\ reader' = [at |-> IF ends THEN "down" ELSE "ready", ask |-> NoRead,
                    mounted |-> reader.mounted \/ Head(replies).ok]
      /\ q' = IF ends THEN Orphaned(q) ELSE q
      /\ client' = IF ends /\ client.buf = "own" THEN [client EXCEPT !.buf = "stale"] ELSE client
      /\ UNCHANGED <<blk, requests, lapsed>>
      BY Zenon DEF RecvReply
<1> HIDE DEF ends
<1>2. /\ reader'.at = IF ends THEN "down" ELSE "ready"
      /\ reader'.ask = NoRead
      BY <1>1
<1>3. Answered
      BY Zenon, <1>0, <1>1 DEF ReaderInv, Quiet, Sent, Reading
<1>4. /\ requests = <<>> /\ blk.at = "serve" /\ client.reply /\ blk.cmd = NoCmd
      /\ blk.cmd.op # "read"
      BY <1>0, <1>3, CmdLemma DEF Answered, BlkInv
<1>5. replies' = <<>>
      BY Zenon, <1>1, <1>3, TupleLemma DEF Answered
<1>6. client'.reply = client.reply /\ (~ends => client' = client)
      /\ client' \in [buf : {"none", "own", "stale"}, reply : BOOLEAN]
      BY <1>0, <1>1 DEF TypeInv
<1>7. reader' \in [at : {"down", "ready", "wait"}, ask : [lba : Nat, n : 0 .. MAX_BLOCKS],
                   mounted : BOOLEAN]
  <2>1. NoRead \in [lba : Nat, n : 0 .. MAX_BLOCKS]
        BY NvmeAssumption DEF NoRead
  <2> QED
      BY <1>1, <2>1
<1>8. TypeInv'
      BY Zenon, <1>0, <1>1, <1>6, <1>7, OrphanedLemma DEF TypeInv
<1>9. Quiet'
      BY Zenon, <1>1, <1>2, <1>4, <1>5, <1>6 DEF Quiet, Serving
<1>10. ReaderInv'
       BY Zenon, <1>2, <1>9 DEF ReaderInv
<1>11. BufInv'
  <2>1. ~ends => (~lapsed => client.buf # "stale")
        BY Zenon, <1>0, <1>1, <1>4, TupleLemma DEF BufInv
  <2> QED
      BY Zenon, <1>1, <1>2, <1>6, <2>1 DEF BufInv
<1>12. BlkInv' /\ AnswerInv'
       BY Zenon, <1>0, <1>1, <1>4, <1>5 DEF BlkInv, Serving, AnswerInv
<1>13. ~lapsed => Ring(q') /\ Empty(q')
  <2>1. ~lapsed => Ring(q) /\ Empty(q)
        BY Zenon, <1>0, <1>4 DEF QueueInv
  <2>2. ~lapsed => Ring(Orphaned(q)) /\ Empty(Orphaned(q))
        BY Zenon, <1>0, <2>1, OrphanedLemma DEF Ring, Empty
  <2> QED
      BY Zenon, <1>1, <2>1, <2>2
<1>14. QueueInv'
       BY Zenon, <1>1, <1>4, <1>13 DEF QueueInv
<1> QED
    BY Zenon, <1>8, <1>10, <1>11, <1>12, <1>14 DEF IInv

LEMMA InvInit == Init => IInv
<1> SUFFICES ASSUME Init PROVE IInv
    OBVIOUS
<1>1. /\ blk.at = "down" /\ blk.cmd = NoCmd /\ q = NewQueue /\ client = NoClient
      /\ requests = <<>> /\ replies = <<>> /\ lapsed = FALSE
      /\ reader.at = "down" /\ reader.ask = NoRead
      BY DEF Init
<1>2. NoRead \in [lba : Nat, n : 0 .. MAX_BLOCKS]
      BY NvmeAssumption DEF NoRead
<1>3. TypeInv
      BY <1>2, NewQueueLemma, CmdLemma DEF Init, TypeInv
<1>4. Quiet
      BY <1>1, CmdLemma DEF Quiet
<1> QED
    BY Zenon, <1>1, <1>3, <1>4 DEF IInv, BlkInv, ReaderInv, BufInv, QueueInv, AnswerInv

LEMMA InvStep == IInv /\ [Next]_vars => IInv'
<1> SUFFICES ASSUME IInv, [Next]_vars PROVE IInv'
    OBVIOUS
<1>1. CASE BlkStart
      BY Zenon, <1>1, BlkStartStep
<1>2. CASE Enable
      BY Zenon, <1>2, EnableStep
<1>3. CASE NotReady
  <2>1. ~Serving
        BY <1>3, CmdLemma DEF NotReady, IInv, BlkInv, Serving
  <2> QED
      BY Zenon, <1>3, <2>1, GiveUpStep DEF NotReady
<1>4. CASE Finish
      BY Zenon, <1>4, FinishStep
<1>5. CASE TakeInterrupt
      BY Zenon, <1>5, SameStep DEF TakeInterrupt
<1>6. CASE PollTimeout
      BY Zenon, <1>6, PollTimeoutStep
<1>7. CASE TakeRequest
      BY Zenon, <1>7, TakeRequestStep
<1>8. CASE Execute
      BY Zenon, <1>8, ExecuteStep
<1>9. CASE OnVector
      BY Zenon, <1>9, SameStep DEF OnVector
<1>10. CASE Register
       BY Zenon, <1>10, RegisterStep
<1>11. CASE SendRead
       BY Zenon, <1>11, SendReadStep
<1>12. CASE RecvReply
       BY Zenon, <1>12, RecvReplyStep
<1>13. CASE UNCHANGED vars
       BY Zenon, <1>13, SameStep DEF vars
<1> QED
    BY Zenon, <1>1, <1>2, <1>3, <1>4, <1>5, <1>6, <1>7, <1>8, <1>9, <1>10, <1>11, <1>12, <1>13
       DEF Next, Drive
-----------------------------------------------------------------------------
(* The refinement                                                           *)

\* The abstract state, as Device maps it.
TheAnswer == IF replies = <<>> THEN "none" ELSE IF Head(replies).ok THEN "ok" ELSE "error"
Holds == replies # <<>> /\ Head(replies).ok /\ dma = Blocks(reader.ask.lba, reader.ask.n)

DevNext == Device!AskForAny \/ Device!Answer \/ Device!Lapse \/ Device!TakeAnswer

\* Without an answer, a step that leaves the read and the answer alone changes
\* nothing a client can see.
LEMMA UnseenStep ==
    ASSUME UNCHANGED <<replies, lapsed, reader>>, replies = <<>> \/ UNCHANGED dma
    PROVE  UNCHANGED Device!devVars
<1>1. TheAnswer' = TheAnswer /\ Holds' = Holds
      BY Zenon DEF TheAnswer, Holds
<1> QED
    BY Zenon, <1>1 DEF Device!devVars, TheAnswer, Holds

\* The driver answers the read: with the blocks in the buffer, with an error,
\* or no longer to be taken at its word.
LEMMA AnswerMaps ==
    ASSUME IInv, IInv', NEW ok \in BOOLEAN, replies = <<>>, replies' = <<[ok |-> ok]>>,
           reader.at = "wait", UNCHANGED reader, lapsed => lapsed'
    PROVE  Device!Answer
<1>1. Head(replies').ok = ok /\ replies' # <<>>
  <2>1. Head(<<[ok |-> ok]>>) = [ok |-> ok] /\ <<[ok |-> ok]>> # <<>>
        BY Zenon, TupleLemma
  <2> QED
      BY <2>1
<1>2. TheAnswer = "none" /\ TheAnswer' = (IF ok THEN "ok" ELSE "error")
      BY <1>1 DEF TheAnswer
<1>3. Holds' = (ok /\ dma' = Blocks(reader.ask.lba, reader.ask.n))
      BY <1>1 DEF Holds
<1>4. ok => Holds' \/ lapsed'
      BY Zenon, <1>1, <1>3 DEF IInv, AnswerInv
<1>5. lapsed \in BOOLEAN /\ lapsed' \in BOOLEAN
      BY Zenon DEF IInv, TypeInv
<1>6. reader.ask # Device!Nothing
  <2>1. reader.ask.n # 0
        BY DEF IInv, ReaderInv
  <2>2. Device!Nothing.n = 0
        BY DEF Device!Nothing
  <2> QED
      BY Zenon, <2>1, <2>2
<1>7. /\ TheAnswer' \in {"ok", "error"} /\ lapsed' \in {lapsed, TRUE} /\ Holds' \in BOOLEAN
      /\ TheAnswer' = "error" => ~Holds'
      /\ TheAnswer' = "ok" => Holds' \/ lapsed'
      BY <1>2, <1>3, <1>4, <1>5
<1> QED
    BY Zenon, <1>2, <1>6, <1>7 DEF Device!Answer, TheAnswer, Holds

LEMMA FinishMaps ==
    ASSUME IInv, IInv', Finish
    PROVE  Device!Answer \/ UNCHANGED Device!devVars
<1>1. CASE blk.cmd.op = "read"
  <2>1. blk.at = "submit" /\ replies' = Respond(q.cq[q.cq_head].ok) /\ UNCHANGED <<lapsed, reader>>
        BY Zenon, <1>1 DEF Finish, ReadDone
  <2>2. Reading
        BY Zenon, <1>1, <2>1, AtRead
  <2>3. q.cq[q.cq_head].ok \in BOOLEAN
        BY DEF IInv, TypeInv, Queue
  <2>4. replies = <<>> /\ reader.at = "wait" /\ replies' = <<[ok |-> q.cq[q.cq_head].ok]>>
        BY Zenon, <2>1, <2>2, TupleLemma DEF Reading, Respond
  <2> QED
      BY Zenon, <2>1, <2>3, <2>4, AnswerMaps
<1>2. CASE blk.cmd.op # "read"
  <2>1. UNCHANGED <<replies, lapsed, reader, dma>>
        BY Zenon, <1>2 DEF Finish, GiveUp
  <2> QED
      BY Zenon, <2>1, UnseenStep
<1> QED
    BY Zenon, <1>1, <1>2

LEMMA PollTimeoutMaps ==
    ASSUME IInv, IInv', PollTimeout
    PROVE  Device!Answer \/ UNCHANGED Device!devVars
<1>0. blk.at = "submit" /\ lapsed' = (lapsed \/ blk.cmd.op = "read") /\ UNCHANGED reader
      BY Zenon DEF PollTimeout
<1>1. CASE blk.cmd.op = "read"
  <2>1. replies' = Respond(FALSE)
        BY Zenon, <1>1 DEF PollTimeout
  <2>2. Reading
        BY Zenon, <1>0, <1>1, AtRead
  <2>3. replies = <<>> /\ reader.at = "wait" /\ replies' = <<[ok |-> FALSE]>>
        BY Zenon, <2>1, <2>2, TupleLemma DEF Reading, Respond
  <2>4. lapsed => lapsed'
        BY Zenon, <1>0
  <2> QED
      BY Zenon, <1>0, <2>3, <2>4, AnswerMaps
<1>2. CASE blk.cmd.op # "read"
  <2>1. UNCHANGED <<replies, reader, dma>>
        BY Zenon, <1>2 DEF PollTimeout, GiveUp
  <2>2. lapsed' = lapsed
        BY <1>0, <1>2 DEF IInv, TypeInv
  <2> QED
      BY Zenon, <2>1, <2>2, UnseenStep
<1> QED
    BY Zenon, <1>1, <1>2

LEMMA TakeRequestMaps ==
    ASSUME IInv, IInv', TakeRequest
    PROVE  Device!Answer \/ Device!Lapse \/ UNCHANGED Device!devVars
<1> DEFINE m == Head(requests)
<1>0. /\ blk.at = "serve" /\ requests # <<>> /\ UNCHANGED <<dma, reader>>
      BY Zenon DEF TakeRequest
<1>1. replies = <<>>
      BY Zenon, <1>0, RequestCases
<1>2. CASE m.op = "register_buf"
  <2>1. replies' = replies /\ \E buf : lapsed' = (lapsed \/ buf = "stale")
        BY Zenon, <1>2 DEF TakeRequest
  <2>2. lapsed' = lapsed \/ lapsed' = TRUE
        BY <2>1 DEF IInv, TypeInv
  <2>3. CASE lapsed' = lapsed
        BY Zenon, <1>0, <2>1, <2>3, UnseenStep
  <2>4. CASE lapsed' = TRUE
    <3>1. /\ TheAnswer = "none" /\ TheAnswer' = "none" /\ Holds' = FALSE
          BY <1>1, <2>1 DEF TheAnswer, Holds
    <3>2. Holds' \in IF TheAnswer = "ok" THEN BOOLEAN ELSE {FALSE}
          BY <3>1
    <3> QED
        BY Zenon, <1>0, <2>4, <3>1, <3>2 DEF Device!Lapse, TheAnswer, Holds
  <2> QED
      BY Zenon, <2>2, <2>3, <2>4
<1>3. CASE m.op = "set_reply"
  <2>1. UNCHANGED <<replies, lapsed>>
        BY Zenon, <1>3 DEF TakeRequest
  <2> QED
      BY Zenon, <1>0, <2>1, UnseenStep
<1>4. CASE m.op = "read"
  <2>1. /\ lapsed' = lapsed
        /\ replies' = replies \/ replies' = Respond(FALSE)
        BY Zenon, <1>4 DEF TakeRequest
  <2>2. CASE replies' = replies
        BY Zenon, <1>0, <2>1, <2>2, UnseenStep
  <2>3. CASE replies' = Respond(FALSE)
    <3>1. replies' = <<[ok |-> FALSE]>>
          BY Zenon, <1>1, <2>3, TupleLemma DEF Respond
    <3>2. reader.at = "wait"
          BY Zenon, <1>0, <1>4, FirstRequest DEF Sent
    <3> QED
        BY Zenon, <1>0, <1>1, <2>1, <3>1, <3>2, AnswerMaps
  <2> QED
      BY Zenon, <2>1, <2>2, <2>3
<1> QED
    BY Zenon, <1>2, <1>3, <1>4 DEF TakeRequest

\* What is left in the queues from before a lapse may still reach the buffer.
LEMMA ExecuteMaps ==
    ASSUME IInv, Execute
    PROVE  Device!Lapse \/ UNCHANGED Device!devVars
<1>0. /\ blk.at # "down" /\ q.fetched # q.sq_tail /\ UNCHANGED <<replies, lapsed, reader>>
      BY Zenon DEF Execute
<1>1. CASE replies = <<>>
      BY Zenon, <1>0, <1>1, UnseenStep
<1>2. CASE replies # <<>>
  <2>1. blk.at = "serve"
        BY Zenon, <1>2 DEF IInv, ReaderInv, Quiet, Sent, Reading, Answered
  <2>2. lapsed = TRUE
        BY <1>0, <2>1 DEF IInv, QueueInv, Empty, TypeInv
  <2>3. TheAnswer' = TheAnswer
        BY Zenon, <1>0 DEF TheAnswer
  <2>4. Holds' \in (IF TheAnswer = "ok" THEN BOOLEAN ELSE {FALSE})
        BY <1>0, <1>2 DEF Holds, TheAnswer
  <2> QED
      BY Zenon, <1>0, <2>2, <2>3, <2>4 DEF Device!Lapse, TheAnswer, Holds
<1> QED
    BY Zenon, <1>1, <1>2

LEMMA SendReadMaps ==
    ASSUME IInv, SendRead
    PROVE  Device!AskForAny
<1>1. PICK lba \in Lbas, n \in 1 .. MAX_BLOCKS :
        reader' = [reader EXCEPT !.at = "wait", !.ask = [lba |-> lba, n |-> n]]
      BY Zenon DEF SendRead
<1>2. reader.at = "ready" /\ UNCHANGED <<replies, dma, lapsed>>
      BY Zenon DEF SendRead
<1>3. reader'.ask = [lba |-> lba, n |-> n]
      BY <1>1 DEF IInv, TypeInv
<1>4. /\ reader'.ask \in [lba : Nat, n : Nat \ {0}]
      /\ reader'.ask = [lba |-> reader'.ask.lba, n |-> reader'.ask.n]
      BY <1>3, NvmeAssumption
<1>5. reader.ask = NoRead /\ replies = <<>>
      BY Zenon, <1>2 DEF IInv, ReaderInv, Quiet, Sent, Reading, Answered
<1>6. TheAnswer' = TheAnswer /\ Holds' = Holds
      BY Zenon, <1>2, <1>5 DEF TheAnswer, Holds
<1>7. reader.ask = Device!Nothing
      BY Zenon, <1>5 DEF NoRead, Device!Nothing
<1> QED
    BY Zenon, <1>2, <1>4, <1>6, <1>7 DEF Device!AskForAny, Device!AskFor, TheAnswer, Holds

LEMMA RecvReplyMaps ==
    ASSUME IInv, RecvReply
    PROVE  Device!TakeAnswer
<1>1. /\ reader.at = "wait" /\ replies # <<>> /\ replies' = Tail(replies) /\ lapsed' = lapsed
      BY Zenon DEF RecvReply
<1>2. reader'.ask = Device!Nothing
      BY DEF RecvReply, NoRead, Device!Nothing
<1>3. replies' = <<>>
      BY Zenon, <1>1, TupleLemma DEF IInv, ReaderInv, Quiet, Sent, Reading, Answered
<1>4. TheAnswer # "none"
      BY <1>1 DEF TheAnswer
<1>5. TheAnswer' = "none" /\ Holds' = FALSE
      BY <1>3 DEF TheAnswer, Holds
<1> QED
    BY Zenon, <1>1, <1>2, <1>4, <1>5 DEF Device!TakeAnswer, TheAnswer, Holds

LEMMA InitMaps == Init => Device!DevInit
<1> SUFFICES ASSUME Init PROVE Device!DevInit
    OBVIOUS
<1>1. reader.ask = Device!Nothing /\ replies = <<>> /\ lapsed = FALSE
      BY DEF Init, NoRead, Device!Nothing
<1>2. TheAnswer = "none" /\ Holds = FALSE
      BY <1>1 DEF TheAnswer, Holds
<1> QED
    BY Zenon, <1>1, <1>2 DEF Device!DevInit, TheAnswer, Holds

LEMMA NextMaps == IInv /\ IInv' /\ [Next]_vars => [DevNext]_Device!devVars
<1> SUFFICES ASSUME IInv, IInv', [Next]_vars PROVE DevNext \/ UNCHANGED Device!devVars
    OBVIOUS
<1>1. CASE BlkStart \/ Enable \/ TakeInterrupt \/ OnVector
  <2>1. UNCHANGED <<replies, lapsed, reader, dma>>
        BY Zenon, <1>1 DEF BlkStart, Enable, TakeInterrupt, OnVector
  <2> QED
      BY Zenon, <2>1, UnseenStep
<1>2. CASE NotReady
  <2>1. UNCHANGED <<replies, lapsed, reader, dma>>
        BY Zenon, <1>2 DEF NotReady, GiveUp
  <2> QED
      BY Zenon, <2>1, UnseenStep
<1>3. CASE Register
  <2>1. UNCHANGED <<replies, lapsed, dma>> /\ reader.at = "down"
        /\ reader' = [reader EXCEPT !.at = "ready"]
        BY Zenon, <1>3 DEF Register
  <2>2. reader'.ask = reader.ask
        BY <2>1 DEF IInv, TypeInv
  <2>3. TheAnswer' = TheAnswer /\ Holds' = Holds
        BY Zenon, <2>1, <2>2 DEF TheAnswer, Holds
  <2> QED
      BY Zenon, <2>1, <2>2, <2>3 DEF Device!devVars, TheAnswer, Holds
<1>4. CASE UNCHANGED vars
  <2>1. UNCHANGED <<replies, lapsed, reader, dma>>
        BY Zenon, <1>4 DEF vars
  <2> QED
      BY Zenon, <2>1, UnseenStep
<1> QED
    BY Zenon, <1>1, <1>2, <1>3, <1>4, FinishMaps, PollTimeoutMaps, TakeRequestMaps,
       ExecuteMaps, SendReadMaps, RecvReplyMaps DEF Next, Drive, DevNext

\* The driver implements BlockDevice (nvme.rs submit, main.rs), for queues of
\* any depth and any blocks: each read is answered once, and a good answer means
\* that the blocks asked for are in the buffer, unless the promise has lapsed.
THEOREM DriverIsABlockDevice == Spec => ImplementsBlockDevice
<1>1. Spec => []IInv
  <2>1. Init /\ [][Next]_vars => []IInv
        BY InvInit, InvStep, PTL
  <2> QED
      BY <2>1, PTL DEF Spec
<1>2. Init => Device!DevInit
      BY InitMaps
<1>3. IInv /\ IInv' /\ [Next]_vars => [DevNext]_Device!devVars
      BY NextMaps
<1>4. Spec => Device!DevInit /\ [][DevNext]_Device!devVars
      BY <1>1, <1>2, <1>3, PTL DEF Spec
<1> QED
    BY <1>4 DEF ImplementsBlockDevice, Device!DevSpec, DevNext
====
