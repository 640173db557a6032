---------------------------- MODULE SchedProofs ----------------------------
(***************************************************************************)
(* Theorems about the scheduler model, for any number of CPUs and tasks.     *)
(***************************************************************************)
EXTENDS Sched, TLAPS

-----------------------------------------------------------------------------
(* Sequences.                                                               *)

LEMMA AppendFacts ==
    ASSUME NEW S, NEW s \in Seq(S), NEW e \in S
    PROVE  /\ Append(s, e) \in Seq(S)
           /\ Len(Append(s, e)) = Len(s) + 1
           /\ \A i \in 1 .. Len(s) : Append(s, e)[i] = s[i]
           /\ Append(s, e)[Len(s) + 1] = e
           /\ Len(s) \in Nat
OBVIOUS

LEMMA TailFacts ==
    ASSUME NEW S, NEW s \in Seq(S), s # <<>>
    PROVE  /\ Tail(s) \in Seq(S)
           /\ Len(s) \in Nat /\ Len(s) > 0
           /\ Len(Tail(s)) = Len(s) - 1
           /\ \A i \in 1 .. Len(s) - 1 : Tail(s)[i] = s[i + 1]
           /\ Head(s) = s[1]
           /\ Head(s) \in S
OBVIOUS
-----------------------------------------------------------------------------
(* What each CPU's scheduler variables say of where it is.                  *)

Leaving == {"finish", "finishState", "finishQueue"}

CpuInv ==
    \A c \in Cpus :
        /\ pc[c] \notin Leaving => prev[c] = NoTask
        /\ pc[c] \in Leaving => prev[c] # cur[c]
        /\ pc[c] = "finishQueue" => prev[c] \in Tasks
        /\ next[c] # NoTask <=> pc[c] = "start"
        /\ waking[c] # NoWake => pc[c] \in {"irq", "exit"}
        /\ pc[c] = "slept" => cur[c] \in Tasks

\* A CPU has a task from the moment it starts it until it has switched away.
Claims(c, t) == cur[c] = t \/ (pc[c] = "finish" /\ prev[c] = t)

\* Being in a run queue, and no task being there twice, for any queues q.
EntryIn(q, t) == \E c \in Cpus : \E i \in 1 .. Len(q[c]) : q[c][i] = t

NoRepeats(q) ==
    \A c, d \in Cpus : \A i \in 1 .. Len(q[c]), j \in 1 .. Len(q[d]) :
        q[c][i] = q[d][j] => c = d /\ i = j

WithLast(q, c, t) == [q EXCEPT ![c] = Append(q[c], t)]
WithoutFirst(q, c) == [q EXCEPT ![c] = Tail(q[c])]

\* The placement of a task agrees with the run queues.
QueueInv ==
    /\ \A t \in Tasks : place[t] = "QUEUED" <=> EntryIn(runs, t)
    /\ NoRepeats(runs)

\* A task placed on a CPU is claimed by one.
HeldInv ==
    \A t \in Tasks :
        /\ place[t] = "RUNNING" => \E c \in Cpus : Claims(c, t)
        /\ \A d \in Cpus : onCpu[t] = d => Claims(d, t)

\* Queueing a task that is in no queue.
LEMMA AppendLemma ==
    ASSUME NEW r \in [Cpus -> Seq(Tasks)], NoRepeats(r),
           NEW target \in Cpus, NEW t \in Tasks, ~EntryIn(r, t)
    PROVE  /\ WithLast(r, target, t) \in [Cpus -> Seq(Tasks)]
           /\ NoRepeats(WithLast(r, target, t))
           /\ \A u \in Tasks : EntryIn(WithLast(r, target, t), u) <=> u = t \/ EntryIn(r, u)
<1> DEFINE s == r[target]
           q == WithLast(r, target, t)
<1>0. q = [r EXCEPT ![target] = Append(s, t)]
  BY Zenon DEF WithLast
<1> HIDE DEF q
<1>1. s \in Seq(Tasks)
  BY Zenon
<1>2. /\ q[target] \in Seq(Tasks)
      /\ Len(q[target]) = Len(s) + 1
      /\ \A i \in 1 .. Len(s) : q[target][i] = s[i]
      /\ q[target][Len(s) + 1] = t
      /\ Len(s) \in Nat
  BY <1>0, <1>1, AppendFacts
<1>3. \A d \in Cpus : d # target => q[d] = r[d]
  BY Zenon, <1>0
<1>4. \A d \in Cpus : \A k \in 1 .. Len(q[d]) :
        \/ d = target /\ k = Len(s) + 1 /\ q[d][k] = t
        \/ k \in 1 .. Len(r[d]) /\ q[d][k] = r[d][k] /\ r[d][k] # t
  <2> SUFFICES ASSUME NEW d \in Cpus, NEW k \in 1 .. Len(q[d])
               PROVE  \/ d = target /\ k = Len(s) + 1 /\ q[d][k] = t
                      \/ k \in 1 .. Len(r[d]) /\ q[d][k] = r[d][k] /\ r[d][k] # t
    BY Zenon
  <2>1. CASE d = target /\ k = Len(s) + 1
    BY Zenon, <1>2, <2>1
  <2>2. CASE d = target /\ k # Len(s) + 1
    <3>1. k \in 1 .. Len(s) /\ q[d][k] = s[k]
      BY <1>2, <2>2
    <3> QED BY Zenon, <2>2, <3>1 DEF EntryIn
  <2>3. CASE d # target
    BY Zenon, <1>3, <2>3 DEF EntryIn
  <2> QED BY Zenon, <2>1, <2>2, <2>3
<1>5. \A d \in Cpus : \A k \in 1 .. Len(r[d]) : k \in 1 .. Len(q[d]) /\ q[d][k] = r[d][k]
  <2> SUFFICES ASSUME NEW d \in Cpus, NEW k \in 1 .. Len(r[d])
               PROVE  k \in 1 .. Len(q[d]) /\ q[d][k] = r[d][k]
    BY Zenon
  <2>1. CASE d = target
    BY <1>2, <2>1
  <2>2. CASE d # target
    BY Zenon, <1>3, <2>2
  <2> QED BY Zenon, <2>1, <2>2
<1>6. Len(s) + 1 \in 1 .. Len(q[target])
  BY <1>2
<1>7. q \in [Cpus -> Seq(Tasks)]
  BY Zenon, <1>0, <1>1, AppendFacts
<1> HIDE DEF s
<1>8. \A u \in Tasks : EntryIn(q, u) <=> u = t \/ EntryIn(r, u)
  <2>1. ASSUME NEW u \in Tasks, EntryIn(q, u) PROVE u = t \/ EntryIn(r, u)
    BY Zenon, <1>4, <2>1 DEF EntryIn
  <2>2. ASSUME NEW u \in Tasks, EntryIn(r, u) PROVE EntryIn(q, u)
    BY Zenon, <1>5, <2>2 DEF EntryIn
  <2>3. EntryIn(q, t)
    BY Zenon, <1>2, <1>6 DEF EntryIn
  <2> QED BY Zenon, <2>1, <2>2, <2>3
<1>9. NoRepeats(q)
  <2> SUFFICES ASSUME NEW d \in Cpus, NEW e \in Cpus, NEW i \in 1 .. Len(q[d]),
                      NEW j \in 1 .. Len(q[e]), q[d][i] = q[e][j]
               PROVE  d = e /\ i = j
    BY Zenon DEF NoRepeats
  <2>1. CASE q[d][i] = t
    <3>1. d = target /\ i = Len(s) + 1
      BY Zenon, <1>4, <2>1
    <3>2. e = target /\ j = Len(s) + 1
      BY <1>4, <2>1
    <3> QED BY Zenon, <3>1, <3>2
  <2>2. CASE q[d][i] # t
    <3>1. i \in 1 .. Len(r[d]) /\ j \in 1 .. Len(r[e]) /\ r[d][i] = r[e][j]
      BY Zenon, <1>4, <2>2
    <3> QED BY <3>1 DEF NoRepeats
  <2> QED BY Zenon, <2>1, <2>2
<1> QED BY Zenon, <1>7, <1>8, <1>9 DEF q

\* Taking the front of a queue.
LEMMA TailLemma ==
    ASSUME NEW r \in [Cpus -> Seq(Tasks)], NoRepeats(r),
           NEW c \in Cpus, r[c] # <<>>, NEW t, t = Head(r[c])
    PROVE  /\ WithoutFirst(r, c) \in [Cpus -> Seq(Tasks)]
           /\ NoRepeats(WithoutFirst(r, c))
           /\ EntryIn(r, t)
           /\ \A u \in Tasks : EntryIn(WithoutFirst(r, c), u) <=> u # t /\ EntryIn(r, u)
<1> DEFINE s == r[c]
           q == WithoutFirst(r, c)
           Was(d, k) == IF d = c THEN k + 1 ELSE k
<1>0. q = [r EXCEPT ![c] = Tail(s)]
  BY Zenon DEF WithoutFirst
<1> HIDE DEF q
<1>1. s \in Seq(Tasks) /\ s # <<>>
  BY Zenon
<1>2. /\ q[c] \in Seq(Tasks)
      /\ Len(s) \in Nat /\ Len(s) > 0
      /\ Len(q[c]) = Len(s) - 1
      /\ \A i \in 1 .. Len(s) - 1 : q[c][i] = s[i + 1]
      /\ t = s[1]
  BY Zenon, <1>0, <1>1, TailFacts
<1>3. \A d \in Cpus : d # c => q[d] = r[d]
  BY Zenon, <1>0
<1>4. 1 \in 1 .. Len(s)
  BY <1>2
<1>5. q \in [Cpus -> Seq(Tasks)]
  BY Zenon, <1>0, <1>1, TailFacts
<1> HIDE DEF s
<1>a. s = r[c]
  BY Zenon DEF s
<1>6. \A d \in Cpus : \A k \in 1 .. Len(q[d]) :
        Was(d, k) \in 1 .. Len(r[d]) /\ q[d][k] = r[d][Was(d, k)] /\ r[d][Was(d, k)] # t
  <2> SUFFICES ASSUME NEW d \in Cpus, NEW k \in 1 .. Len(q[d])
               PROVE  /\ Was(d, k) \in 1 .. Len(r[d])
                      /\ q[d][k] = r[d][Was(d, k)]
                      /\ r[d][Was(d, k)] # t
    BY Zenon
  <2>1. CASE d = c
    <3>1. k + 1 \in 1 .. Len(r[c]) /\ q[c][k] = r[c][k + 1] /\ k + 1 # 1
      BY <1>2, <1>a, <2>1
    <3>2. r[c][k + 1] # r[c][1]
      BY <1>4, <1>a, <3>1 DEF NoRepeats
    <3> QED BY Zenon, <1>2, <1>a, <2>1, <3>1, <3>2
  <2>2. CASE d # c
    <3>1. k \in 1 .. Len(r[d]) /\ q[d][k] = r[d][k]
      BY Zenon, <1>3, <2>2
    <3>2. r[d][k] # r[c][1]
      BY Zenon, <1>4, <1>a, <2>2, <3>1 DEF NoRepeats
    <3> QED BY Zenon, <1>2, <1>a, <2>2, <3>1, <3>2
  <2> QED BY Zenon, <2>1, <2>2
<1>7. \A u \in Tasks : EntryIn(q, u) <=> u # t /\ EntryIn(r, u)
  <2>1. ASSUME NEW u \in Tasks, EntryIn(q, u) PROVE u # t /\ EntryIn(r, u)
    <3>1. PICK d \in Cpus : \E i \in 1 .. Len(q[d]) : q[d][i] = u
      BY Zenon, <2>1 DEF EntryIn
    <3>2. PICK i \in 1 .. Len(q[d]) : q[d][i] = u
      BY Zenon, <3>1
    <3> HIDE DEF Was
    <3> QED BY Zenon, <1>6, <3>2 DEF EntryIn
  <2>2. ASSUME NEW u \in Tasks, u # t, EntryIn(r, u) PROVE EntryIn(q, u)
    <3>1. PICK d \in Cpus : \E i \in 1 .. Len(r[d]) : r[d][i] = u
      BY Zenon, <2>2 DEF EntryIn
    <3>2. PICK i \in 1 .. Len(r[d]) : r[d][i] = u
      BY Zenon, <3>1
    <3>3. CASE d = c
      <4>1. i # 1 /\ i \in 1 .. Len(s)
        BY Zenon, <1>2, <1>a, <2>2, <3>2, <3>3
      <4>2. i - 1 \in 1 .. Len(s) - 1 /\ (i - 1) + 1 = i
        BY <1>2, <4>1
      <4>3. q[c][i - 1] = u /\ i - 1 \in 1 .. Len(q[c])
        BY Zenon, <1>2, <1>a, <3>2, <3>3, <4>2
      <4> QED BY Zenon, <4>3 DEF EntryIn
    <3>4. CASE d # c
      BY Zenon, <1>3, <3>2, <3>4 DEF EntryIn
    <3> QED BY Zenon, <3>3, <3>4
  <2> QED BY Zenon, <2>1, <2>2
<1>8. NoRepeats(q)
  <2> SUFFICES ASSUME NEW d \in Cpus, NEW e \in Cpus, NEW i \in 1 .. Len(q[d]),
                      NEW j \in 1 .. Len(q[e]), q[d][i] = q[e][j]
               PROVE  d = e /\ i = j
    BY Zenon DEF NoRepeats
  <2>1. d = e /\ Was(d, i) = Was(e, j)
    <3> HIDE DEF Was
    <3>1. /\ Was(d, i) \in 1 .. Len(r[d])
          /\ Was(e, j) \in 1 .. Len(r[e])
          /\ r[d][Was(d, i)] = r[e][Was(e, j)]
      BY Zenon, <1>6
    <3> QED BY <3>1 DEF NoRepeats
  <2> QED BY <2>1
<1>9. EntryIn(r, t)
  BY Zenon, <1>2, <1>4, <1>a DEF EntryIn
<1> QED BY Zenon, <1>5, <1>7, <1>8, <1>9 DEF q

LEMMA EnqueueLemma ==
    ASSUME TypeOK, QueueInv, NEW c \in Cpus, NEW target \in Cpus, NEW t \in Tasks,
           Enqueue(c, target, t)
    PROVE  /\ QueueInv'
           /\ runs' \in [Cpus -> Seq(Tasks)]
           /\ place' \in [Tasks -> Places]
           /\ reported' \in BOOLEAN
           /\ \A u \in Tasks : u # t => place'[u] = place[u]
           /\ place'[t] = "RUNNING" <=> place[t] = "RUNNING"
           /\ \A u \in Tasks : EntryIn(runs, u) => EntryIn(runs', u)
           /\ EntryIn(runs', t) \/ place[t] = "RUNNING" \/ onCpu[t] \in Cpus \ {c}
           /\ ~reported' => ~reported /\ place[t] = "NOWHERE" /\ place'[t] = "QUEUED"
<1>0. /\ runs \in [Cpus -> Seq(Tasks)] /\ place \in [Tasks -> Places] /\ reported \in BOOLEAN
      /\ onCpu[t] \in Cpus \cup {NoCpu}
  BY Zenon DEF TypeOK
<1>1. CASE onCpu[t] \in {NoCpu, c} /\ place[t] = "NOWHERE"
  <2>1. /\ place' = [place EXCEPT ![t] = "QUEUED"]
        /\ runs' = WithLast(runs, target, t)
        /\ reported' = reported
    BY Zenon, <1>1 DEF Enqueue, WithLast
  <2>2. ~EntryIn(runs, t) /\ NoRepeats(runs)
    BY Zenon, <1>1 DEF QueueInv
  <2>3. /\ runs' \in [Cpus -> Seq(Tasks)]
        /\ NoRepeats(runs')
        /\ \A u \in Tasks : EntryIn(runs', u) <=> u = t \/ EntryIn(runs, u)
    BY Zenon, <1>0, <2>1, <2>2, AppendLemma
  <2>4. \A u \in Tasks : place'[u] = "QUEUED" <=> EntryIn(runs', u)
    BY Zenon, <1>0, <2>1, <2>3 DEF QueueInv
  <2>5. QueueInv'
    BY Zenon, <2>3, <2>4 DEF QueueInv
  <2> QED BY Zenon, <1>0, <1>1, <2>1, <2>3, <2>5 DEF Places
<1>2. CASE ~(onCpu[t] \in {NoCpu, c} /\ place[t] = "NOWHERE")
  <2>1. reported' = TRUE /\ place' = place /\ runs' = runs
    BY Zenon, <1>2 DEF Enqueue
  <2>2. QueueInv'
    BY Zenon, <2>1 DEF QueueInv
  <2>3. EntryIn(runs, t) \/ place[t] = "RUNNING" \/ onCpu[t] \in Cpus \ {c}
    BY Zenon, <1>0, <1>2 DEF QueueInv, Places
  <2> QED BY Zenon, <1>0, <2>1, <2>2, <2>3
<1> QED BY Zenon, <1>1, <1>2

LEMMA DequeueLemma ==
    ASSUME TypeOK, QueueInv, NEW c \in Cpus, NEW t \in Tasks, Dequeue(c, t)
    PROVE  /\ QueueInv'
           /\ runs' \in [Cpus -> Seq(Tasks)]
           /\ EntryIn(runs, t) /\ place[t] = "QUEUED"
           /\ place' = [place EXCEPT ![t] = "NOWHERE"]
           /\ reported' = reported
           /\ \A u \in Tasks : u # t /\ EntryIn(runs, u) => EntryIn(runs', u)
<1>0. runs \in [Cpus -> Seq(Tasks)] /\ place \in [Tasks -> Places] /\ reported \in BOOLEAN
  BY Zenon DEF TypeOK
<1>1. NoRepeats(runs) /\ runs[c] # <<>> /\ t = Head(runs[c])
  BY Zenon DEF Dequeue, QueueInv
<1>2. runs' = WithoutFirst(runs, c)
  BY Zenon DEF Dequeue, WithoutFirst
<1>3. /\ runs' \in [Cpus -> Seq(Tasks)]
      /\ NoRepeats(runs')
      /\ EntryIn(runs, t)
      /\ \A u \in Tasks : EntryIn(runs', u) <=> u # t /\ EntryIn(runs, u)
  BY Zenon, <1>0, <1>1, <1>2, TailLemma
<1>4. place[t] = "QUEUED"
  BY Zenon, <1>3 DEF QueueInv
<1>5. place' = [place EXCEPT ![t] = "NOWHERE"] /\ reported' = reported
  BY Zenon, <1>0, <1>4 DEF Dequeue
<1>6. \A u \in Tasks : place'[u] = "QUEUED" <=> EntryIn(runs', u)
  BY Zenon, <1>0, <1>3, <1>5 DEF QueueInv
<1>7. QueueInv'
  BY Zenon, <1>3, <1>6 DEF QueueInv
<1> QED BY Zenon, <1>3, <1>4, <1>5, <1>7
-----------------------------------------------------------------------------
(* Steps.  A wake() goes on in the task that made it, while it executes, or  *)
(* in the interrupt or exit code of a CPU.                                   *)

MayWake(c, x) ==
    \/ x \in Tasks /\ pc[c] = "run" /\ cur[c] = x
    \/ x = c /\ pc[c] \in {"irq", "exit"}

\* The steps, one by one.
LEMMA NextCases ==
    ASSUME [Next]_vars
    PROVE  \/ \E c \in Cpus :
                \/ Pick(c)
                \/ PickNothing(c)
                \/ Start(c)
                \/ Finish(c)
                \/ FinishState(c)
                \/ FinishQueue(c)
                \/ SleepList(c)
                \/ TickTable(c)
                \/ TickQueue(c)
                \/ TickWoken(c)
                \/ WakeDone(c)
                \/ \E x \in Contexts : MayWake(c, x) /\ WakeTable(x, c)
                \/ \E x \in Contexts : MayWake(c, x) /\ WakeQueue(x, c)
                \/ \E t \in Tasks : Yield(c, t)
                \/ \E t \in Tasks : Block(c, t)
                \/ \E t \in Tasks : Signal(c, t)
                \/ \E t \in Tasks : Sleep(c, t)
                \/ \E t \in Tasks : Exit(c, t)
                \/ \E t \in Tasks : TakeDead(c, t)
                \/ \E t \in Tasks : Publish(c, t)
                \/ IrqSignal(c)
                \/ TickSweep(c)
                \/ TickPreempt(c)
                \/ IdleWait(c)
           \/ UNCHANGED vars
BY DEF Next, Inside, TaskStep, OwnWake, CpuWake, MayWake, Contexts

\* A wake under way has a target, and once it is to queue it a CPU.
WakeCpuInv == \A x \in Contexts : waking[x].step = "queue" => waking[x].cpu \in Cpus

LEMMA WakeType ==
    ASSUME TypeOK, WakeCpuInv, NEW x \in Contexts
    PROVE  /\ waking[x].step \in {"table", "queue"} => waking[x].target \in Tasks
           /\ waking[x].step = "queue" => waking[x].cpu \in Cpus
BY DEF TypeOK, WakeCpuInv, Wakes, NoWake

LEMMA LeftType ==
    ASSUME NEW list \in [Tasks -> Nat], NEW left \in LeftOf(list)
    PROVE  left \in [Tasks -> Nat] /\ \A t \in Tasks : left[t] <= list[t]
BY DEF LeftOf

\* What schedule() does when it really switches.
Switch(c) ==
    LET old == cur[c]
        new == next[c]
    IN  /\ state' = [t \in Tasks |->
                        IF t = new THEN "Running"
                        ELSE IF t = old /\ state[t] = "Running" THEN "Ready"
                        ELSE state[t]]
        /\ place' = [t \in Tasks |->
                        IF t = new /\ place[t] = "NOWHERE" THEN "RUNNING" ELSE place[t]]
        /\ onCpu' = [t \in Tasks |-> IF t = new THEN c ELSE onCpu[t]]
        /\ lastSeen' = [t \in Tasks |-> IF t = new THEN c ELSE lastSeen[t]]
        /\ reported' = (reported \/ (new \in Tasks /\ (place[new] # "NOWHERE"
                                        \/ onCpu[new] \notin {NoCpu, c})))
        /\ prev' = [prev EXCEPT ![c] = old]
        /\ cur' = [cur EXCEPT ![c] = new]
        /\ pc' = [pc EXCEPT ![c] = "finish"]
        /\ next' = [next EXCEPT ![c] = NoTask]

LEMMA StartSwitches ==
    ASSUME NEW c \in Cpus, Start(c), next[c] # cur[c]
    PROVE  Switch(c)
BY Zenon DEF Start, Switch, Goto

LEMMA TypeStep ==
    ASSUME TypeOK, CpuInv, QueueInv, WakeCpuInv, [Next]_vars
    PROVE  TypeOK'
<1> USE SchedAssumption DEF TypeOK
<1>1. ASSUME NEW c \in Cpus, Pick(c) PROVE TypeOK'
  <2>1. CASE UNCHANGED <<runs, place, next, reported>>
    BY Zenon, <1>1, <2>1 DEF Pick, Goto, tableVars, tickVars, Pcs
  <2>2. ASSUME NEW from \in Cpus, NEW t \in Tasks, Dequeue(from, t),
               next' = [next EXCEPT ![c] = t]
        PROVE  TypeOK'
    <3>1. runs' \in [Cpus -> Seq(Tasks)] /\ place' = [place EXCEPT ![t] = "NOWHERE"]
          /\ reported' = reported
      BY Zenon, <2>2, DequeueLemma
    <3>2. next' \in [Cpus -> Tasks \cup {Idle, NoTask}]
      BY Zenon, <2>2
    <3>3. place' \in [Tasks -> Places]
      BY Zenon, <3>1 DEF Places
    <3>4. pc' \in [Cpus -> Pcs]
      BY Zenon, <1>1 DEF Pick, Goto, Pcs
    <3> QED BY Zenon, <1>1, <3>1, <3>2, <3>3, <3>4 DEF Pick, tableVars, tickVars
  <2> QED BY Zenon, <1>1, <2>1, <2>2 DEF Pick
<1>2. ASSUME NEW c \in Cpus, PickNothing(c) PROVE TypeOK'
  <2>1. pc' \in [Cpus -> Pcs] /\ next' \in [Cpus -> Tasks \cup {Idle, NoTask}]
    <3>1. CASE cur[c] = Idle \/ (cur[c] \in Tasks /\ state[cur[c]] = "Running")
      <4>1. pc' = [pc EXCEPT ![c] = "run"] /\ next' = next
        BY Zenon, <1>2, <3>1 DEF PickNothing, Goto
      <4> QED BY Zenon, <4>1 DEF Pcs
    <3>2. CASE ~(cur[c] = Idle \/ (cur[c] \in Tasks /\ state[cur[c]] = "Running"))
      <4>1. pc' = [pc EXCEPT ![c] = "start"] /\ next' = [next EXCEPT ![c] = Idle]
        BY Zenon, <1>2, <3>2 DEF PickNothing, Goto
      <4> QED BY Zenon, <4>1 DEF Pcs
    <3> QED BY Zenon, <3>1, <3>2
  <2> QED BY Zenon, <1>2, <2>1 DEF PickNothing, taskVars, tableVars, tickVars
<1>3. ASSUME NEW c \in Cpus, Start(c) PROVE TypeOK'
  <2>1. CASE next[c] = cur[c]
    <3>1. /\ pc' = [pc EXCEPT ![c] = "run"]
          /\ next' = [next EXCEPT ![c] = NoTask]
          /\ UNCHANGED <<state, place, onCpu, lastSeen, cur, prev, reported>>
      BY Zenon, <1>3, <2>1 DEF Start, Goto
    <3>2. pc' \in [Cpus -> Pcs] /\ next' \in [Cpus -> Tasks \cup {Idle, NoTask}]
      BY Zenon, <3>1 DEF Pcs
    <3> QED BY Zenon, <1>3, <3>1, <3>2 DEF Start, tableVars, tickVars
  <2>2. CASE next[c] # cur[c]
    <3>1. Switch(c)
      BY Zenon, <1>3, <2>2, StartSwitches
    <3>2. state' \in [Tasks -> States]
      BY Zenon, <3>1 DEF Switch, States
    <3>3. place' \in [Tasks -> Places]
      BY Zenon, <3>1 DEF Switch, Places
    <3>4. onCpu' \in [Tasks -> Cpus \cup {NoCpu}] /\ lastSeen' \in [Tasks -> Cpus \cup {NoCpu}]
      BY Zenon, <3>1 DEF Switch
    <3>5. reported' \in BOOLEAN
      BY Zenon, <3>1 DEF Switch
    <3>6. prev' \in [Cpus -> Tasks \cup {Idle, NoTask}] /\ next' \in [Cpus -> Tasks \cup {Idle, NoTask}]
      BY Zenon, <3>1 DEF Switch
    <3>7. cur' \in [Cpus -> Tasks \cup {Idle}]
      <4>1. next[c] \in Tasks \cup {Idle}
        BY <1>3 DEF Start, CpuInv
      <4> QED BY Zenon, <3>1, <4>1 DEF Switch
    <3>8. pc' \in [Cpus -> Pcs]
      BY Zenon, <3>1 DEF Switch, Pcs
    <3> QED BY <1>3, <3>2, <3>3, <3>4, <3>5, <3>6, <3>7, <3>8 DEF Start, tableVars, tickVars
  <2> QED BY Zenon, <2>1, <2>2
<1>4. ASSUME NEW c \in Cpus, Finish(c) PROVE TypeOK'
  <2>1. place' \in [Tasks -> Places]
    BY Zenon, <1>4 DEF Finish, Places
  <2>2. onCpu' \in [Tasks -> Cpus \cup {NoCpu}]
    BY Zenon, <1>4 DEF Finish
  <2>3. reported' \in BOOLEAN
    BY Zenon, <1>4 DEF Finish
  <2>4. pc' \in [Cpus -> Pcs]
    BY Zenon, <1>4 DEF Finish, Goto, Pcs
  <2> QED BY Zenon, <1>4, <2>1, <2>2, <2>3, <2>4 DEF Finish, tableVars, cpuVars, tickVars
<1>5. ASSUME NEW c \in Cpus, FinishState(c) PROVE TypeOK'
  <2>1. pc' \in [Cpus -> Pcs]
    BY Zenon, <1>5 DEF FinishState, Goto, Pcs
  <2>2. prev' \in [Cpus -> Tasks \cup {Idle, NoTask}]
    BY Zenon, <1>5 DEF FinishState
  <2> QED BY Zenon, <1>5, <2>1, <2>2 DEF FinishState, taskVars, tableVars, tickVars
<1>6. ASSUME NEW c \in Cpus, FinishQueue(c) PROVE TypeOK'
  <2>1. prev[c] \in Tasks
    BY Zenon, <1>6 DEF CpuInv, FinishQueue
  <2>2. runs' \in [Cpus -> Seq(Tasks)] /\ place' \in [Tasks -> Places] /\ reported' \in BOOLEAN
    BY Zenon, <1>6, <2>1, EnqueueLemma DEF FinishQueue
  <2> QED BY Zenon, <1>6, <2>2 DEF FinishQueue, Goto, tableVars, tickVars, Pcs
<1>7. ASSUME NEW c \in Cpus, SleepList(c) PROVE TypeOK'
  <2>1. cur[c] \in Tasks
    BY Zenon, <1>7 DEF CpuInv, SleepList
  <2>2. sleepers' \in [Cpus -> [Tasks -> Nat]]
    BY <1>7, <2>1 DEF SleepList
  <2> QED BY Zenon, <1>7, <2>2 DEF SleepList, Goto, taskVars, tableVars, cpuVars, tickVars, Pcs
<1>8. ASSUME NEW c \in Cpus, TickTable(c) PROVE TypeOK'
  BY Zenon, <1>8 DEF TickTable, Goto, taskVars, tableVars, cpuVars, tickVars, Pcs, States, Places
<1>9. ASSUME NEW c \in Cpus, TickQueue(c) PROVE TypeOK'
  <2>1. PICK t \in due[c] : Enqueue(c, c, t) /\ due' = [due EXCEPT ![c] = @ \ {t}]
    BY Zenon, <1>9 DEF TickQueue
  <2>2. t \in Tasks
    BY Zenon
  <2>3. runs' \in [Cpus -> Seq(Tasks)] /\ place' \in [Tasks -> Places] /\ reported' \in BOOLEAN
    BY Zenon, <2>1, <2>2, EnqueueLemma
  <2>4. pc' \in [Cpus -> Pcs]
    BY Zenon, <1>9 DEF TickQueue, Goto, Pcs
  <2> QED BY Zenon, <1>9, <2>1, <2>3, <2>4 DEF TickQueue, tableVars, cpuVars
<1>10. ASSUME NEW c \in Cpus, TickWoken(c) PROVE TypeOK'
  BY Zenon, <1>10 DEF TickWoken, Goto, taskVars, tableVars, cpuVars, tickVars, Pcs, States, Places
<1>11. ASSUME NEW c \in Cpus, WakeDone(c) PROVE TypeOK'
  BY Zenon, <1>11 DEF WakeDone, Goto, taskVars, tableVars, cpuVars, tickVars, Pcs, States, Places
<1>12. ASSUME NEW c \in Cpus, NEW x \in Contexts, MayWake(c, x), WakeTable(x, c) PROVE TypeOK'
  <2>1. waking[x].target \in Tasks
    BY Zenon, <1>12, WakeType DEF WakeTable
  <2>2. state' \in [Tasks -> States]
    BY Zenon, <1>12 DEF WakeTable, States
  <2>3. waking' \in [Contexts -> Wakes \cup {NoWake}]
    BY Zenon, <1>12, <2>1 DEF WakeTable, Wakes
  <2> QED BY Zenon, <1>12, <2>2, <2>3 DEF WakeTable, tableVars, cpuVars, tickVars
<1>13. ASSUME NEW c \in Cpus, NEW x \in Contexts, MayWake(c, x), WakeQueue(x, c) PROVE TypeOK'
  <2>1. waking[x].target \in Tasks /\ waking[x].cpu \in Cpus
    BY Zenon, <1>13, WakeType DEF WakeQueue
  <2>2. runs' \in [Cpus -> Seq(Tasks)] /\ place' \in [Tasks -> Places] /\ reported' \in BOOLEAN
    BY Zenon, <1>13, <2>1, EnqueueLemma DEF WakeQueue
  <2> QED BY Zenon, <1>13, <2>1, <2>2 DEF WakeQueue, tableVars, cpuVars, tickVars
<1>14. ASSUME NEW c \in Cpus, NEW t \in Tasks, Yield(c, t) PROVE TypeOK'
  BY Zenon, <1>14 DEF Yield, Goto, taskVars, tableVars, cpuVars, tickVars, Pcs, States, Places
<1>15. ASSUME NEW c \in Cpus, NEW t \in Tasks, Block(c, t) PROVE TypeOK'
  BY Zenon, <1>15 DEF Block, Goto, taskVars, tableVars, cpuVars, tickVars, Pcs, States, Places, Free
<1>16. ASSUME NEW c \in Cpus, NEW t \in Tasks, Signal(c, t) PROVE TypeOK'
  <2>1. PICK u \in waiting : CallWake(t, u) /\ waiting' = waiting \ {u}
    BY Zenon, <1>16 DEF Signal
  <2>2. [target |-> u, cpu |-> NoCpu, step |-> "table"] \in Wakes
    BY DEF Wakes
  <2>3. waking' \in [Contexts -> Wakes \cup {NoWake}] /\ waiting' \subseteq Tasks
    BY Zenon, <2>1, <2>2 DEF CallWake
  <2> QED BY Zenon, <1>16, <2>3 DEF Signal, taskVars, tableVars, cpuVars, tickVars
<1>17. ASSUME NEW c \in Cpus, NEW t \in Tasks, Sleep(c, t) PROVE TypeOK'
  BY Zenon, <1>17 DEF Sleep, Goto, taskVars, tableVars, cpuVars, tickVars, Pcs, States, Places, Free
<1>18. ASSUME NEW c \in Cpus, NEW t \in Tasks, Exit(c, t) PROVE TypeOK'
  <2>1. waking' \in [Contexts -> Wakes \cup {NoWake}] /\ pc' \in [Cpus -> Pcs]
    <3>1. CASE Supervisor = NoTask
      <4>1. pc' = [pc EXCEPT ![c] = "pick"] /\ waking' = waking
        BY Zenon, <1>18, <3>1 DEF Exit, Goto
      <4> QED BY Zenon, <4>1 DEF Pcs
    <3>2. CASE Supervisor # NoTask
      <4>1. /\ pc' = [pc EXCEPT ![c] = "exit"]
            /\ waking' = [waking EXCEPT ![c] =
                             [target |-> Supervisor, cpu |-> NoCpu, step |-> "table"]]
        BY Zenon, <1>18, <3>2 DEF Exit, Goto, CallWake
      <4>2. [target |-> Supervisor, cpu |-> NoCpu, step |-> "table"] \in Wakes
        BY Zenon, <3>2 DEF Wakes
      <4> QED BY Zenon, <4>1, <4>2 DEF Pcs
    <3> QED BY Zenon, <3>1, <3>2
  <2>2. state' \in [Tasks -> States] /\ reap' \subseteq Tasks
    BY Zenon, <1>18 DEF Exit, States
  <2> QED BY Zenon, <1>18, <2>1, <2>2 DEF Exit, cpuVars, tickVars
<1>19. ASSUME NEW c \in Cpus, NEW t \in Tasks, TakeDead(c, t) PROVE TypeOK'
  BY Zenon, <1>19 DEF TakeDead, Goto, taskVars, tableVars, cpuVars, tickVars, Pcs, States, Places
<1>20. ASSUME NEW c \in Cpus, NEW t \in Tasks, Publish(c, t) PROVE TypeOK'
  <2>1. PICK u \in Tasks : tasks' = tasks \cup {u} /\ Enqueue(c, c, u)
    BY Zenon, <1>20 DEF Publish
  <2>2. runs' \in [Cpus -> Seq(Tasks)] /\ place' \in [Tasks -> Places] /\ reported' \in BOOLEAN
    BY Zenon, <2>1, EnqueueLemma
  <2> QED BY Zenon, <1>20, <2>1, <2>2 DEF Publish, cpuVars, tickVars
<1>21. ASSUME NEW c \in Cpus, IrqSignal(c) PROVE TypeOK'
  BY <1>21 DEF IrqSignal, Goto, taskVars, tableVars, cpuVars, tickVars, Pcs, States, Places, CallWake, Wakes, Contexts
<1>22. ASSUME NEW c \in Cpus, TickSweep(c) PROVE TypeOK'
  <2>1. PICK left \in LeftOf(sleepers[c]) :
          /\ sleepers' = [sleepers EXCEPT ![c] = left]
          /\ expired' = [expired EXCEPT ![c] = {t \in Tasks : left[t] < sleepers[c][t]}]
    BY Zenon, <1>22 DEF TickSweep
  <2>2. left \in [Tasks -> Nat]
    BY Zenon, <2>1, LeftType
  <2> QED BY Zenon, <1>22, <2>1, <2>2 DEF TickSweep, Goto, taskVars, tableVars, cpuVars, Pcs
<1>23. ASSUME NEW c \in Cpus, TickPreempt(c) PROVE TypeOK'
  BY Zenon, <1>23 DEF TickPreempt, Goto, taskVars, tableVars, cpuVars, tickVars, Pcs, States, Places
<1>24. ASSUME NEW c \in Cpus, IdleWait(c) PROVE TypeOK'
  BY Zenon, <1>24 DEF IdleWait, Goto, taskVars, tableVars, cpuVars, tickVars, Pcs, States, Places
<1>25. CASE UNCHANGED vars
  BY Zenon, <1>25 DEF vars
<1> QED
  BY Zenon, <1>1, <1>2, <1>3, <1>4, <1>5, <1>6, <1>7, <1>8, <1>9, <1>10, <1>11, <1>12, <1>13,
     <1>14, <1>15, <1>16, <1>17, <1>18, <1>19, <1>20, <1>21, <1>22, <1>23, <1>24, <1>25,
     NextCases

LEMMA CpuStep ==
    ASSUME TypeOK, CpuInv, [Next]_vars
    PROVE  CpuInv'
<1> USE SchedAssumption DEF TypeOK, CpuInv, Leaving, Contexts
<1>1. ASSUME NEW c \in Cpus, Pick(c) PROVE CpuInv'
  <2>1. CASE UNCHANGED next /\ pc' = [pc EXCEPT ![c] = "nothing"]
    BY <1>1, <2>1 DEF Pick
  <2>2. CASE pc' = [pc EXCEPT ![c] = "start"] /\ \E t \in Tasks : next' = [next EXCEPT ![c] = t]
    <3>1. PICK t \in Tasks : next' = [next EXCEPT ![c] = t]
      BY Zenon, <2>2
    <3>2. UNCHANGED <<cur, prev, waking>> /\ pc[c] = "pick"
      BY Zenon, <1>1 DEF Pick
    <3>3. prev[c] = NoTask /\ waking[c] = NoWake
      BY Zenon, <3>2
    <3>4. t # NoTask
      OBVIOUS
    <3>5. /\ pc'[c] = "start" /\ next'[c] = t
          /\ \A d \in Cpus : d # c => pc'[d] = pc[d] /\ next'[d] = next[d]
      BY Zenon, <2>2, <3>1
    <3> QED BY Zenon, <3>2, <3>3, <3>4, <3>5
  <2> QED BY Zenon, <1>1, <2>1, <2>2 DEF Pick, Goto
<1>2. ASSUME NEW c \in Cpus, PickNothing(c) PROVE CpuInv'
  <2>1. CASE cur[c] = Idle \/ (cur[c] \in Tasks /\ state[cur[c]] = "Running")
    <3>1. pc' = [pc EXCEPT ![c] = "run"] /\ next' = next
      BY Zenon, <1>2, <2>1 DEF PickNothing, Goto
    <3> QED BY <1>2, <3>1 DEF PickNothing
  <2>2. CASE ~(cur[c] = Idle \/ (cur[c] \in Tasks /\ state[cur[c]] = "Running"))
    <3>1. pc' = [pc EXCEPT ![c] = "start"] /\ next' = [next EXCEPT ![c] = Idle]
      BY Zenon, <1>2, <2>2 DEF PickNothing, Goto
    <3> QED BY <1>2, <3>1 DEF PickNothing
  <2> QED BY Zenon, <2>1, <2>2
<1>3. ASSUME NEW c \in Cpus, Start(c) PROVE CpuInv'
  <2>1. CASE next[c] = cur[c]
    <3>1. /\ pc' = [pc EXCEPT ![c] = "run"]
          /\ next' = [next EXCEPT ![c] = NoTask]
          /\ UNCHANGED <<cur, prev, waking>>
      BY Zenon, <1>3, <2>1 DEF Start, Goto
    <3> QED BY <1>3, <3>1 DEF Start
  <2>2. CASE next[c] # cur[c]
    <3>1. Switch(c) /\ UNCHANGED waking /\ pc[c] = "start"
      BY Zenon, <1>3, <2>2, StartSwitches DEF Start
    <3>2. /\ pc' = [pc EXCEPT ![c] = "finish"]
          /\ next' = [next EXCEPT ![c] = NoTask]
          /\ prev' = [prev EXCEPT ![c] = cur[c]]
          /\ cur' = [cur EXCEPT ![c] = next[c]]
      BY Zenon, <3>1 DEF Switch
    <3> QED BY <2>2, <3>1, <3>2
  <2> QED BY Zenon, <2>1, <2>2
<1>4. ASSUME NEW c \in Cpus, Finish(c) PROVE CpuInv'
  BY <1>4 DEF Finish, Goto, taskVars, tableVars, cpuVars, tickVars
<1>5. ASSUME NEW c \in Cpus, FinishState(c) PROVE CpuInv'
  <2>1. CASE prev[c] \in Tasks /\ pc' = [pc EXCEPT ![c] = "finishQueue"] /\ prev' = prev
    BY <1>5, <2>1 DEF FinishState
  <2>2. CASE pc' = [pc EXCEPT ![c] = "run"] /\ prev' = [prev EXCEPT ![c] = NoTask]
    BY <1>5, <2>2 DEF FinishState
  <2> QED BY Zenon, <1>5, <2>1, <2>2 DEF FinishState, Goto
<1>6. ASSUME NEW c \in Cpus, FinishQueue(c) PROVE CpuInv'
  BY <1>6 DEF FinishQueue, Goto, taskVars, tableVars, cpuVars, tickVars
<1>7. ASSUME NEW c \in Cpus, SleepList(c) PROVE CpuInv'
  BY <1>7 DEF SleepList, Goto, taskVars, tableVars, cpuVars, tickVars
<1>8. ASSUME NEW c \in Cpus, TickTable(c) PROVE CpuInv'
  BY <1>8 DEF TickTable, Goto, taskVars, tableVars, cpuVars, tickVars
<1>9. ASSUME NEW c \in Cpus, TickQueue(c) PROVE CpuInv'
  BY <1>9 DEF TickQueue, Goto, taskVars, tableVars, cpuVars, tickVars
<1>10. ASSUME NEW c \in Cpus, TickWoken(c) PROVE CpuInv'
  <2>1. PICK label \in {"pick", "run"} : pc' = [pc EXCEPT ![c] = label]
    BY Zenon, <1>10 DEF TickWoken, Goto
  <2> QED BY <1>10, <2>1 DEF TickWoken, cpuVars
<1>11. ASSUME NEW c \in Cpus, WakeDone(c) PROVE CpuInv'
  BY <1>11 DEF WakeDone, Goto, taskVars, tableVars, cpuVars, tickVars
<1>12. ASSUME NEW c \in Cpus, NEW x \in Contexts, MayWake(c, x), WakeTable(x, c) PROVE CpuInv'
  BY <1>12 DEF WakeTable, Goto, taskVars, tableVars, cpuVars, tickVars, NoWake, MayWake
<1>13. ASSUME NEW c \in Cpus, NEW x \in Contexts, MayWake(c, x), WakeQueue(x, c) PROVE CpuInv'
  BY Zenon, <1>13 DEF WakeQueue, Goto, taskVars, tableVars, cpuVars, tickVars, NoWake, MayWake
<1>14. ASSUME NEW c \in Cpus, NEW t \in Tasks, Yield(c, t) PROVE CpuInv'
  BY <1>14 DEF Yield, Goto, taskVars, tableVars, cpuVars, tickVars, Free
<1>15. ASSUME NEW c \in Cpus, NEW t \in Tasks, Block(c, t) PROVE CpuInv'
  BY <1>15 DEF Block, Goto, taskVars, tableVars, cpuVars, tickVars, Free
<1>16. ASSUME NEW c \in Cpus, NEW t \in Tasks, Signal(c, t) PROVE CpuInv'
  BY <1>16 DEF Signal, Goto, taskVars, tableVars, cpuVars, tickVars, Free, CallWake, NoWake
<1>17. ASSUME NEW c \in Cpus, NEW t \in Tasks, Sleep(c, t) PROVE CpuInv'
  BY <1>17 DEF Sleep, Goto, taskVars, tableVars, cpuVars, tickVars, Free
<1>18. ASSUME NEW c \in Cpus, NEW t \in Tasks, Exit(c, t) PROVE CpuInv'
  <2>1. CASE Supervisor = NoTask
    <3>1. pc' = [pc EXCEPT ![c] = "pick"] /\ waking' = waking
      BY Zenon, <1>18, <2>1 DEF Exit, Goto
    <3> QED BY <1>18, <3>1 DEF Exit, Free, cpuVars
  <2>2. CASE Supervisor # NoTask
    <3>1. /\ pc' = [pc EXCEPT ![c] = "exit"]
          /\ \E w : waking' = [waking EXCEPT ![c] = w]
      BY Zenon, <1>18, <2>2 DEF Exit, Goto, CallWake
    <3> QED BY <1>18, <3>1 DEF Exit, Free, cpuVars
  <2> QED BY Zenon, <2>1, <2>2
<1>19. ASSUME NEW c \in Cpus, NEW t \in Tasks, TakeDead(c, t) PROVE CpuInv'
  BY Zenon, <1>19 DEF TakeDead, Goto, taskVars, tableVars, cpuVars, tickVars, Free
<1>20. ASSUME NEW c \in Cpus, NEW t \in Tasks, Publish(c, t) PROVE CpuInv'
  BY Zenon, <1>20 DEF Publish, Goto, taskVars, tableVars, cpuVars, tickVars, Free
<1>21. ASSUME NEW c \in Cpus, IrqSignal(c) PROVE CpuInv'
  BY <1>21 DEF IrqSignal, Goto, taskVars, tableVars, cpuVars, tickVars, CallWake, NoWake
<1>22. ASSUME NEW c \in Cpus, TickSweep(c) PROVE CpuInv'
  BY <1>22 DEF TickSweep, Goto, taskVars, tableVars, cpuVars, tickVars
<1>23. ASSUME NEW c \in Cpus, TickPreempt(c) PROVE CpuInv'
  BY <1>23 DEF TickPreempt, Goto, taskVars, tableVars, cpuVars, tickVars
<1>24. ASSUME NEW c \in Cpus, IdleWait(c) PROVE CpuInv'
  BY <1>24 DEF IdleWait, Goto, taskVars, tableVars, cpuVars, tickVars
<1>25. CASE UNCHANGED vars
  BY Zenon, <1>25 DEF vars
<1> QED
  BY <1>1, <1>2, <1>3, <1>4, <1>5, <1>6, <1>7, <1>8, <1>9, <1>10, <1>11, <1>12, <1>13,
     <1>14, <1>15, <1>16, <1>17, <1>18, <1>19, <1>20, <1>21, <1>22, <1>23, <1>24, <1>25,
     NextCases

LEMMA WakeCpuStep ==
    ASSUME TypeOK, WakeCpuInv, [Next]_vars
    PROVE  WakeCpuInv'
<1> USE SchedAssumption DEF TypeOK, WakeCpuInv
<1>1. ASSUME NEW c \in Cpus, Pick(c) PROVE WakeCpuInv'
  BY Zenon, <1>1 DEF Pick
<1>2. ASSUME NEW c \in Cpus, PickNothing(c) PROVE WakeCpuInv'
  BY Zenon, <1>2 DEF PickNothing
<1>3. ASSUME NEW c \in Cpus, Start(c) PROVE WakeCpuInv'
  BY Zenon, <1>3 DEF Start
<1>4. ASSUME NEW c \in Cpus, Finish(c) PROVE WakeCpuInv'
  BY Zenon, <1>4 DEF Finish
<1>5. ASSUME NEW c \in Cpus, FinishState(c) PROVE WakeCpuInv'
  BY Zenon, <1>5 DEF FinishState
<1>6. ASSUME NEW c \in Cpus, FinishQueue(c) PROVE WakeCpuInv'
  BY Zenon, <1>6 DEF FinishQueue
<1>7. ASSUME NEW c \in Cpus, SleepList(c) PROVE WakeCpuInv'
  BY Zenon, <1>7 DEF SleepList
<1>8. ASSUME NEW c \in Cpus, TickTable(c) PROVE WakeCpuInv'
  BY Zenon, <1>8 DEF TickTable
<1>9. ASSUME NEW c \in Cpus, TickQueue(c) PROVE WakeCpuInv'
  BY Zenon, <1>9 DEF TickQueue
<1>10. ASSUME NEW c \in Cpus, TickWoken(c) PROVE WakeCpuInv'
  BY Zenon, <1>10 DEF TickWoken
<1>11. ASSUME NEW c \in Cpus, WakeDone(c) PROVE WakeCpuInv'
  BY Zenon, <1>11 DEF WakeDone, NoWake
<1>12. ASSUME NEW c \in Cpus, NEW x \in Contexts, MayWake(c, x), WakeTable(x, c) PROVE WakeCpuInv'
  BY <1>12 DEF WakeTable, NoWake
<1>13. ASSUME NEW c \in Cpus, NEW x \in Contexts, MayWake(c, x), WakeQueue(x, c) PROVE WakeCpuInv'
  BY <1>13 DEF WakeQueue, NoWake
<1>14. ASSUME NEW c \in Cpus, NEW t \in Tasks, Yield(c, t) PROVE WakeCpuInv'
  BY Zenon, <1>14 DEF Yield
<1>15. ASSUME NEW c \in Cpus, NEW t \in Tasks, Block(c, t) PROVE WakeCpuInv'
  BY Zenon, <1>15 DEF Block
<1>16. ASSUME NEW c \in Cpus, NEW t \in Tasks, Signal(c, t) PROVE WakeCpuInv'
  BY <1>16 DEF Signal, CallWake
<1>17. ASSUME NEW c \in Cpus, NEW t \in Tasks, Sleep(c, t) PROVE WakeCpuInv'
  BY Zenon, <1>17 DEF Sleep
<1>18. ASSUME NEW c \in Cpus, NEW t \in Tasks, Exit(c, t) PROVE WakeCpuInv'
  <2>1. CASE Supervisor = NoTask
    <3>1. waking' = waking
      BY Zenon, <1>18, <2>1 DEF Exit
    <3> QED BY Zenon, <3>1
  <2>2. CASE Supervisor # NoTask
    <3>1. CallWake(c, Supervisor)
      BY Zenon, <1>18, <2>2 DEF Exit
    <3> QED BY <3>1 DEF CallWake
  <2> QED BY Zenon, <2>1, <2>2
<1>19. ASSUME NEW c \in Cpus, NEW t \in Tasks, TakeDead(c, t) PROVE WakeCpuInv'
  BY Zenon, <1>19 DEF TakeDead
<1>20. ASSUME NEW c \in Cpus, NEW t \in Tasks, Publish(c, t) PROVE WakeCpuInv'
  BY Zenon, <1>20 DEF Publish
<1>21. ASSUME NEW c \in Cpus, IrqSignal(c) PROVE WakeCpuInv'
  BY <1>21 DEF IrqSignal, CallWake
<1>22. ASSUME NEW c \in Cpus, TickSweep(c) PROVE WakeCpuInv'
  BY Zenon, <1>22 DEF TickSweep
<1>23. ASSUME NEW c \in Cpus, TickPreempt(c) PROVE WakeCpuInv'
  BY Zenon, <1>23 DEF TickPreempt
<1>24. ASSUME NEW c \in Cpus, IdleWait(c) PROVE WakeCpuInv'
  BY Zenon, <1>24 DEF IdleWait
<1>25. CASE UNCHANGED vars
  BY Zenon, <1>25 DEF vars
<1> QED
  BY <1>1, <1>2, <1>3, <1>4, <1>5, <1>6, <1>7, <1>8, <1>9, <1>10, <1>11, <1>12, <1>13,
     <1>14, <1>15, <1>16, <1>17, <1>18, <1>19, <1>20, <1>21, <1>22, <1>23, <1>24, <1>25,
     NextCases

\* What a step does to the placements: it switches, finishes a switch, or moves
\* at most one task into or out of a queue while every CPU keeps its claims.
SameClaims ==
    /\ onCpu' = onCpu
    /\ \A d \in Cpus, t \in Tasks : Claims(d, t)' <=> Claims(d, t)

Moves ==
    \/ UNCHANGED <<place, runs, reported>>
    \/ \E d \in Cpus, t \in Tasks : Dequeue(d, t)
    \/ \E d, target \in Cpus, t \in Tasks : Enqueue(d, target, t)

PlacementStep ==
    \/ \E c \in Cpus : pc[c] = "start" /\ next[c] # cur[c] /\ Switch(c) /\ UNCHANGED runs
    \/ \E c \in Cpus : Finish(c)
    \/ SameClaims /\ Moves

LEMMA PlacementSteps ==
    ASSUME TypeOK, CpuInv, WakeCpuInv, [Next]_vars
    PROVE  PlacementStep
<1> USE DEF TypeOK, Claims
<1>1. ASSUME NEW c \in Cpus, Pick(c) PROVE PlacementStep
  <2>1. PICK label \in {"nothing", "start"} : pc' = [pc EXCEPT ![c] = label]
    BY Zenon, <1>1 DEF Pick, Goto
  <2>2. SameClaims
    BY Zenon, <1>1, <2>1 DEF Pick, SameClaims
  <2>3. Moves
    BY Zenon, <1>1 DEF Pick, Moves
  <2> QED BY Zenon, <2>2, <2>3 DEF PlacementStep
<1>2. ASSUME NEW c \in Cpus, PickNothing(c) PROVE PlacementStep
  <2>1. PICK label \in {"run", "start"} : pc' = [pc EXCEPT ![c] = label]
    BY Zenon, <1>2 DEF PickNothing, Goto
  <2>2. SameClaims
    BY Zenon, <1>2, <2>1 DEF PickNothing, SameClaims, taskVars
  <2> QED BY Zenon, <1>2, <2>2 DEF PickNothing, PlacementStep, Moves, taskVars
<1>3. ASSUME NEW c \in Cpus, Start(c) PROVE PlacementStep
  <2>1. CASE next[c] = cur[c]
    <3>1. /\ pc' = [pc EXCEPT ![c] = "run"]
          /\ UNCHANGED <<state, place, onCpu, lastSeen, cur, prev, reported, runs>>
          /\ pc[c] = "start"
      BY Zenon, <1>3, <2>1 DEF Start, Goto
    <3>2. SameClaims
      BY Zenon, <3>1 DEF SameClaims
    <3> QED BY Zenon, <3>1, <3>2 DEF PlacementStep, Moves
  <2>2. CASE next[c] # cur[c]
    BY Zenon, <1>3, <2>2, StartSwitches DEF Start, PlacementStep
  <2> QED BY Zenon, <2>1, <2>2
<1>4. ASSUME NEW c \in Cpus, Finish(c) PROVE PlacementStep
  BY Zenon, <1>4 DEF PlacementStep
<1>5. ASSUME NEW c \in Cpus, FinishState(c) PROVE PlacementStep
  <2>1. pc[c] = "finishState" /\ \E label \in {"run", "finishQueue"} : pc' = [pc EXCEPT ![c] = label]
    BY Zenon, <1>5 DEF FinishState, Goto
  <2>2. onCpu' = onCpu /\ cur' = cur /\ \A d \in Cpus : d # c => prev'[d] = prev[d]
    BY Zenon, <1>5 DEF FinishState, taskVars
  <2>3. SameClaims
    BY Zenon, <2>1, <2>2 DEF SameClaims
  <2> QED BY Zenon, <1>5, <2>3 DEF FinishState, PlacementStep, Moves, taskVars
<1>6. ASSUME NEW c \in Cpus, FinishQueue(c) PROVE PlacementStep
  <2>1. SameClaims
    BY Zenon, <1>6 DEF FinishQueue, SameClaims, Goto
  <2>2. prev[c] \in Tasks /\ Enqueue(c, c, prev[c])
    BY Zenon, <1>6 DEF FinishQueue, CpuInv
  <2> QED BY Zenon, <2>1, <2>2 DEF PlacementStep, Moves
<1>7. ASSUME NEW c \in Cpus, SleepList(c) PROVE PlacementStep
  <2>1. SameClaims
    BY Zenon, <1>7 DEF SleepList, SameClaims, Goto, taskVars, cpuVars
  <2>2. Moves
    BY Zenon, <1>7 DEF SleepList, Moves, taskVars
  <2> QED BY Zenon, <2>1, <2>2 DEF PlacementStep
<1>8. ASSUME NEW c \in Cpus, TickTable(c) PROVE PlacementStep
  <2>1. PICK label \in {"run", "tickQueue"} : pc' = [pc EXCEPT ![c] = label]
    BY Zenon, <1>8 DEF TickTable, Goto
  <2>2. SameClaims
    BY Zenon, <1>8, <2>1 DEF TickTable, SameClaims, cpuVars
  <2> QED BY Zenon, <1>8, <2>2 DEF TickTable, PlacementStep, Moves
<1>9. ASSUME NEW c \in Cpus, TickQueue(c) PROVE PlacementStep
  <2>1. PICK label \in {"tickWoken", "tickQueue"} : pc' = [pc EXCEPT ![c] = label]
    BY Zenon, <1>9 DEF TickQueue, Goto
  <2>2. SameClaims
    BY Zenon, <1>9, <2>1 DEF TickQueue, SameClaims, cpuVars
  <2>3. PICK t \in due[c] : Enqueue(c, c, t)
    BY Zenon, <1>9 DEF TickQueue
  <2>4. t \in Tasks
    BY Zenon
  <2> QED BY Zenon, <2>2, <2>3, <2>4 DEF PlacementStep, Moves
<1>10. ASSUME NEW c \in Cpus, TickWoken(c) PROVE PlacementStep
  <2>1. SameClaims
    BY Zenon, <1>10 DEF TickWoken, SameClaims, Goto, taskVars, cpuVars
  <2>2. Moves
    BY Zenon, <1>10 DEF TickWoken, Moves, taskVars
  <2> QED BY Zenon, <2>1, <2>2 DEF PlacementStep
<1>11. ASSUME NEW c \in Cpus, WakeDone(c) PROVE PlacementStep
  <2>1. SameClaims
    BY Zenon, <1>11 DEF WakeDone, SameClaims, Goto, taskVars, cpuVars
  <2>2. Moves
    BY Zenon, <1>11 DEF WakeDone, Moves, taskVars
  <2> QED BY Zenon, <2>1, <2>2 DEF PlacementStep
<1>12. ASSUME NEW c \in Cpus, NEW x \in Contexts, MayWake(c, x), WakeTable(x, c) PROVE PlacementStep
  <2>1. SameClaims
    BY Zenon, <1>12 DEF WakeTable, SameClaims, Goto, taskVars, cpuVars
  <2>2. Moves
    BY Zenon, <1>12 DEF WakeTable, Moves, taskVars
  <2> QED BY Zenon, <2>1, <2>2 DEF PlacementStep
<1>13. ASSUME NEW c \in Cpus, NEW x \in Contexts, MayWake(c, x), WakeQueue(x, c) PROVE PlacementStep
  <2>1. waking[x].target \in Tasks /\ waking[x].cpu \in Cpus
    BY Zenon, <1>13, WakeType DEF WakeQueue
  <2>2. SameClaims
    BY Zenon, <1>13 DEF WakeQueue, SameClaims, cpuVars
  <2> QED BY Zenon, <1>13, <2>1, <2>2 DEF WakeQueue, PlacementStep, Moves
<1>14. ASSUME NEW c \in Cpus, NEW t \in Tasks, Yield(c, t) PROVE PlacementStep
  <2>1. SameClaims
    BY Zenon, <1>14 DEF Yield, SameClaims, Goto, taskVars, cpuVars, Free
  <2>2. Moves
    BY Zenon, <1>14 DEF Yield, Moves, taskVars, Free
  <2> QED BY Zenon, <2>1, <2>2 DEF PlacementStep
<1>15. ASSUME NEW c \in Cpus, NEW t \in Tasks, Block(c, t) PROVE PlacementStep
  <2>1. SameClaims
    BY Zenon, <1>15 DEF Block, SameClaims, Goto, taskVars, cpuVars, Free
  <2>2. Moves
    BY Zenon, <1>15 DEF Block, Moves, taskVars, Free
  <2> QED BY Zenon, <2>1, <2>2 DEF PlacementStep
<1>16. ASSUME NEW c \in Cpus, NEW t \in Tasks, Signal(c, t) PROVE PlacementStep
  <2>1. SameClaims
    BY Zenon, <1>16 DEF Signal, SameClaims, Goto, taskVars, cpuVars, Free
  <2>2. Moves
    BY Zenon, <1>16 DEF Signal, Moves, taskVars, Free
  <2> QED BY Zenon, <2>1, <2>2 DEF PlacementStep
<1>17. ASSUME NEW c \in Cpus, NEW t \in Tasks, Sleep(c, t) PROVE PlacementStep
  <2>1. SameClaims
    BY Zenon, <1>17 DEF Sleep, SameClaims, Goto, taskVars, cpuVars, Free
  <2>2. Moves
    BY Zenon, <1>17 DEF Sleep, Moves, taskVars, Free
  <2> QED BY Zenon, <2>1, <2>2 DEF PlacementStep
<1>18. ASSUME NEW c \in Cpus, NEW t \in Tasks, Exit(c, t) PROVE PlacementStep
  <2>1. PICK label \in {"pick", "exit"} : pc' = [pc EXCEPT ![c] = label]
    BY Zenon, <1>18 DEF Exit, Goto
  <2>2. SameClaims
    BY Zenon, <1>18, <2>1 DEF Exit, SameClaims, cpuVars, Free
  <2> QED BY Zenon, <1>18, <2>2 DEF Exit, PlacementStep, Moves
<1>19. ASSUME NEW c \in Cpus, NEW t \in Tasks, TakeDead(c, t) PROVE PlacementStep
  <2>1. SameClaims
    BY Zenon, <1>19 DEF TakeDead, SameClaims, Goto, taskVars, cpuVars, Free
  <2>2. Moves
    BY Zenon, <1>19 DEF TakeDead, Moves, taskVars, Free
  <2> QED BY Zenon, <2>1, <2>2 DEF PlacementStep
<1>20. ASSUME NEW c \in Cpus, NEW t \in Tasks, Publish(c, t) PROVE PlacementStep
  <2>1. SameClaims
    BY Zenon, <1>20 DEF Publish, SameClaims, cpuVars
  <2>2. Moves
    BY Zenon, <1>20 DEF Publish, Moves
  <2> QED BY Zenon, <2>1, <2>2 DEF PlacementStep
<1>21. ASSUME NEW c \in Cpus, IrqSignal(c) PROVE PlacementStep
  <2>1. SameClaims
    BY Zenon, <1>21 DEF IrqSignal, SameClaims, Goto, taskVars, cpuVars
  <2>2. Moves
    BY Zenon, <1>21 DEF IrqSignal, Moves, taskVars
  <2> QED BY Zenon, <2>1, <2>2 DEF PlacementStep
<1>22. ASSUME NEW c \in Cpus, TickSweep(c) PROVE PlacementStep
  <2>1. SameClaims
    BY Zenon, <1>22 DEF TickSweep, SameClaims, Goto, taskVars, cpuVars
  <2>2. Moves
    BY Zenon, <1>22 DEF TickSweep, Moves, taskVars
  <2> QED BY Zenon, <2>1, <2>2 DEF PlacementStep
<1>23. ASSUME NEW c \in Cpus, TickPreempt(c) PROVE PlacementStep
  <2>1. SameClaims
    BY Zenon, <1>23 DEF TickPreempt, SameClaims, Goto, taskVars, cpuVars
  <2>2. Moves
    BY Zenon, <1>23 DEF TickPreempt, Moves, taskVars
  <2> QED BY Zenon, <2>1, <2>2 DEF PlacementStep
<1>24. ASSUME NEW c \in Cpus, IdleWait(c) PROVE PlacementStep
  <2>1. SameClaims
    BY Zenon, <1>24 DEF IdleWait, SameClaims, Goto, taskVars, cpuVars
  <2>2. Moves
    BY Zenon, <1>24 DEF IdleWait, Moves, taskVars
  <2> QED BY Zenon, <2>1, <2>2 DEF PlacementStep
<1>25. CASE UNCHANGED vars
  BY Zenon, <1>25 DEF vars, PlacementStep, SameClaims, Moves, Claims
<1> QED
  BY <1>1, <1>2, <1>3, <1>4, <1>5, <1>6, <1>7, <1>8, <1>9, <1>10, <1>11, <1>12, <1>13,
     <1>14, <1>15, <1>16, <1>17, <1>18, <1>19, <1>20, <1>21, <1>22, <1>23, <1>24, <1>25,
     NextCases

LEMMA QueueStep ==
    ASSUME TypeOK, CpuInv, QueueInv, WakeCpuInv, [Next]_vars
    PROVE  QueueInv'
<1>1. place \in [Tasks -> Places]
  BY Zenon DEF TypeOK
<1>2. ASSUME NEW c \in Cpus, Switch(c), runs' = runs PROVE QueueInv'
  BY Zenon, <1>1, <1>2 DEF Switch, QueueInv
<1>3. ASSUME NEW c \in Cpus, Finish(c) PROVE QueueInv'
  BY Zenon, <1>1, <1>3 DEF Finish, QueueInv
<1>4. CASE UNCHANGED <<place, runs, reported>>
  BY Zenon, <1>4 DEF QueueInv
<1>5. ASSUME NEW d \in Cpus, NEW t \in Tasks, Dequeue(d, t) PROVE QueueInv'
  BY Zenon, <1>5, DequeueLemma
<1>6. ASSUME NEW d \in Cpus, NEW target \in Cpus, NEW t \in Tasks, Enqueue(d, target, t)
      PROVE  QueueInv'
  BY Zenon, <1>6, EnqueueLemma
<1> QED BY Zenon, <1>2, <1>3, <1>4, <1>5, <1>6, PlacementSteps DEF PlacementStep, Moves

LEMMA HeldStep ==
    ASSUME TypeOK, CpuInv, QueueInv, WakeCpuInv, HeldInv, [Next]_vars
    PROVE  HeldInv'
<1> USE DEF HeldInv
<1>0. /\ place \in [Tasks -> Places] /\ onCpu \in [Tasks -> Cpus \cup {NoCpu}]
      /\ pc \in [Cpus -> Pcs] /\ prev \in [Cpus -> Tasks \cup {Idle, NoTask}]
      /\ cur \in [Cpus -> Tasks \cup {Idle}]
  BY Zenon DEF TypeOK
<1>1. ASSUME NEW c \in Cpus, pc[c] = "start", Switch(c) PROVE HeldInv'
  <2>1. \A d \in Cpus, t \in Tasks : Claims(d, t) => Claims(d, t)'
    BY <1>0, <1>1 DEF Switch, Claims
  <2>2. \A t \in Tasks : t = next[c] => Claims(c, t)'
    BY <1>0, <1>1 DEF Switch, Claims
  <2> QED BY <1>0, <1>1, <2>1, <2>2 DEF Switch
<1>2. ASSUME NEW c \in Cpus, Finish(c) PROVE HeldInv'
  <2>1. \A d \in Cpus, t \in Tasks : Claims(d, t) /\ t # prev[c] => Claims(d, t)'
    BY Zenon, <1>0, <1>2 DEF Finish, Claims, Goto, cpuVars
  <2>2. \A t \in Tasks : t # prev[c] => place'[t] = place[t] /\ onCpu'[t] = onCpu[t]
    BY Zenon, <1>0, <1>2 DEF Finish
  <2>3. \A t \in Tasks : t = prev[c] => place'[t] # "RUNNING" /\ onCpu'[t] = NoCpu
    BY Zenon, <1>0, <1>2 DEF Finish
  <2> QED BY <2>1, <2>2, <2>3, SchedAssumption
<1>3. CASE SameClaims /\ UNCHANGED <<place, runs, reported>>
  BY Zenon, <1>3 DEF SameClaims
<1>4. ASSUME NEW d \in Cpus, NEW t \in Tasks, Dequeue(d, t), SameClaims PROVE HeldInv'
  <2>1. place' = [place EXCEPT ![t] = "NOWHERE"]
    BY Zenon, <1>4, DequeueLemma
  <2> QED BY Zenon, <1>0, <1>4, <2>1 DEF SameClaims
<1>5. ASSUME NEW d \in Cpus, NEW target \in Cpus, NEW t \in Tasks, Enqueue(d, target, t),
             SameClaims
      PROVE  HeldInv'
  <2>1. \A u \in Tasks : place'[u] = "RUNNING" => place[u] = "RUNNING"
    BY Zenon, <1>5, EnqueueLemma
  <2> QED BY Zenon, <1>5, <2>1 DEF SameClaims
<1> QED BY Zenon, <1>1, <1>2, <1>3, <1>4, <1>5, PlacementSteps DEF PlacementStep, Moves

\* Until report() is called, a claimed task is placed RUNNING and claimed once.
ClaimInv ==
    ~reported =>
        \A t \in Tasks : \A c \in Cpus : Claims(c, t) =>
            /\ place[t] = "RUNNING"
            /\ \A d \in Cpus : Claims(d, t) => c = d

LEMMA ClaimStep ==
    ASSUME TypeOK, CpuInv, QueueInv, WakeCpuInv, ClaimInv, [Next]_vars
    PROVE  ClaimInv'
<1> SUFFICES ASSUME ~reported'
             PROVE  \A t \in Tasks : \A c \in Cpus : Claims(c, t)' =>
                      /\ place'[t] = "RUNNING"
                      /\ \A d \in Cpus : Claims(d, t)' => c = d
  BY Zenon DEF ClaimInv
<1> DEFINE Goal == \A t \in Tasks : \A c \in Cpus : Claims(c, t)' =>
                      /\ place'[t] = "RUNNING"
                      /\ \A d \in Cpus : Claims(d, t)' => c = d
<1>0. /\ place \in [Tasks -> Places] /\ onCpu \in [Tasks -> Cpus \cup {NoCpu}]
      /\ pc \in [Cpus -> Pcs] /\ prev \in [Cpus -> Tasks \cup {Idle, NoTask}]
      /\ cur \in [Cpus -> Tasks \cup {Idle}] /\ reported \in BOOLEAN
  BY Zenon DEF TypeOK
<1>a. ~reported => \A t \in Tasks : \A c \in Cpus : Claims(c, t) =>
                      /\ place[t] = "RUNNING"
                      /\ \A d \in Cpus : Claims(d, t) => c = d
  BY Zenon DEF ClaimInv
<1>1. ASSUME NEW c \in Cpus, pc[c] = "start", Switch(c) PROVE Goal
  <2>1. ~reported /\ (next[c] \in Tasks => place[next[c]] = "NOWHERE")
    BY Zenon, <1>0, <1>1 DEF Switch
  <2>2. ASSUME NEW d \in Cpus, NEW t \in Tasks, Claims(d, t)'
        PROVE  Claims(d, t) \/ (t = next[c] /\ d = c)
    BY Zenon, <1>0, <1>1, <2>2 DEF Switch, Claims
  <2>3. \A d \in Cpus, t \in Tasks : t = next[c] => ~Claims(d, t)
    BY Zenon, <1>a, <2>1
  <2>4. \A t \in Tasks : /\ t = next[c] => place'[t] = "RUNNING"
                         /\ t # next[c] => place'[t] = place[t]
    BY Zenon, <1>0, <1>1, <2>1 DEF Switch
  <2> QED BY <1>a, <2>1, <2>2, <2>3, <2>4
<1>2. ASSUME NEW c \in Cpus, Finish(c) PROVE Goal
  <2>1. ~reported /\ pc[c] = "finish" /\ prev[c] # cur[c]
    BY Zenon, <1>0, <1>2 DEF Finish, CpuInv, Leaving
  <2>2. ASSUME NEW d \in Cpus, NEW t \in Tasks, Claims(d, t)'
        PROVE  Claims(d, t) /\ (d = c => t # prev[c])
    BY Zenon, <1>0, <1>2, <2>1, <2>2 DEF Finish, Claims, Goto, cpuVars
  <2>3. \A t \in Tasks : t = prev[c] => Claims(c, t)
    BY Zenon, <2>1 DEF Claims
  <2>4. \A d \in Cpus, t \in Tasks : Claims(d, t)' => t # prev[c]
    BY Zenon, <1>a, <2>1, <2>2, <2>3
  <2>5. \A t \in Tasks : t # prev[c] => place'[t] = place[t]
    BY Zenon, <1>0, <1>2 DEF Finish
  <2> QED BY <1>a, <2>1, <2>2, <2>4, <2>5
<1>3. CASE SameClaims /\ UNCHANGED <<place, runs, reported>>
  BY Zenon, <1>a, <1>3 DEF SameClaims
<1>4. ASSUME NEW d \in Cpus, NEW t \in Tasks, Dequeue(d, t), SameClaims PROVE Goal
  <2>1. place' = [place EXCEPT ![t] = "NOWHERE"] /\ reported' = reported /\ place[t] = "QUEUED"
    BY Zenon, <1>4, DequeueLemma
  <2> QED BY Zenon, <1>0, <1>a, <1>4, <2>1 DEF SameClaims
<1>5. ASSUME NEW d \in Cpus, NEW target \in Cpus, NEW t \in Tasks, Enqueue(d, target, t),
             SameClaims
      PROVE  Goal
  <2>1. ~reported /\ place[t] = "NOWHERE" /\ \A u \in Tasks : u # t => place'[u] = place[u]
    BY <1>5, EnqueueLemma
  <2> QED BY Zenon, <1>a, <1>5, <2>1 DEF SameClaims
<1> QED BY Zenon, <1>1, <1>2, <1>3, <1>4, <1>5, PlacementSteps DEF PlacementStep, Moves
-----------------------------------------------------------------------------
(* No task is lost.                                                         *)

\* A Running task is some CPU's current task.
RunningInv == \A t \in Tasks : state[t] = "Running" => \E c \in Cpus : cur[c] = t

\* A Blocked task is registered, or its waker is on the way.
BlockedInv ==
    \A t \in tasks : state[t] = "Blocked" =>
        \/ t \in waiting
        \/ \E x \in Contexts : waking[x].target = t /\ waking[x].step = "table"

\* A Ready task is queued, or somebody is about to queue or to run it.
Kept(t) ==
    \/ EntryIn(runs, t)
    \/ \E c \in Cpus : t \in due[c] \/ next[c] = t \/ prev[c] = t \/ cur[c] = t
    \/ \E x \in Contexts : waking[x].target = t /\ waking[x].step = "queue"

ReadyInv == \A t \in tasks : state[t] = "Ready" => Kept(t)

LEMMA RunningStep ==
    ASSUME TypeOK, RunningInv, [Next]_vars
    PROVE  RunningInv'
<1> USE DEF TypeOK, RunningInv
<1>1. ASSUME NEW c \in Cpus, Pick(c) PROVE RunningInv'
  BY Zenon, <1>1 DEF Pick, taskVars, cpuVars
<1>2. ASSUME NEW c \in Cpus, PickNothing(c) PROVE RunningInv'
  BY Zenon, <1>2 DEF PickNothing, taskVars, cpuVars
<1>3. ASSUME NEW c \in Cpus, Start(c) PROVE RunningInv'
  <2>1. CASE next[c] = cur[c]
    BY Zenon, <1>3, <2>1 DEF Start
  <2>2. CASE next[c] # cur[c]
    <3>1. /\ state' = [t \in Tasks |->
                         IF t = next[c] THEN "Running"
                         ELSE IF t = cur[c] /\ state[t] = "Running" THEN "Ready"
                         ELSE state[t]]
          /\ cur' = [cur EXCEPT ![c] = next[c]]
      BY Zenon, <1>3, <2>2, StartSwitches DEF Switch
    <3>2. ASSUME NEW t \in Tasks, state'[t] = "Running" PROVE \E d \in Cpus : cur'[d] = t
      <4>1. CASE t = next[c]
        BY Zenon, <3>1, <4>1
      <4>2. CASE t # next[c]
        <5>1. state[t] = "Running" /\ t # cur[c]
          BY Zenon, <3>1, <3>2, <4>2
        <5> QED BY Zenon, <3>1, <5>1
      <4> QED BY Zenon, <4>1, <4>2
    <3> QED BY Zenon, <3>2
  <2> QED BY Zenon, <2>1, <2>2
<1>4. ASSUME NEW c \in Cpus, Finish(c) PROVE RunningInv'
  BY Zenon, <1>4 DEF Finish, taskVars, cpuVars
<1>5. ASSUME NEW c \in Cpus, FinishState(c) PROVE RunningInv'
  BY Zenon, <1>5 DEF FinishState, taskVars, cpuVars
<1>6. ASSUME NEW c \in Cpus, FinishQueue(c) PROVE RunningInv'
  BY Zenon, <1>6 DEF FinishQueue, taskVars, cpuVars
<1>7. ASSUME NEW c \in Cpus, SleepList(c) PROVE RunningInv'
  BY Zenon, <1>7 DEF SleepList, taskVars, cpuVars
<1>8. ASSUME NEW c \in Cpus, TickTable(c) PROVE RunningInv'
  <2>1. \A t \in Tasks : state'[t] = "Running" => state[t] = "Running"
    BY Zenon, <1>8 DEF TickTable
  <2> QED BY Zenon, <1>8, <2>1 DEF TickTable, cpuVars
<1>9. ASSUME NEW c \in Cpus, TickQueue(c) PROVE RunningInv'
  BY Zenon, <1>9 DEF TickQueue, taskVars, cpuVars
<1>10. ASSUME NEW c \in Cpus, TickWoken(c) PROVE RunningInv'
  BY Zenon, <1>10 DEF TickWoken, taskVars, cpuVars
<1>11. ASSUME NEW c \in Cpus, WakeDone(c) PROVE RunningInv'
  BY Zenon, <1>11 DEF WakeDone, taskVars, cpuVars
<1>12. ASSUME NEW c \in Cpus, NEW x \in Contexts, MayWake(c, x), WakeTable(x, c) PROVE RunningInv'
  <2>1. \A t \in Tasks : state'[t] = "Running" => state[t] = "Running"
    BY Zenon, <1>12 DEF WakeTable
  <2> QED BY Zenon, <1>12, <2>1 DEF WakeTable, cpuVars
<1>13. ASSUME NEW c \in Cpus, NEW x \in Contexts, MayWake(c, x), WakeQueue(x, c) PROVE RunningInv'
  BY Zenon, <1>13 DEF WakeQueue, taskVars, cpuVars
<1>14. ASSUME NEW c \in Cpus, NEW t \in Tasks, Yield(c, t) PROVE RunningInv'
  BY Zenon, <1>14 DEF Yield, taskVars, cpuVars
<1>15. ASSUME NEW c \in Cpus, NEW t \in Tasks, Block(c, t) PROVE RunningInv'
  BY Zenon, <1>15 DEF Block, taskVars, cpuVars
<1>16. ASSUME NEW c \in Cpus, NEW t \in Tasks, Signal(c, t) PROVE RunningInv'
  BY Zenon, <1>16 DEF Signal, taskVars, cpuVars
<1>17. ASSUME NEW c \in Cpus, NEW t \in Tasks, Sleep(c, t) PROVE RunningInv'
  BY Zenon, <1>17 DEF Sleep, taskVars, cpuVars
<1>18. ASSUME NEW c \in Cpus, NEW t \in Tasks, Exit(c, t) PROVE RunningInv'
  BY Zenon, <1>18 DEF Exit, taskVars, cpuVars
<1>19. ASSUME NEW c \in Cpus, NEW t \in Tasks, TakeDead(c, t) PROVE RunningInv'
  BY Zenon, <1>19 DEF TakeDead, taskVars, cpuVars
<1>20. ASSUME NEW c \in Cpus, NEW t \in Tasks, Publish(c, t) PROVE RunningInv'
  BY Zenon, <1>20 DEF Publish, taskVars, cpuVars
<1>21. ASSUME NEW c \in Cpus, IrqSignal(c) PROVE RunningInv'
  BY Zenon, <1>21 DEF IrqSignal, taskVars, cpuVars
<1>22. ASSUME NEW c \in Cpus, TickSweep(c) PROVE RunningInv'
  BY Zenon, <1>22 DEF TickSweep, taskVars, cpuVars
<1>23. ASSUME NEW c \in Cpus, TickPreempt(c) PROVE RunningInv'
  BY Zenon, <1>23 DEF TickPreempt, taskVars, cpuVars
<1>24. ASSUME NEW c \in Cpus, IdleWait(c) PROVE RunningInv'
  BY Zenon, <1>24 DEF IdleWait, taskVars, cpuVars
<1>25. CASE UNCHANGED vars
  BY Zenon, <1>25 DEF vars
<1> QED
  BY Zenon, <1>1, <1>2, <1>3, <1>4, <1>5, <1>6, <1>7, <1>8, <1>9, <1>10, <1>11, <1>12, <1>13,
     <1>14, <1>15, <1>16, <1>17, <1>18, <1>19, <1>20, <1>21, <1>22, <1>23, <1>24, <1>25,
     NextCases

\* A step after which every Blocked task was so before and has kept its waker.
LEMMA BlockedKeeps ==
    ASSUME TypeOK, BlockedInv,
           \A t \in tasks' : state'[t] = "Blocked" =>
              /\ t \in tasks /\ state[t] = "Blocked"
              /\ t \in waiting =>
                    \/ t \in waiting'
                    \/ \E x \in Contexts : waking'[x].target = t /\ waking'[x].step = "table"
              /\ \A y \in Contexts : waking[y].target = t /\ waking[y].step = "table" =>
                    waking'[y] = waking[y]
    PROVE  BlockedInv'
<1> SUFFICES ASSUME NEW t \in tasks', state'[t] = "Blocked"
             PROVE  \/ t \in waiting'
                    \/ \E x \in Contexts : waking'[x].target = t /\ waking'[x].step = "table"
  BY Zenon DEF BlockedInv
<1>1. CASE t \in waiting
  BY Zenon, <1>1
<1>2. CASE t \notin waiting
  <2>1. PICK y \in Contexts : waking[y].target = t /\ waking[y].step = "table"
    BY <1>2 DEF BlockedInv
  <2>2. waking'[y] = waking[y]
    BY Zenon, <2>1
  <2> QED BY Zenon, <2>1, <2>2
<1> QED BY Zenon, <1>1, <1>2

LEMMA BlockedStep ==
    ASSUME TypeOK, CpuInv, WakeCpuInv, BlockedInv, [Next]_vars
    PROVE  BlockedInv'
<1> USE DEF TypeOK, BlockedInv
<1>1. ASSUME NEW c \in Cpus, Pick(c) PROVE BlockedInv'
  BY <1>1 DEF Pick, taskVars, tableVars
<1>2. ASSUME NEW c \in Cpus, PickNothing(c) PROVE BlockedInv'
  BY <1>2 DEF PickNothing, taskVars, tableVars
<1>3. ASSUME NEW c \in Cpus, Start(c) PROVE BlockedInv'
  <2>1. CASE next[c] = cur[c]
    BY <1>3, <2>1 DEF Start, tableVars
  <2>2. CASE next[c] # cur[c]
    <3>1. Switch(c) /\ UNCHANGED <<tasks, waiting, waking>>
      BY Zenon, <1>3, <2>2, StartSwitches DEF Start, tableVars
    <3>2. \A t \in Tasks : state'[t] = "Blocked" => state[t] = "Blocked"
      BY Zenon, <3>1 DEF Switch
    <3> QED BY <3>1, <3>2
  <2> QED BY Zenon, <2>1, <2>2
<1>4. ASSUME NEW c \in Cpus, Finish(c) PROVE BlockedInv'
  BY <1>4 DEF Finish, taskVars, tableVars
<1>5. ASSUME NEW c \in Cpus, FinishState(c) PROVE BlockedInv'
  BY <1>5 DEF FinishState, taskVars, tableVars
<1>6. ASSUME NEW c \in Cpus, FinishQueue(c) PROVE BlockedInv'
  BY <1>6 DEF FinishQueue, taskVars, tableVars
<1>7. ASSUME NEW c \in Cpus, SleepList(c) PROVE BlockedInv'
  BY <1>7 DEF SleepList, taskVars, tableVars
<1>8. ASSUME NEW c \in Cpus, TickTable(c) PROVE BlockedInv'
  <2>1. \A t \in Tasks : state'[t] = "Blocked" => state[t] = "Blocked"
    BY Zenon, <1>8 DEF TickTable
  <2> QED BY <1>8, <2>1 DEF TickTable, tableVars
<1>9. ASSUME NEW c \in Cpus, TickQueue(c) PROVE BlockedInv'
  BY <1>9 DEF TickQueue, taskVars, tableVars
<1>10. ASSUME NEW c \in Cpus, TickWoken(c) PROVE BlockedInv'
  BY <1>10 DEF TickWoken, taskVars, tableVars
<1>11. ASSUME NEW c \in Cpus, WakeDone(c) PROVE BlockedInv'
  BY <1>11 DEF WakeDone, taskVars, tableVars
<1>12. ASSUME NEW c \in Cpus, NEW x \in Contexts, MayWake(c, x), WakeTable(x, c) PROVE BlockedInv'
  <2>1. tasks' = tasks /\ waiting' = waiting
    BY Zenon, <1>12 DEF WakeTable, tableVars
  <2>2. \A y \in Contexts : y # x => waking'[y] = waking[y]
    BY Zenon, <1>12 DEF WakeTable
  <2>3. \A t \in Tasks : state'[t] = "Blocked" => state[t] = "Blocked"
    BY Zenon, <1>12 DEF WakeTable
  <2>4. \A t \in tasks : t = waking[x].target => state'[t] # "Blocked"
    BY Zenon, <1>12 DEF WakeTable
  <2> QED BY <2>1, <2>2, <2>3, <2>4, BlockedKeeps
<1>13. ASSUME NEW c \in Cpus, NEW x \in Contexts, MayWake(c, x), WakeQueue(x, c) PROVE BlockedInv'
  <2>1. \A y \in Contexts : waking[y].step = "table" => waking'[y] = waking[y]
    BY Zenon, <1>13 DEF WakeQueue
  <2>2. state' = state /\ tasks' = tasks /\ waiting' = waiting
    BY Zenon, <1>13 DEF WakeQueue, tableVars
  <2> QED BY Zenon, <2>1, <2>2, BlockedKeeps
<1>14. ASSUME NEW c \in Cpus, NEW t \in Tasks, Yield(c, t) PROVE BlockedInv'
  BY <1>14 DEF Yield, taskVars, tableVars
<1>15. ASSUME NEW c \in Cpus, NEW t \in Tasks, Block(c, t) PROVE BlockedInv'
  BY <1>15 DEF Block, taskVars, tableVars
<1>16. ASSUME NEW c \in Cpus, NEW t \in Tasks, Signal(c, t) PROVE BlockedInv'
  <2>1. PICK u \in waiting : CallWake(t, u) /\ waiting' = waiting \ {u}
    BY Zenon, <1>16 DEF Signal
  <2>2. waking[t] = NoWake /\ t \in Contexts
    BY Zenon, <1>16 DEF Signal, Free, Contexts
  <2>3. waking'[t].target = u /\ waking'[t].step = "table"
    BY Zenon, <2>1, <2>2 DEF CallWake
  <2>4. \A y \in Contexts : waking[y].step = "table" => waking'[y] = waking[y]
    BY <2>1, <2>2 DEF CallWake, NoWake
  <2>5. state' = state /\ tasks' = tasks
    BY Zenon, <1>16 DEF Signal, taskVars, tableVars
  <2>6. \A w \in waiting : \/ w \in waiting'
                           \/ \E y \in Contexts : waking'[y].target = w /\ waking'[y].step = "table"
    BY Zenon, <2>1, <2>2, <2>3
  <2> QED BY <2>4, <2>5, <2>6, BlockedKeeps
<1>17. ASSUME NEW c \in Cpus, NEW t \in Tasks, Sleep(c, t) PROVE BlockedInv'
  BY <1>17 DEF Sleep, taskVars, tableVars
<1>18. ASSUME NEW c \in Cpus, NEW t \in Tasks, Exit(c, t) PROVE BlockedInv'
  <2>1. \A y \in Contexts : waking[y].step = "table" => waking'[y] = waking[y]
    <3>1. waking[c] = NoWake
      BY Zenon, <1>18 DEF Exit, Free, CpuInv
    <3>2. CASE Supervisor = NoTask
      <4>1. waking' = waking
        BY Zenon, <1>18, <3>2 DEF Exit
      <4> QED BY Zenon, <4>1
    <3>3. CASE Supervisor # NoTask
      <4>1. CallWake(c, Supervisor)
        BY Zenon, <1>18, <3>3 DEF Exit
      <4> QED BY <3>1, <4>1 DEF CallWake, NoWake
    <3> QED BY Zenon, <3>2, <3>3
  <2>2. tasks' = tasks /\ waiting' = waiting
    BY Zenon, <1>18 DEF Exit
  <2>3. \A u \in Tasks : state'[u] = "Blocked" => state[u] = "Blocked"
    BY Zenon, <1>18 DEF Exit
  <2> QED BY Zenon, <2>1, <2>2, <2>3, BlockedKeeps
<1>19. ASSUME NEW c \in Cpus, NEW t \in Tasks, TakeDead(c, t) PROVE BlockedInv'
  BY <1>19 DEF TakeDead, taskVars, tableVars
<1>20. ASSUME NEW c \in Cpus, NEW t \in Tasks, Publish(c, t) PROVE BlockedInv'
  <2>1. PICK u \in Tasks : tasks' = tasks \cup {u} /\ state[u] = "Ready"
    BY Zenon, <1>20 DEF Publish
  <2> QED BY <1>20, <2>1 DEF Publish
<1>21. ASSUME NEW c \in Cpus, IrqSignal(c) PROVE BlockedInv'
  <2>1. PICK u \in waiting : CallWake(c, u) /\ waiting' = waiting \ {u}
    BY Zenon, <1>21 DEF IrqSignal
  <2>2. waking[c] = NoWake /\ c \in Contexts
    BY Zenon, <1>21 DEF IrqSignal, CpuInv, Contexts
  <2>3. waking'[c].target = u /\ waking'[c].step = "table"
    BY Zenon, <2>1, <2>2 DEF CallWake
  <2>4. \A y \in Contexts : waking[y].step = "table" => waking'[y] = waking[y]
    BY <2>1, <2>2 DEF CallWake, NoWake
  <2>5. state' = state /\ tasks' = tasks
    BY Zenon, <1>21 DEF IrqSignal, taskVars, tableVars
  <2>6. \A w \in waiting : \/ w \in waiting'
                           \/ \E y \in Contexts : waking'[y].target = w /\ waking'[y].step = "table"
    BY Zenon, <2>1, <2>2, <2>3
  <2> QED BY <2>4, <2>5, <2>6, BlockedKeeps
<1>22. ASSUME NEW c \in Cpus, TickSweep(c) PROVE BlockedInv'
  BY <1>22 DEF TickSweep, taskVars, tableVars
<1>23. ASSUME NEW c \in Cpus, TickPreempt(c) PROVE BlockedInv'
  BY <1>23 DEF TickPreempt, taskVars, tableVars
<1>24. ASSUME NEW c \in Cpus, IdleWait(c) PROVE BlockedInv'
  BY <1>24 DEF IdleWait, taskVars, tableVars
<1>25. CASE UNCHANGED vars
  BY <1>25 DEF vars
<1> QED
  BY Zenon, <1>1, <1>2, <1>3, <1>4, <1>5, <1>6, <1>7, <1>8, <1>9, <1>10, <1>11, <1>12, <1>13,
     <1>14, <1>15, <1>16, <1>17, <1>18, <1>19, <1>20, <1>21, <1>22, <1>23, <1>24, <1>25,
     NextCases

\* on_tick's two arrays are empty outside the steps that use them.
TickInv ==
    \A c \in Cpus :
        /\ pc[c] # "tickTable" => expired[c] = {}
        /\ pc[c] # "tickQueue" => due[c] = {}

LEMMA TickStep ==
    ASSUME TypeOK, TickInv, [Next]_vars
    PROVE  TickInv'
<1> USE DEF TypeOK, TickInv
<1>1. ASSUME NEW c \in Cpus, Pick(c) PROVE TickInv'
  <2>1. PICK label \in {"start", "nothing"} : pc' = [pc EXCEPT ![c] = label]
    BY Zenon, <1>1 DEF Pick, Goto
  <2> QED BY Zenon, <1>1, <2>1 DEF Pick, tickVars
<1>2. ASSUME NEW c \in Cpus, PickNothing(c) PROVE TickInv'
  <2>1. PICK label \in {"start", "run"} : pc' = [pc EXCEPT ![c] = label]
    BY Zenon, <1>2 DEF PickNothing, Goto
  <2> QED BY Zenon, <1>2, <2>1 DEF PickNothing, tickVars
<1>3. ASSUME NEW c \in Cpus, Start(c) PROVE TickInv'
  <2>1. PICK label \in {"finish", "run"} : pc' = [pc EXCEPT ![c] = label]
    BY Zenon, <1>3 DEF Start, Goto
  <2> QED BY Zenon, <1>3, <2>1 DEF Start, tickVars
<1>4. ASSUME NEW c \in Cpus, Finish(c) PROVE TickInv'
  BY Zenon, <1>4 DEF Finish, Goto, tickVars
<1>5. ASSUME NEW c \in Cpus, FinishState(c) PROVE TickInv'
  <2>1. PICK label \in {"finishQueue", "run"} : pc' = [pc EXCEPT ![c] = label]
    BY Zenon, <1>5 DEF FinishState, Goto
  <2> QED BY Zenon, <1>5, <2>1 DEF FinishState, tickVars
<1>6. ASSUME NEW c \in Cpus, FinishQueue(c) PROVE TickInv'
  BY Zenon, <1>6 DEF FinishQueue, Goto, tickVars
<1>7. ASSUME NEW c \in Cpus, SleepList(c) PROVE TickInv'
  BY Zenon, <1>7 DEF SleepList, Goto, tickVars
<1>8. ASSUME NEW c \in Cpus, TickTable(c) PROVE TickInv'
  <2>1. /\ pc' = [pc EXCEPT ![c] = IF due'[c] = {} THEN "run" ELSE "tickQueue"]
        /\ \A d \in Cpus : d # c => due'[d] = due[d]
        /\ expired' = [expired EXCEPT ![c] = {}]
    BY Zenon, <1>8 DEF TickTable, Goto
  <2> QED BY Zenon, <2>1
<1>9. ASSUME NEW c \in Cpus, TickQueue(c) PROVE TickInv'
  <2>1. /\ pc' = [pc EXCEPT ![c] = IF due'[c] = {} THEN "tickWoken" ELSE "tickQueue"]
        /\ \A d \in Cpus : d # c => due'[d] = due[d]
        /\ expired' = expired /\ pc[c] = "tickQueue"
    <3>1. PICK t \in due[c] : /\ due' = [due EXCEPT ![c] = @ \ {t}]
                              /\ Goto(c, IF due[c] = {t} THEN "tickWoken" ELSE "tickQueue")
      BY Zenon, <1>9 DEF TickQueue
    <3>2. due'[c] = due[c] \ {t}
      BY Zenon, <3>1
    <3>3. due'[c] = {} <=> due[c] = {t}
      BY Zenon, <3>2
    <3> QED BY Zenon, <1>9, <3>1, <3>3 DEF TickQueue, Goto
  <2> QED BY Zenon, <2>1
<1>10. ASSUME NEW c \in Cpus, TickWoken(c) PROVE TickInv'
  <2>1. PICK label \in {"pick", "run"} : pc' = [pc EXCEPT ![c] = label]
    BY Zenon, <1>10 DEF TickWoken, Goto
  <2> QED BY Zenon, <1>10, <2>1 DEF TickWoken, tickVars
<1>11. ASSUME NEW c \in Cpus, WakeDone(c) PROVE TickInv'
  <2>1. PICK label \in {"pick", "run"} : pc' = [pc EXCEPT ![c] = label]
    BY Zenon, <1>11 DEF WakeDone, Goto
  <2> QED BY Zenon, <1>11, <2>1 DEF WakeDone, tickVars
<1>12. ASSUME NEW c \in Cpus, NEW x \in Contexts, MayWake(c, x), WakeTable(x, c) PROVE TickInv'
  BY Zenon, <1>12 DEF WakeTable, Goto, tickVars
<1>13. ASSUME NEW c \in Cpus, NEW x \in Contexts, MayWake(c, x), WakeQueue(x, c) PROVE TickInv'
  BY Zenon, <1>13 DEF WakeQueue, Goto, tickVars
<1>14. ASSUME NEW c \in Cpus, NEW t \in Tasks, Yield(c, t) PROVE TickInv'
  BY Zenon, <1>14 DEF Yield, Goto, tickVars, Free
<1>15. ASSUME NEW c \in Cpus, NEW t \in Tasks, Block(c, t) PROVE TickInv'
  BY Zenon, <1>15 DEF Block, Goto, tickVars, Free
<1>16. ASSUME NEW c \in Cpus, NEW t \in Tasks, Signal(c, t) PROVE TickInv'
  BY Zenon, <1>16 DEF Signal, Goto, tickVars
<1>17. ASSUME NEW c \in Cpus, NEW t \in Tasks, Sleep(c, t) PROVE TickInv'
  BY Zenon, <1>17 DEF Sleep, Goto, tickVars, Free
<1>18. ASSUME NEW c \in Cpus, NEW t \in Tasks, Exit(c, t) PROVE TickInv'
  <2>1. PICK label \in {"pick", "exit"} : pc' = [pc EXCEPT ![c] = label]
    BY Zenon, <1>18 DEF Exit, Goto
  <2> QED BY Zenon, <1>18, <2>1 DEF Exit, tickVars, Free
<1>19. ASSUME NEW c \in Cpus, NEW t \in Tasks, TakeDead(c, t) PROVE TickInv'
  BY Zenon, <1>19 DEF TakeDead, Goto, tickVars
<1>20. ASSUME NEW c \in Cpus, NEW t \in Tasks, Publish(c, t) PROVE TickInv'
  BY Zenon, <1>20 DEF Publish, Goto, tickVars
<1>21. ASSUME NEW c \in Cpus, IrqSignal(c) PROVE TickInv'
  BY Zenon, <1>21 DEF IrqSignal, Goto, tickVars
<1>22. ASSUME NEW c \in Cpus, TickSweep(c) PROVE TickInv'
  BY Zenon, <1>22 DEF TickSweep, Goto, tickVars
<1>23. ASSUME NEW c \in Cpus, TickPreempt(c) PROVE TickInv'
  BY Zenon, <1>23 DEF TickPreempt, Goto, tickVars
<1>24. ASSUME NEW c \in Cpus, IdleWait(c) PROVE TickInv'
  BY Zenon, <1>24 DEF IdleWait, Goto, tickVars
<1>25. CASE UNCHANGED vars
  BY Zenon, <1>25 DEF vars
<1> QED
  BY <1>1, <1>2, <1>3, <1>4, <1>5, <1>6, <1>7, <1>8, <1>9, <1>10, <1>11, <1>12, <1>13,
     <1>14, <1>15, <1>16, <1>17, <1>18, <1>19, <1>20, <1>21, <1>22, <1>23, <1>24, <1>25,
     NextCases

\* A task that a queue refused is placed on some CPU, which claims it.
LEMMA RefusedIsClaimed ==
    ASSUME HeldInv, NEW t \in Tasks, place[t] = "RUNNING" \/ onCpu[t] \in Cpus
    PROVE  \E d \in Cpus : Claims(d, t)
BY Zenon DEF HeldInv

\* A step after which the queues, the arrays and the CPUs hold what they held.
LEMMA KeptKeeps ==
    ASSUME \A t \in Tasks : EntryIn(runs, t) => EntryIn(runs', t),
           due' = due, next' = next, prev' = prev, cur' = cur,
           \A x \in Contexts : waking[x].step = "queue" => waking'[x] = waking[x]
    PROVE  \A t \in Tasks : Kept(t) => Kept(t)'
BY Zenon DEF Kept

LEMMA ReadyStep ==
    ASSUME TypeOK, CpuInv, QueueInv, WakeCpuInv, HeldInv, TickInv, ReadyInv, [Next]_vars
    PROVE  ReadyInv'
<1> USE DEF TypeOK, ReadyInv
<1>1. ASSUME NEW c \in Cpus, Pick(c) PROVE ReadyInv'
  <2>0. state' = state /\ tasks' = tasks /\ due' = due /\ waking' = waking /\ cur' = cur
        /\ prev' = prev
    BY Zenon, <1>1 DEF Pick, tableVars, tickVars
  <2>1. CASE UNCHANGED <<runs, next>>
    BY <2>0, <2>1 DEF Kept
  <2>2. ASSUME NEW from \in Cpus, NEW t \in Tasks, Dequeue(from, t),
               next' = [next EXCEPT ![c] = t]
        PROVE  ReadyInv'
    <3>1. \A u \in Tasks : u # t /\ EntryIn(runs, u) => EntryIn(runs', u)
      BY Zenon, <2>2, DequeueLemma
    <3>2. next[c] = NoTask /\ next'[c] = t
      BY Zenon, <1>1, <2>2 DEF Pick, CpuInv
    <3>3. \A d \in Cpus : d # c => next'[d] = next[d]
      BY Zenon, <2>2
    <3>4. \A u \in Tasks : Kept(u) => Kept(u)'
      BY <2>0, <3>1, <3>2, <3>3, SchedAssumption DEF Kept
    <3> QED BY Zenon, <2>0, <3>4
  <2> QED BY Zenon, <1>1, <2>1, <2>2 DEF Pick
<1>2. ASSUME NEW c \in Cpus, PickNothing(c) PROVE ReadyInv'
  <2>1. next[c] = NoTask /\ \A d \in Cpus : d # c => next'[d] = next[d]
    BY Zenon, <1>2 DEF PickNothing, CpuInv
  <2>2. state' = state /\ tasks' = tasks /\ runs' = runs /\ due' = due /\ waking' = waking
        /\ cur' = cur /\ prev' = prev
    BY Zenon, <1>2 DEF PickNothing, taskVars, tableVars, tickVars
  <2>n. \A t \in Tasks : t # NoTask
    BY SchedAssumption
  <2>3. \A t \in Tasks : \A d \in Cpus : next[d] = t => next'[d] = t
    BY Zenon, <2>1, <2>n
  <2>4. \A t \in Tasks : Kept(t) => Kept(t)'
    BY Zenon, <2>2, <2>3 DEF Kept
  <2> QED BY Zenon, <2>2, <2>4
<1>3. ASSUME NEW c \in Cpus, Start(c) PROVE ReadyInv'
  <2>0. tasks' = tasks /\ runs' = runs /\ due' = due /\ waking' = waking
        /\ next' = [next EXCEPT ![c] = NoTask]
    BY Zenon, <1>3 DEF Start, tableVars, tickVars
  <2>1. CASE next[c] = cur[c]
    <3>1. state' = state /\ cur' = cur /\ prev' = prev
      BY Zenon, <1>3, <2>1 DEF Start
    <3>2. \A t \in Tasks : Kept(t) => Kept(t)'
      BY <2>0, <2>1, <3>1 DEF Kept
    <3> QED BY Zenon, <2>0, <3>1, <3>2
  <2>2. CASE next[c] # cur[c]
    <3>1. Switch(c) /\ prev[c] = NoTask
      BY Zenon, <1>3, <2>2, StartSwitches DEF Start, CpuInv, Leaving
    <3>2. prev' = [prev EXCEPT ![c] = cur[c]] /\ cur' = [cur EXCEPT ![c] = next[c]]
      BY Zenon, <3>1 DEF Switch
    <3>3. \A t \in Tasks : Kept(t) => Kept(t)'
      BY <2>0, <3>1, <3>2, SchedAssumption DEF Kept
    <3>4. \A t \in Tasks : state'[t] = "Ready" => state[t] = "Ready" \/ t = cur[c]
      BY Zenon, <3>1 DEF Switch
    <3>5. \A t \in Tasks : t = cur[c] => Kept(t)'
      BY <3>2 DEF Kept
    <3> QED BY Zenon, <2>0, <3>3, <3>4, <3>5
  <2> QED BY Zenon, <2>1, <2>2
<1>4. ASSUME NEW c \in Cpus, Finish(c) PROVE ReadyInv'
  <2>1. \A u \in Tasks : Kept(u) => Kept(u)'
    BY Zenon, <1>4, KeptKeeps DEF Finish, cpuVars, tickVars
  <2>2. tasks' = tasks /\ \A u \in Tasks : state'[u] = "Ready" => state[u] = "Ready"
    BY Zenon, <1>4 DEF Finish, taskVars, tableVars
  <2> QED BY Zenon, <2>1, <2>2
<1>5. ASSUME NEW c \in Cpus, FinishState(c) PROVE ReadyInv'
  <2>0. state' = state /\ tasks' = tasks /\ runs' = runs /\ due' = due /\ waking' = waking
        /\ cur' = cur /\ next' = next
    BY Zenon, <1>5 DEF FinishState, taskVars, tableVars, tickVars
  <2>1. CASE prev' = prev
    BY <2>0, <2>1 DEF Kept
  <2>2. CASE (prev[c] \in tasks => state[prev[c]] # "Ready") /\ prev' = [prev EXCEPT ![c] = NoTask]
    <3>1. \A t \in Tasks : t # prev[c] /\ Kept(t) => Kept(t)'
      BY <2>0, <2>2 DEF Kept
    <3> QED BY Zenon, <2>0, <2>2, <3>1
  <2> QED BY Zenon, <1>5, <2>1, <2>2 DEF FinishState
<1>6. ASSUME NEW c \in Cpus, FinishQueue(c) PROVE ReadyInv'
  <2>0. state' = state /\ tasks' = tasks /\ due' = due /\ waking' = waking /\ cur' = cur
        /\ next' = next /\ prev' = [prev EXCEPT ![c] = NoTask] /\ pc[c] = "finishQueue"
    BY Zenon, <1>6 DEF FinishQueue, tableVars, tickVars
  <2>1. PICK t \in Tasks : t = prev[c] /\ Enqueue(c, c, t)
    BY Zenon, <1>6 DEF FinishQueue, CpuInv
  <2>2. \A u \in Tasks : EntryIn(runs, u) => EntryIn(runs', u)
    BY Zenon, <2>1, EnqueueLemma
  <2>3. EntryIn(runs', t) \/ \E d \in Cpus : Claims(d, t)
    BY Zenon, <2>1, EnqueueLemma, RefusedIsClaimed
  <2>4. \A d \in Cpus : Claims(d, t) => cur[d] = t \/ (d # c /\ prev[d] = t)
    BY Zenon, <2>0 DEF Claims
  <2>5. Kept(t)'
    BY <2>0, <2>3, <2>4 DEF Kept
  <2>6. \A u \in Tasks : u # t /\ Kept(u) => Kept(u)'
    BY <2>0, <2>1, <2>2 DEF Kept
  <2> QED BY Zenon, <2>0, <2>5, <2>6
<1>7. ASSUME NEW c \in Cpus, SleepList(c) PROVE ReadyInv'
  <2>1. \A u \in Tasks : Kept(u) => Kept(u)'
    BY Zenon, <1>7, KeptKeeps DEF SleepList, cpuVars, tickVars
  <2>2. tasks' = tasks /\ \A u \in Tasks : state'[u] = "Ready" => state[u] = "Ready"
    BY Zenon, <1>7 DEF SleepList, taskVars, tableVars
  <2> QED BY Zenon, <2>1, <2>2
<1>8. ASSUME NEW c \in Cpus, TickTable(c) PROVE ReadyInv'
  <2>0. tasks' = tasks /\ runs' = runs /\ waking' = waking /\ cur' = cur /\ next' = next
        /\ prev' = prev
    BY Zenon, <1>8 DEF TickTable, tableVars, cpuVars
  <2>1. due[c] = {} /\ \A d \in Cpus : d # c => due'[d] = due[d]
    BY Zenon, <1>8 DEF TickTable, TickInv
  <2>2. \A t \in Tasks : state'[t] = "Ready" =>
          state[t] = "Ready" \/ onCpu[t] # NoCpu \/ t \in due'[c]
    BY Zenon, <1>8 DEF TickTable
  <2>3. \A t \in Tasks : Kept(t) => Kept(t)'
    BY Zenon, <2>0, <2>1 DEF Kept
  <2>4. \A t \in Tasks : onCpu[t] # NoCpu => Kept(t)'
    <3>1. \A t \in Tasks : onCpu[t] # NoCpu => \E d \in Cpus : Claims(d, t)
      BY Zenon, RefusedIsClaimed
    <3> QED BY Zenon, <2>0, <3>1 DEF Kept, Claims
  <2>5. \A t \in Tasks : t \in due'[c] => Kept(t)'
    BY Zenon DEF Kept
  <2> QED BY <2>0, <2>2, <2>3, <2>4, <2>5
<1>9. ASSUME NEW c \in Cpus, TickQueue(c) PROVE ReadyInv'
  <2>0. state' = state /\ tasks' = tasks /\ waking' = waking /\ cur' = cur
        /\ next' = next /\ prev' = prev
    BY Zenon, <1>9 DEF TickQueue, tableVars, cpuVars
  <2>1. PICK t \in due[c] : Enqueue(c, c, t) /\ due' = [due EXCEPT ![c] = @ \ {t}]
    BY Zenon, <1>9 DEF TickQueue
  <2>2. t \in Tasks
    BY Zenon
  <2>3. (\A u \in Tasks : EntryIn(runs, u) => EntryIn(runs', u))
        /\ (EntryIn(runs', t) \/ \E d \in Cpus : Claims(d, t))
    BY Zenon, <2>1, <2>2, EnqueueLemma, RefusedIsClaimed
  <2>4. Kept(t)'
    BY Zenon, <2>0, <2>3 DEF Kept, Claims
  <2>5. \A u \in Tasks : u # t /\ Kept(u) => Kept(u)'
    BY <2>0, <2>1, <2>3 DEF Kept
  <2> QED BY Zenon, <2>0, <2>4, <2>5
<1>10. ASSUME NEW c \in Cpus, TickWoken(c) PROVE ReadyInv'
  <2>1. \A u \in Tasks : Kept(u) => Kept(u)'
    BY Zenon, <1>10, KeptKeeps DEF TickWoken, cpuVars, tickVars
  <2>2. tasks' = tasks /\ \A u \in Tasks : state'[u] = "Ready" => state[u] = "Ready"
    BY Zenon, <1>10 DEF TickWoken, taskVars, tableVars
  <2> QED BY Zenon, <2>1, <2>2
<1>11. ASSUME NEW c \in Cpus, WakeDone(c) PROVE ReadyInv'
  <2>1. \A u \in Tasks : Kept(u) => Kept(u)'
    BY Zenon, <1>11, KeptKeeps DEF WakeDone, cpuVars, tickVars
  <2>2. tasks' = tasks /\ \A u \in Tasks : state'[u] = "Ready" => state[u] = "Ready"
    BY Zenon, <1>11 DEF WakeDone, taskVars, tableVars
  <2> QED BY Zenon, <2>1, <2>2
<1>12. ASSUME NEW c \in Cpus, NEW x \in Contexts, MayWake(c, x), WakeTable(x, c) PROVE ReadyInv'
  <2>0. tasks' = tasks /\ runs' = runs /\ due' = due /\ cur' = cur /\ next' = next /\ prev' = prev
    BY Zenon, <1>12 DEF WakeTable, tableVars, cpuVars, tickVars
  <2>1. PICK t \in Tasks : t = waking[x].target /\ waking[x].step = "table"
    BY Zenon, <1>12, WakeType DEF WakeTable
  <2>2. \A u \in Tasks : u # t => state'[u] = state[u]
    BY Zenon, <1>12, <2>1 DEF WakeTable
  <2>3. \A y \in Contexts : y # x => waking'[y] = waking[y]
    BY Zenon, <1>12 DEF WakeTable
  <2>4. t \in tasks /\ state'[t] = "Ready" =>
          \/ state[t] = "Ready"
          \/ onCpu[t] # NoCpu
          \/ waking'[x].target = t /\ waking'[x].step = "queue"
    BY Zenon, <1>12, <2>1 DEF WakeTable
  <2>5. \A u \in Tasks : Kept(u) => Kept(u)'
    BY Zenon, <2>0, <2>1, <2>3 DEF Kept
  <2>6. onCpu[t] # NoCpu => Kept(t)'
    <3>1. onCpu[t] # NoCpu => \E d \in Cpus : Claims(d, t)
      BY Zenon, <2>1, RefusedIsClaimed
    <3> QED BY Zenon, <2>0, <3>1 DEF Kept, Claims
  <2>7. waking'[x].target = t /\ waking'[x].step = "queue" => Kept(t)'
    BY Zenon DEF Kept
  <2> QED BY <2>0, <2>2, <2>4, <2>5, <2>6, <2>7
<1>13. ASSUME NEW c \in Cpus, NEW x \in Contexts, MayWake(c, x), WakeQueue(x, c) PROVE ReadyInv'
  <2>0. state' = state /\ tasks' = tasks /\ due' = due /\ cur' = cur /\ next' = next
        /\ prev' = prev /\ waking' = [waking EXCEPT ![x] = NoWake]
    BY Zenon, <1>13 DEF WakeQueue, tableVars, cpuVars, tickVars
  <2>1. PICK t \in Tasks : t = waking[x].target /\ waking[x].cpu \in Cpus
                           /\ Enqueue(c, waking[x].cpu, t)
    BY Zenon, <1>13, WakeType DEF WakeQueue
  <2>2. (\A u \in Tasks : EntryIn(runs, u) => EntryIn(runs', u))
        /\ (EntryIn(runs', t) \/ \E d \in Cpus : Claims(d, t))
    BY Zenon, <2>1, EnqueueLemma, RefusedIsClaimed
  <2>3. Kept(t)'
    BY Zenon, <2>0, <2>2 DEF Kept, Claims
  <2>4. \A y \in Contexts : y # x => waking'[y] = waking[y]
    BY Zenon, <2>0
  <2>5. \A u \in Tasks : u # t /\ Kept(u) => Kept(u)'
    BY Zenon, <2>0, <2>1, <2>2, <2>4 DEF Kept
  <2> QED BY Zenon, <2>0, <2>3, <2>5
<1>14. ASSUME NEW c \in Cpus, NEW t \in Tasks, Yield(c, t) PROVE ReadyInv'
  <2>1. \A u \in Tasks : Kept(u) => Kept(u)'
    BY Zenon, <1>14, KeptKeeps DEF Yield, cpuVars, tickVars
  <2>2. tasks' = tasks /\ \A u \in Tasks : state'[u] = "Ready" => state[u] = "Ready"
    BY Zenon, <1>14 DEF Yield, taskVars, tableVars
  <2> QED BY Zenon, <2>1, <2>2
<1>15. ASSUME NEW c \in Cpus, NEW t \in Tasks, Block(c, t) PROVE ReadyInv'
  <2>1. \A u \in Tasks : Kept(u) => Kept(u)'
    BY Zenon, <1>15, KeptKeeps DEF Block, cpuVars, tickVars
  <2>2. tasks' = tasks /\ \A u \in Tasks : state'[u] = "Ready" => state[u] = "Ready"
    BY Zenon, <1>15 DEF Block, taskVars, tableVars
  <2> QED BY Zenon, <2>1, <2>2
<1>16. ASSUME NEW c \in Cpus, NEW t \in Tasks, Signal(c, t) PROVE ReadyInv'
  <2>1. waking[t] = NoWake /\ \A y \in Contexts : y # t => waking'[y] = waking[y]
    BY Zenon, <1>16 DEF Signal, CallWake, Free, CpuInv
  <2>q. NoWake.step # "queue"
    BY DEF NoWake
  <2>2. \A y \in Contexts : waking[y].step = "queue" => waking'[y] = waking[y]
    BY Zenon, <2>1, <2>q
  <2>3. runs' = runs /\ due' = due /\ next' = next /\ prev' = prev /\ cur' = cur
        /\ tasks' = tasks /\ state' = state
    BY Zenon, <1>16 DEF Signal, cpuVars, tickVars, taskVars, tableVars
  <2>4. \A u \in Tasks : Kept(u) => Kept(u)'
    BY Zenon, <2>2, <2>3, KeptKeeps
  <2> QED BY Zenon, <2>3, <2>4
<1>17. ASSUME NEW c \in Cpus, NEW t \in Tasks, Sleep(c, t) PROVE ReadyInv'
  <2>1. \A u \in Tasks : Kept(u) => Kept(u)'
    BY Zenon, <1>17, KeptKeeps DEF Sleep, cpuVars, tickVars
  <2>2. tasks' = tasks /\ \A u \in Tasks : state'[u] = "Ready" => state[u] = "Ready"
    BY Zenon, <1>17 DEF Sleep, taskVars, tableVars
  <2> QED BY Zenon, <2>1, <2>2
<1>18. ASSUME NEW c \in Cpus, NEW t \in Tasks, Exit(c, t) PROVE ReadyInv'
  <2>1. \A y \in Contexts : waking[y].step = "queue" => waking'[y] = waking[y]
    <3>1. waking[c] = NoWake
      BY Zenon, <1>18 DEF Exit, Free, CpuInv
    <3>2. CASE Supervisor = NoTask
      <4>1. waking' = waking
        BY Zenon, <1>18, <3>2 DEF Exit
      <4> QED BY Zenon, <4>1
    <3>3. CASE Supervisor # NoTask
      <4>1. CallWake(c, Supervisor)
        BY Zenon, <1>18, <3>3 DEF Exit
      <4>2. \A y \in Contexts : y # c => waking'[y] = waking[y]
        BY Zenon, <4>1 DEF CallWake
      <4> QED BY <3>1, <4>2 DEF NoWake
    <3> QED BY Zenon, <3>2, <3>3
  <2>2. \A u \in Tasks : Kept(u) => Kept(u)'
    BY Zenon, <1>18, <2>1, KeptKeeps DEF Exit, cpuVars, tickVars
  <2>3. tasks' = tasks /\ \A u \in Tasks : state'[u] = "Ready" => state[u] = "Ready"
    BY Zenon, <1>18 DEF Exit
  <2> QED BY Zenon, <2>2, <2>3
<1>19. ASSUME NEW c \in Cpus, NEW t \in Tasks, TakeDead(c, t) PROVE ReadyInv'
  <2>1. \A u \in Tasks : Kept(u) => Kept(u)'
    BY Zenon, <1>19, KeptKeeps DEF TakeDead, cpuVars, tickVars
  <2>2. tasks' \subseteq tasks /\ \A u \in Tasks : state'[u] = "Ready" => state[u] = "Ready"
    BY Zenon, <1>19 DEF TakeDead, taskVars, tableVars
  <2> QED BY Zenon, <2>1, <2>2
<1>20. ASSUME NEW c \in Cpus, NEW t \in Tasks, Publish(c, t) PROVE ReadyInv'
  <2>0. state' = state /\ due' = due /\ waking' = waking /\ cur' = cur /\ next' = next
        /\ prev' = prev
    BY Zenon, <1>20 DEF Publish, cpuVars, tickVars
  <2>1. PICK u \in Tasks : tasks' = tasks \cup {u} /\ Enqueue(c, c, u)
    BY Zenon, <1>20 DEF Publish
  <2>2. (\A v \in Tasks : EntryIn(runs, v) => EntryIn(runs', v))
        /\ (EntryIn(runs', u) \/ \E d \in Cpus : Claims(d, u))
    BY Zenon, <2>1, EnqueueLemma, RefusedIsClaimed
  <2>3. Kept(u)'
    BY Zenon, <2>0, <2>2 DEF Kept, Claims
  <2>4. \A v \in Tasks : Kept(v) => Kept(v)'
    BY Zenon, <2>0, <2>2, KeptKeeps
  <2> QED BY Zenon, <2>0, <2>1, <2>3, <2>4
<1>21. ASSUME NEW c \in Cpus, IrqSignal(c) PROVE ReadyInv'
  <2>1. waking[c] = NoWake /\ \A y \in Contexts : y # c => waking'[y] = waking[y]
    BY Zenon, <1>21 DEF IrqSignal, CallWake, Free, CpuInv
  <2>q. NoWake.step # "queue"
    BY DEF NoWake
  <2>2. \A y \in Contexts : waking[y].step = "queue" => waking'[y] = waking[y]
    BY Zenon, <2>1, <2>q
  <2>3. runs' = runs /\ due' = due /\ next' = next /\ prev' = prev /\ cur' = cur
        /\ tasks' = tasks /\ state' = state
    BY Zenon, <1>21 DEF IrqSignal, cpuVars, tickVars, taskVars, tableVars
  <2>4. \A u \in Tasks : Kept(u) => Kept(u)'
    BY Zenon, <2>2, <2>3, KeptKeeps
  <2> QED BY Zenon, <2>3, <2>4
<1>22. ASSUME NEW c \in Cpus, TickSweep(c) PROVE ReadyInv'
  <2>1. \A u \in Tasks : Kept(u) => Kept(u)'
    BY Zenon, <1>22, KeptKeeps DEF TickSweep, cpuVars, tickVars
  <2>2. tasks' = tasks /\ \A u \in Tasks : state'[u] = "Ready" => state[u] = "Ready"
    BY Zenon, <1>22 DEF TickSweep, taskVars, tableVars
  <2> QED BY Zenon, <2>1, <2>2
<1>23. ASSUME NEW c \in Cpus, TickPreempt(c) PROVE ReadyInv'
  <2>1. \A u \in Tasks : Kept(u) => Kept(u)'
    BY Zenon, <1>23, KeptKeeps DEF TickPreempt, cpuVars, tickVars
  <2>2. tasks' = tasks /\ \A u \in Tasks : state'[u] = "Ready" => state[u] = "Ready"
    BY Zenon, <1>23 DEF TickPreempt, taskVars, tableVars
  <2> QED BY Zenon, <2>1, <2>2
<1>24. ASSUME NEW c \in Cpus, IdleWait(c) PROVE ReadyInv'
  <2>1. \A u \in Tasks : Kept(u) => Kept(u)'
    BY Zenon, <1>24, KeptKeeps DEF IdleWait, cpuVars, tickVars
  <2>2. tasks' = tasks /\ \A u \in Tasks : state'[u] = "Ready" => state[u] = "Ready"
    BY Zenon, <1>24 DEF IdleWait, taskVars, tableVars
  <2> QED BY Zenon, <2>1, <2>2
<1>25. CASE UNCHANGED vars
  <2>1. tasks' = tasks /\ state' = state /\ \A u \in Tasks : Kept(u) => Kept(u)'
    BY Zenon, <1>25, KeptKeeps DEF vars
  <2> QED BY Zenon, <2>1
<1> QED
  BY <1>1, <1>2, <1>3, <1>4, <1>5, <1>6, <1>7, <1>8, <1>9, <1>10, <1>11, <1>12, <1>13,
     <1>14, <1>15, <1>16, <1>17, <1>18, <1>19, <1>20, <1>21, <1>22, <1>23, <1>24, <1>25,
     NextCases
-----------------------------------------------------------------------------
(* The theorems for any number of CPUs.                                     *)

IInv ==
    /\ TypeOK /\ CpuInv /\ QueueInv /\ HeldInv /\ WakeCpuInv /\ TickInv /\ ClaimInv
    /\ RunningInv /\ BlockedInv /\ ReadyInv

LEMMA InitInv == Init => IInv
<1> SUFFICES ASSUME Init PROVE IInv
  BY Zenon
<1> USE SchedAssumption DEF Init
<1>1. \A t \in Tasks : Queued(t) <=> EntryIn(runs, t)
  BY Zenon DEF Queued, EntryIn
<1>2. TypeOK
  <2>1. waking \in [Contexts -> Wakes \cup {NoWake}]
    BY Zenon
  <2> QED BY Zenon, <2>1 DEF TypeOK, States, Places, Pcs
<1>3. CpuInv
  BY Zenon DEF CpuInv, Leaving, Contexts
<1>4. QueueInv
  <2>1. \A t \in Tasks : place[t] = "QUEUED" <=> EntryIn(runs, t)
    BY Zenon, <1>1
  <2>2. NoRepeats(runs)
    BY DEF NoRepeats
  <2> QED BY Zenon, <2>1, <2>2 DEF QueueInv
<1>5. HeldInv /\ WakeCpuInv /\ TickInv
  BY Zenon DEF HeldInv, WakeCpuInv, TickInv, NoWake, Claims
<1>6. ClaimInv
  BY Zenon DEF ClaimInv, Claims
<1>7. RunningInv /\ BlockedInv
  BY Zenon DEF RunningInv, BlockedInv
<1>8. ReadyInv
  BY Zenon, <1>1 DEF ReadyInv, Kept
<1> QED BY Zenon, <1>2, <1>3, <1>4, <1>5, <1>6, <1>7, <1>8 DEF IInv

LEMMA StepInv == IInv /\ [Next]_vars => IInv'
BY Zenon, TypeStep, CpuStep, QueueStep, HeldStep, WakeCpuStep, TickStep, ClaimStep, RunningStep,
   BlockedStep, ReadyStep
DEF IInv

\* A task that is not asleep is never lost, whatever the tasks and the CPUs do:
\* one that is Ready is queued or somebody is about to queue or run it, one
\* that is Blocked has a registration or a waker, one that is Running is on a
\* CPU (sched/mod.rs schedule, finish_switch, wake, on_tick).
AwakeAreKept == RunningInv /\ ReadyInv /\ BlockedInv

\* On any number of CPUs, every task that is not asleep is kept by a queue, a
\* CPU, a registration or a waker (sched/mod.rs schedule, wake, on_tick).
THEOREM AwakeTasksAreKept == Spec => []AwakeAreKept
<1>1. IInv => AwakeAreKept
  BY Zenon DEF IInv, AwakeAreKept
<1> QED BY <1>1, InitInv, StepInv, PTL DEF Spec

\* NoTaskLost, but for the Sleeping tasks, is what IInv says.
LEMMA LostOnlyAsleep ==
    ASSUME IInv,
           \A t \in tasks : state[t] = "Sleeping" =>
              \/ OnList(t)
              \/ \E c \in Cpus : t \in expired[c] \/ (cur[c] = t /\ pc[c] = "slept")
    PROVE  NoTaskLost
<1>1. TypeOK /\ tasks \subseteq Tasks /\ runs \in [Cpus -> Seq(Tasks)]
  BY Zenon DEF IInv, TypeOK
<1>2. \A c \in Cpus : DOMAIN runs[c] = 1 .. Len(runs[c])
  BY <1>1
<1>3. ASSUME NEW t \in tasks, state[t] = "Ready"
      PROVE  \/ \E c \in Cpus : t \in {runs[c][i] : i \in DOMAIN runs[c]} \cup due[c]
                                    \cup {next[c], prev[c], cur[c]}
             \/ \E x \in Contexts : waking[x].target = t /\ waking[x].step = "queue"
  BY <1>2, <1>3 DEF IInv, ReadyInv, Kept, EntryIn
<1> QED BY <1>1, <1>3 DEF NoTaskLost, IInv, RunningInv, BlockedInv

Awake == \A t \in Tasks : state[t] # "Sleeping"

LEMMA AwakeStep ==
    ASSUME "sleep" \notin Ops, TypeOK, Awake, [Next]_vars
    PROVE  Awake'
<1> USE DEF TypeOK, Awake
<1>1. ASSUME NEW c \in Cpus, Pick(c) PROVE Awake'
  BY Zenon, <1>1 DEF Pick, taskVars
<1>2. ASSUME NEW c \in Cpus, PickNothing(c) PROVE Awake'
  BY Zenon, <1>2 DEF PickNothing, taskVars
<1>3. ASSUME NEW c \in Cpus, Start(c) PROVE Awake'
  <2>1. CASE next[c] = cur[c]
    BY Zenon, <1>3, <2>1 DEF Start
  <2>2. CASE next[c] # cur[c]
    <3>1. state' = [u \in Tasks |->
                      IF u = next[c] THEN "Running"
                      ELSE IF u = cur[c] /\ state[u] = "Running" THEN "Ready"
                      ELSE state[u]]
      BY Zenon, <1>3, <2>2, StartSwitches DEF Switch
    <3> QED BY Zenon, <3>1
  <2> QED BY Zenon, <2>1, <2>2
<1>4. ASSUME NEW c \in Cpus, Finish(c) PROVE Awake'
  BY Zenon, <1>4 DEF Finish, taskVars
<1>5. ASSUME NEW c \in Cpus, FinishState(c) PROVE Awake'
  BY Zenon, <1>5 DEF FinishState, taskVars
<1>6. ASSUME NEW c \in Cpus, FinishQueue(c) PROVE Awake'
  BY Zenon, <1>6 DEF FinishQueue, taskVars
<1>7. ASSUME NEW c \in Cpus, SleepList(c) PROVE Awake'
  BY Zenon, <1>7 DEF SleepList, taskVars
<1>8. ASSUME NEW c \in Cpus, TickTable(c) PROVE Awake'
  BY Zenon, <1>8 DEF TickTable, taskVars
<1>9. ASSUME NEW c \in Cpus, TickQueue(c) PROVE Awake'
  BY Zenon, <1>9 DEF TickQueue, taskVars
<1>10. ASSUME NEW c \in Cpus, TickWoken(c) PROVE Awake'
  BY Zenon, <1>10 DEF TickWoken, taskVars
<1>11. ASSUME NEW c \in Cpus, WakeDone(c) PROVE Awake'
  BY Zenon, <1>11 DEF WakeDone, taskVars
<1>12. ASSUME NEW c \in Cpus, NEW x \in Contexts, MayWake(c, x), WakeTable(x, c) PROVE Awake'
  BY Zenon, <1>12 DEF WakeTable, taskVars
<1>13. ASSUME NEW c \in Cpus, NEW x \in Contexts, MayWake(c, x), WakeQueue(x, c) PROVE Awake'
  BY Zenon, <1>13 DEF WakeQueue, taskVars
<1>14. ASSUME NEW c \in Cpus, NEW t \in Tasks, Yield(c, t) PROVE Awake'
  BY Zenon, <1>14 DEF Yield, taskVars
<1>15. ASSUME NEW c \in Cpus, NEW t \in Tasks, Block(c, t) PROVE Awake'
  BY Zenon, <1>15 DEF Block, taskVars
<1>16. ASSUME NEW c \in Cpus, NEW t \in Tasks, Signal(c, t) PROVE Awake'
  BY Zenon, <1>16 DEF Signal, taskVars
<1>17. ASSUME NEW c \in Cpus, NEW t \in Tasks, Sleep(c, t) PROVE Awake'
  BY Zenon, <1>17 DEF Sleep, taskVars
<1>18. ASSUME NEW c \in Cpus, NEW t \in Tasks, Exit(c, t) PROVE Awake'
  BY Zenon, <1>18 DEF Exit, taskVars
<1>19. ASSUME NEW c \in Cpus, NEW t \in Tasks, TakeDead(c, t) PROVE Awake'
  BY Zenon, <1>19 DEF TakeDead, taskVars
<1>20. ASSUME NEW c \in Cpus, NEW t \in Tasks, Publish(c, t) PROVE Awake'
  BY Zenon, <1>20 DEF Publish, taskVars
<1>21. ASSUME NEW c \in Cpus, IrqSignal(c) PROVE Awake'
  BY Zenon, <1>21 DEF IrqSignal, taskVars
<1>22. ASSUME NEW c \in Cpus, TickSweep(c) PROVE Awake'
  BY Zenon, <1>22 DEF TickSweep, taskVars
<1>23. ASSUME NEW c \in Cpus, TickPreempt(c) PROVE Awake'
  BY Zenon, <1>23 DEF TickPreempt, taskVars
<1>24. ASSUME NEW c \in Cpus, IdleWait(c) PROVE Awake'
  BY Zenon, <1>24 DEF IdleWait, taskVars
<1>25. CASE UNCHANGED vars
  BY Zenon, <1>25 DEF vars, taskVars
<1> QED
  BY Zenon, <1>1, <1>2, <1>3, <1>4, <1>5, <1>6, <1>7, <1>8, <1>9, <1>10, <1>11, <1>12, <1>13,
     <1>14, <1>15, <1>16, <1>17, <1>18, <1>19, <1>20, <1>21, <1>22, <1>23, <1>24, <1>25,
     NextCases

\* No task is lost on any number of CPUs whose tasks do not sleep: what wake()
\* makes Ready is queued by it or by finish_switch, whichever comes second.
THEOREM NoTaskIsLost ==
    ASSUME "sleep" \notin Ops
    PROVE  Spec => []NoTaskLost
<1>1. Init => IInv /\ Awake
  BY Zenon, InitInv DEF Init, Awake
<1>2. IInv /\ Awake /\ [Next]_vars => IInv' /\ Awake'
  BY Zenon, StepInv, AwakeStep DEF IInv
<1>3. IInv /\ Awake => NoTaskLost
  BY Zenon, LostOnlyAsleep DEF Awake, IInv, TypeOK
<1> QED BY <1>1, <1>2, <1>3, PTL DEF Spec
-----------------------------------------------------------------------------
(* Where a task is.                                                         *)

\* What the places of a task are, one by one.
LEMMA PlaceLemma ==
    ASSUME NEW t \in Tasks, NEW p \in PlacesOf(t)
    PROVE  \/ \E c \in Cpus : p = <<"cpu", c, 1>> /\ Executing(c, t)
           \/ \E c \in Cpus : \E k \in DOMAIN runs[c] : p = <<"queue", c, k>> /\ runs[c][k] = t
           \/ \E c \in Cpus : \E k \in 1 .. sleepers[c][t] : p = <<"list", c, k>>
           \/ p = <<"reap", NoCpu, 1>> /\ t \in reap
<1> DEFINE OnCpus == {<<"cpu", c, 1>> : c \in {d \in Cpus : Executing(d, t)}}
           InQueues == UNION {{<<"queue", c, k>> : k \in {i \in DOMAIN runs[c] : runs[c][i] = t}} : c \in Cpus}
           OnLists == UNION {{<<"list", c, k>> : k \in 1 .. sleepers[c][t]} : c \in Cpus}
           InReap == IF t \in reap THEN {<<"reap", NoCpu, 1>>} ELSE {}
<1>0. p \in OnCpus \cup InQueues \cup OnLists \cup InReap
  BY Zenon DEF PlacesOf
<1>1. CASE p \in OnCpus
  BY <1>1
<1>2. CASE p \in InQueues
  <2>1. PICK c \in Cpus : p \in {<<"queue", c, k>> : k \in {i \in DOMAIN runs[c] : runs[c][i] = t}}
    BY <1>2
  <2>2. PICK k \in DOMAIN runs[c] : runs[c][k] = t /\ p = <<"queue", c, k>>
    BY <2>1
  <2> QED BY <2>2
<1>3. CASE p \in OnLists
  <2>1. PICK c \in Cpus : p \in {<<"list", c, k>> : k \in 1 .. sleepers[c][t]}
    BY <1>3
  <2>2. PICK k \in 1 .. sleepers[c][t] : p = <<"list", c, k>>
    BY <2>1
  <2> QED BY <2>2
<1>4. CASE p \in InReap
  BY <1>4
<1> HIDE DEF OnCpus, InQueues, OnLists, InReap
<1> QED BY <1>0, <1>1, <1>2, <1>3, <1>4

\* If two CPUs execute a task, or one executes it while it is queued, or it is
\* queued twice, report() has been called (task.rs Task::move_to and claim, the
\* compare-and-swap on the placement), for any number of CPUs and tasks.
THEOREM DoublePlacementIsNoticed == Spec => []DoublePlacementIsReported
<1>1. IInv => DoublePlacementIsReported
  <2> DEFINE On(t) == {p \in PlacesOf(t) : p[1] \in {"cpu", "queue"}}
  <2> SUFFICES ASSUME IInv, ~reported, NEW t \in Tasks
               PROVE  \A p, q \in On(t) : p = q
    BY DEF DoublePlacementIsReported
  <2>1. \A p \in On(t) :
          \/ \E c \in Cpus : p = <<"cpu", c, 1>> /\ cur[c] = t
          \/ \E c \in Cpus : \E k \in 1 .. Len(runs[c]) : p = <<"queue", c, k>> /\ runs[c][k] = t
    <3> SUFFICES ASSUME NEW p \in On(t)
                 PROVE  \/ \E c \in Cpus : p = <<"cpu", c, 1>> /\ cur[c] = t
                        \/ \E c \in Cpus : \E k \in 1 .. Len(runs[c]) :
                              p = <<"queue", c, k>> /\ runs[c][k] = t
      OBVIOUS
    <3>1. p \in PlacesOf(t) /\ p[1] \in {"cpu", "queue"}
      OBVIOUS
    <3>2. runs \in [Cpus -> Seq(Tasks)]
      BY DEF IInv, TypeOK
    <3>3. \A c \in Cpus : DOMAIN runs[c] = 1 .. Len(runs[c])
      BY <3>2
    <3> QED BY <3>1, <3>3, PlaceLemma DEF Executing
  <2>2. \A c, d \in Cpus : cur[c] = t /\ cur[d] = t => c = d
    BY DEF IInv, ClaimInv, Claims
  <2>3. \A c, d \in Cpus : \A i \in 1 .. Len(runs[c]), j \in 1 .. Len(runs[d]) :
          runs[c][i] = t /\ runs[d][j] = t => c = d /\ i = j
    BY DEF IInv, QueueInv, NoRepeats
  <2>4. ~((\E c \in Cpus : cur[c] = t) /\ EntryIn(runs, t))
    BY DEF IInv, ClaimInv, Claims, QueueInv
  <2>5. \A p, q \in On(t) : p = q
    <3> SUFFICES ASSUME NEW p \in On(t), NEW q \in On(t) PROVE p = q
      OBVIOUS
    <3> HIDE DEF On
    <3>1. CASE \E c \in Cpus : p = <<"cpu", c, 1>> /\ cur[c] = t
      BY <2>1, <2>2, <2>4, <3>1 DEF EntryIn
    <3>2. CASE \E c \in Cpus : \E k \in 1 .. Len(runs[c]) :
                  p = <<"queue", c, k>> /\ runs[c][k] = t
      BY <2>1, <2>3, <2>4, <3>2 DEF EntryIn
    <3> QED BY <2>1, <3>1, <3>2
  <2> QED BY <2>5
<1> QED BY <1>1, InitInv, StepInv, PTL DEF Spec

=============================================================================
