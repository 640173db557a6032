-------------------------- MODULE SchedUniProofs --------------------------
(***************************************************************************)
(* Theorems about the scheduler model on a machine with one CPU.            *)
(***************************************************************************)
EXTENDS SchedProofs

(* One CPU.  There the races of wake() with finish_switch() are gone, and    *)
(* the rule of one place at a time holds.                                    *)

OneCpu == \A c, d \in Cpus : c = d

\* A wake has made t Ready and is going to queue it.
Pending(x, t) == waking[x].step = "queue" /\ waking[x].target = t
Promised(t) == \E x \in Contexts : Pending(x, t)

CurOk(c, t) ==
    cur[c] = t =>
        /\ t \in tasks
        /\ Executing(c, t) => state[t] = "Running"
        /\ pc[c] = "slept" => state[t] = "Sleeping" /\ sleepers[c][t] = 0
        /\ pc[c] = "exit" => state[t] = "Dead"

PrevOk(c, t) ==
    prev[c] = t =>
        /\ t \in tasks
        /\ state[t] # "Running"
        /\ pc[c] # "finish" => place[t] = "NOWHERE"
        /\ pc[c] = "finishQueue" => state[t] = "Ready"

\* A task about to be queued or run is Ready, nowhere, and so only once.
Soon(c, t) == next[c] = t \/ t \in due[c] \/ Promised(t)

SoonOk(c, t) ==
    /\ Soon(c, t) \/ place[t] = "QUEUED" => state[t] = "Ready" /\ t \in tasks
    /\ Soon(c, t) => place[t] = "NOWHERE"
    /\ Promised(t) => next[c] # t /\ prev[c] # t /\ t \notin due[c]

SleepOk(c, t) ==
    /\ state[t] = "Sleeping" => t \in tasks
    /\ sleepers[c][t] > 0 \/ t \in expired[c] => state[t] = "Sleeping" \/ Promised(t)
    /\ sleepers[c][t] <= 1
    /\ sleepers[c][t] > 0 => t \notin expired[c]
    /\ state[t] = "Sleeping" =>
          \/ sleepers[c][t] > 0
          \/ t \in expired[c]
          \/ cur[c] = t /\ pc[c] = "slept"

\* Only one wake is about to queue it.
OnceOk(t) == \A x, y \in Contexts : Pending(x, t) /\ Pending(y, t) => x = y

ReapOk(t) == t \in reap => state[t] = "Dead" /\ t \in tasks

UniTask(c, t) ==
    CurOk(c, t) /\ PrevOk(c, t) /\ SoonOk(c, t) /\ OnceOk(t) /\ SleepOk(c, t) /\ ReapOk(t)

UniInv ==
    /\ ~reported
    /\ \A c \in Cpus : \A t \in Tasks : UniTask(c, t)

\* What IInv says of the only CPU.
Alone(c) ==
    /\ \A t \in Tasks : place[t] = "RUNNING" <=> Claims(c, t)
    /\ \A t \in Tasks : onCpu[t] \in {NoCpu, c}
    /\ \A t \in Tasks : onCpu[t] = c => Claims(c, t)
    /\ \A t \in Tasks : state[t] = "Running" => cur[c] = t
    /\ pc[c] \notin Leaving => prev[c] = NoTask
    /\ pc[c] \in Leaving => prev[c] # cur[c]
    /\ next[c] # NoTask <=> pc[c] = "start"
    /\ pc[c] # "tickTable" => expired[c] = {}
    /\ pc[c] # "tickQueue" => due[c] = {}
    /\ ~reported

LEMMA AloneLemma ==
    ASSUME OneCpu, IInv, UniInv, NEW c \in Cpus
    PROVE  Alone(c)
<1>1. \A t \in Tasks : place[t] = "RUNNING" <=> Claims(c, t)
  BY Zenon DEF OneCpu, IInv, UniInv, HeldInv, ClaimInv
<1>2. \A t \in Tasks : onCpu[t] \in {NoCpu, c} /\ (onCpu[t] = c => Claims(c, t))
  BY Zenon DEF OneCpu, IInv, TypeOK, HeldInv
<1>3. \A t \in Tasks : state[t] = "Running" => cur[c] = t
  BY Zenon DEF OneCpu, IInv, RunningInv
<1> QED BY Zenon, <1>1, <1>2, <1>3 DEF IInv, CpuInv, TickInv, Alone, UniInv

LEMMA EnqueueUni ==
    ASSUME OneCpu, IInv, UniInv, NEW c \in Cpus, NEW target \in Cpus, NEW t \in Tasks,
           place[t] = "NOWHERE", Enqueue(c, target, t)
    PROVE  place' = [place EXCEPT ![t] = "QUEUED"] /\ reported' = reported
<1>1. onCpu[t] \in {NoCpu, c}
  BY Zenon, AloneLemma DEF Alone
<1> QED BY Zenon, <1>1 DEF Enqueue

\* A new call of wake() has not promised anything yet.
LEMMA QuietWakes ==
    ASSUME NEW x \in Contexts, \A y \in Contexts : y # x => waking'[y] = waking[y],
           waking'[x] = waking[x] \/ (waking[x] = NoWake /\ waking'[x].step = "table")
    PROVE  \A u \in Tasks : (Promised(u)' <=> Promised(u)) /\ (OnceOk(u)' <=> OnceOk(u))
<1>1. NoWake.step # "queue"
  BY DEF NoWake
<1>2. \A y \in Contexts : waking'[y] = waking[y]
                       \/ (waking[y].step # "queue" /\ waking'[y].step # "queue")
  BY Zenon, <1>1
<1>3. \A u \in Tasks, y \in Contexts : Pending(y, u)' <=> Pending(y, u)
  BY Zenon, <1>2 DEF Pending
<1> QED BY Zenon, <1>3 DEF Promised, OnceOk

LEMMA UniStep ==
    ASSUME OneCpu, IInv, UniInv, [Next]_vars
    PROVE  UniInv'
<1> USE DEF IInv
<1>1. ASSUME NEW c \in Cpus, Pick(c) PROVE UniInv'
  <2>a. Alone(c)
    BY Zenon, AloneLemma
  <2>u. \A u \in Tasks : /\ CurOk(c, u) /\ PrevOk(c, u) /\ SoonOk(c, u)
                       /\ OnceOk(u) /\ SleepOk(c, u) /\ ReapOk(u)
    BY Zenon DEF UniInv, UniTask
  <2>t. /\ state \in [Tasks -> States] /\ place \in [Tasks -> Places]
        /\ sleepers[c] \in [Tasks -> Nat] /\ tasks \subseteq Tasks
        /\ NoTask \notin Tasks /\ Idle \notin Tasks /\ NoCpu # c
    BY Zenon, SchedAssumption DEF TypeOK
  <2>i. prev[c] = NoTask /\ next[c] = NoTask /\ due[c] = {} /\ expired[c] = {} /\ ~reported
    BY Zenon, <2>a, <1>1 DEF Alone, Leaving, Pick
  <2>b. ASSUME NEW from \in Cpus, NEW t \in Tasks, Dequeue(from, t)
        PROVE  /\ place[t] = "QUEUED"
               /\ place' = [place EXCEPT ![t] = "NOWHERE"]
               /\ reported' = reported
    BY Zenon, <2>b, DequeueLemma
  <2>0. /\ UNCHANGED <<state, tasks, reap, sleepers, cur, prev, expired, due, waking, reported>>
        /\ pc[c] = "pick"
        /\ \/ pc'[c] = "nothing" /\ UNCHANGED <<place, next>>
           \/ \E t \in Tasks : /\ place[t] = "QUEUED"
                             /\ place' = [place EXCEPT ![t] = "NOWHERE"]
                             /\ pc'[c] = "start" /\ next'[c] = t
    BY <1>1, <2>t, <2>b DEF TypeOK, Pick, Goto, taskVars, tableVars, cpuVars, tickVars
  <2>p. \A u \in Tasks : Promised(u)' <=> Promised(u)
    BY Zenon, <2>0 DEF Promised, Pending
  <2>1. \A u \in Tasks : CurOk(c, u)'
    BY Zenon, <2>u, <2>0, <2>b, <2>t DEF CurOk, Executing
  <2>2. \A u \in Tasks : PrevOk(c, u)'
    BY <2>u, <2>0, <2>i, <2>b, <2>t DEF PrevOk
  <2>3. \A u \in Tasks : SoonOk(c, u)'
    BY <2>u, <2>0, <2>p, <2>i, <2>b, <2>t DEF SoonOk, Soon
  <2>4. \A u \in Tasks : OnceOk(u)'
    BY Zenon, <2>u, <2>0 DEF OnceOk, Pending
  <2>5. \A u \in Tasks : SleepOk(c, u)'
    BY Zenon, <2>u, <2>0, <2>p, <2>i, <2>b, <2>t DEF SleepOk
  <2>6. \A u \in Tasks : ReapOk(u)'
    BY Zenon, <2>u, <2>0, <2>b, <2>t DEF ReapOk
  <2> QED BY <2>0, <2>i, <2>1, <2>2, <2>3, <2>4, <2>5, <2>6 DEF UniInv, UniTask, OneCpu
<1>2. ASSUME NEW c \in Cpus, PickNothing(c) PROVE UniInv'
  <2>a. Alone(c)
    BY Zenon, AloneLemma
  <2>u. \A u \in Tasks : /\ CurOk(c, u) /\ PrevOk(c, u) /\ SoonOk(c, u)
                       /\ OnceOk(u) /\ SleepOk(c, u) /\ ReapOk(u)
    BY Zenon DEF UniInv, UniTask
  <2>t. /\ state \in [Tasks -> States] /\ place \in [Tasks -> Places]
        /\ sleepers[c] \in [Tasks -> Nat] /\ tasks \subseteq Tasks
        /\ NoTask \notin Tasks /\ Idle \notin Tasks /\ NoCpu # c
    BY Zenon, SchedAssumption DEF TypeOK
  <2>i. prev[c] = NoTask /\ next[c] = NoTask /\ due[c] = {} /\ expired[c] = {} /\ ~reported
    BY Zenon, <2>a, <1>2 DEF Alone, Leaving, PickNothing
  <2>0. /\ UNCHANGED <<state, place, tasks, reap, sleepers, cur, prev, expired, due, waking, reported>>
        /\ pc[c] = "nothing"
        /\ \/ pc'[c] = "run" /\ UNCHANGED next /\ (cur[c] \in Tasks => state[cur[c]] = "Running")
           \/ pc'[c] = "start" /\ next'[c] = Idle
    BY <1>2, <2>t DEF TypeOK, PickNothing, Goto, taskVars, tableVars, cpuVars, tickVars
  <2>p. \A u \in Tasks : Promised(u)' <=> Promised(u)
    BY Zenon, <2>0 DEF Promised, Pending
  <2>1. \A u \in Tasks : CurOk(c, u)'
    BY Zenon, <2>u, <2>0, <2>t DEF CurOk, Executing
  <2>2. \A u \in Tasks : PrevOk(c, u)'
    BY Zenon, <2>u, <2>0, <2>i, <2>t DEF PrevOk
  <2>3. \A u \in Tasks : SoonOk(c, u)'
    BY <2>u, <2>0, <2>p, <2>i, <2>t DEF SoonOk, Soon
  <2>4. \A u \in Tasks : OnceOk(u)'
    BY Zenon, <2>u, <2>0 DEF OnceOk, Pending
  <2>5. \A u \in Tasks : SleepOk(c, u)'
    BY Zenon, <2>u, <2>0, <2>p, <2>i, <2>t DEF SleepOk
  <2>6. \A u \in Tasks : ReapOk(u)'
    BY Zenon, <2>u, <2>0, <2>t DEF ReapOk
  <2> QED BY <2>0, <2>i, <2>1, <2>2, <2>3, <2>4, <2>5, <2>6 DEF UniInv, UniTask, OneCpu
<1>3. ASSUME NEW c \in Cpus, Start(c) PROVE UniInv'
  <2>a. Alone(c)
    BY Zenon, AloneLemma
  <2>u. \A u \in Tasks : /\ CurOk(c, u) /\ PrevOk(c, u) /\ SoonOk(c, u)
                       /\ OnceOk(u) /\ SleepOk(c, u) /\ ReapOk(u)
    BY Zenon DEF UniInv, UniTask
  <2>t. /\ state \in [Tasks -> States] /\ place \in [Tasks -> Places]
        /\ sleepers[c] \in [Tasks -> Nat] /\ tasks \subseteq Tasks
        /\ NoTask \notin Tasks /\ Idle \notin Tasks /\ NoCpu # c
    BY Zenon, SchedAssumption DEF TypeOK
  <2>i. prev[c] = NoTask /\ due[c] = {} /\ expired[c] = {} /\ ~reported
    BY Zenon, <2>a, <1>3 DEF Alone, Leaving, Start
  <2>b. next[c] \in Tasks => /\ state[next[c]] = "Ready" /\ next[c] \in tasks
                           /\ place[next[c]] = "NOWHERE" /\ ~Promised(next[c])
                           /\ next[c] # cur[c] /\ onCpu[next[c]] \in {NoCpu, c}
    <3>1. next[c] \in Tasks => /\ state[next[c]] = "Ready" /\ next[c] \in tasks
                            /\ place[next[c]] = "NOWHERE" /\ ~Promised(next[c])
      BY Zenon, <2>u DEF SoonOk, Soon
    <3> QED BY Zenon, <3>1, <2>a DEF Alone, Claims
  <2>c. next[c] # cur[c] => Switch(c)
    BY Zenon, <1>3, StartSwitches
  <2>d. \A u \in Tasks : Promised(u) => cur[c] # u
    BY Zenon, <2>u, <2>a DEF SoonOk, Soon, Alone, Claims
  <2>0. /\ UNCHANGED <<tasks, reap, sleepers, expired, due, waking, reported>>
        /\ pc[c] = "start"
        /\ next'[c] = NoTask
        /\ \/ pc'[c] = "run" /\ UNCHANGED <<state, place, cur, prev>> /\ cur[c] \notin Tasks
           \/ /\ pc'[c] = "finish" /\ cur'[c] = next[c] /\ prev'[c] = cur[c] /\ next[c] # cur[c]
              /\ state' = [t \in Tasks |-> IF t = next[c] THEN "Running"
                                        ELSE IF t = cur[c] /\ state[t] = "Running" THEN "Ready"
                                        ELSE state[t]]
              /\ place' = [t \in Tasks |-> IF t = next[c] /\ place[t] = "NOWHERE" THEN "RUNNING"
                                        ELSE place[t]]
    BY <1>3, <2>t, <2>b, <2>c, <2>d
      DEF TypeOK, Start, Goto, taskVars, tableVars, cpuVars, tickVars, Switch
  <2>p. \A u \in Tasks : Promised(u)' <=> Promised(u)
    BY Zenon, <2>0 DEF Promised, Pending
  <2>1. \A u \in Tasks : CurOk(c, u)'
    BY <2>u, <2>0, <2>b, <2>c, <2>d, <2>t DEF CurOk, Executing
  <2>2. \A u \in Tasks : PrevOk(c, u)'
    BY <2>u, <2>0, <2>i, <2>b, <2>c, <2>d, <2>t DEF PrevOk, CurOk, Executing
  <2>3. \A u \in Tasks : SoonOk(c, u)'
    BY <2>u, <2>0, <2>b, <2>d, <2>p, <2>i, <2>t DEF SoonOk, Soon
  <2>4. \A u \in Tasks : OnceOk(u)'
    BY Zenon, <2>u, <2>0 DEF OnceOk, Pending
  <2>5. \A u \in Tasks : SleepOk(c, u)'
    BY <2>u, <2>0, <2>p, <2>i, <2>b, <2>c, <2>d, <2>t DEF SleepOk, SoonOk, Soon
  <2>6. \A u \in Tasks : ReapOk(u)'
    BY <2>u, <2>0, <2>b, <2>c, <2>d, <2>t DEF ReapOk
  <2> QED BY <2>0, <2>i, <2>1, <2>2, <2>3, <2>4, <2>5, <2>6 DEF UniInv, UniTask, OneCpu
<1>4. ASSUME NEW c \in Cpus, Finish(c) PROVE UniInv'
  <2>a. Alone(c)
    BY Zenon, AloneLemma
  <2>u. \A u \in Tasks : /\ CurOk(c, u) /\ PrevOk(c, u) /\ SoonOk(c, u)
                       /\ OnceOk(u) /\ SleepOk(c, u) /\ ReapOk(u)
    BY Zenon DEF UniInv, UniTask
  <2>t. /\ state \in [Tasks -> States] /\ place \in [Tasks -> Places]
        /\ sleepers[c] \in [Tasks -> Nat] /\ tasks \subseteq Tasks
        /\ NoTask \notin Tasks /\ Idle \notin Tasks /\ NoCpu # c
    BY Zenon, SchedAssumption DEF TypeOK
  <2>i. next[c] = NoTask /\ due[c] = {} /\ expired[c] = {} /\ ~reported
    BY Zenon, <2>a, <1>4 DEF Alone, Leaving, Finish
  <2>b. prev[c] \in Tasks => place[prev[c]] = "RUNNING"
    BY Zenon, <2>a, <1>4 DEF Alone, Claims, Finish
  <2>0. /\ UNCHANGED <<state, tasks, reap, sleepers, cur, prev, next, expired, due, waking, reported>>
        /\ pc[c] = "finish"
        /\ pc'[c] = "finishState"
        /\ place' = [t \in Tasks |-> IF t = prev[c] /\ place[t] = "RUNNING" THEN "NOWHERE" ELSE place[t]]
    BY Zenon, <1>4, <2>t, <2>b DEF TypeOK, Finish, Goto, taskVars, tableVars, cpuVars, tickVars
  <2>p. \A u \in Tasks : Promised(u)' <=> Promised(u)
    BY Zenon, <2>0 DEF Promised, Pending
  <2>1. \A u \in Tasks : CurOk(c, u)'
    BY Zenon, <2>u, <2>0, <2>b, <2>t DEF CurOk, Executing
  <2>2. \A u \in Tasks : PrevOk(c, u)'
    BY Zenon, <2>u, <2>0, <2>i, <2>b, <2>t DEF PrevOk
  <2>3. \A u \in Tasks : SoonOk(c, u)'
    BY Zenon, <2>u, <2>0, <2>p, <2>i, <2>b, <2>t DEF SoonOk, Soon
  <2>4. \A u \in Tasks : OnceOk(u)'
    BY Zenon, <2>u, <2>0 DEF OnceOk, Pending
  <2>5. \A u \in Tasks : SleepOk(c, u)'
    BY Zenon, <2>u, <2>0, <2>p, <2>i, <2>b, <2>t DEF SleepOk
  <2>6. \A u \in Tasks : ReapOk(u)'
    BY Zenon, <2>u, <2>0, <2>b, <2>t DEF ReapOk
  <2> QED BY <2>0, <2>i, <2>1, <2>2, <2>3, <2>4, <2>5, <2>6 DEF UniInv, UniTask, OneCpu
<1>5. ASSUME NEW c \in Cpus, FinishState(c) PROVE UniInv'
  <2>a. Alone(c)
    BY Zenon, AloneLemma
  <2>u. \A u \in Tasks : /\ CurOk(c, u) /\ PrevOk(c, u) /\ SoonOk(c, u)
                       /\ OnceOk(u) /\ SleepOk(c, u) /\ ReapOk(u)
    BY Zenon DEF UniInv, UniTask
  <2>t. /\ state \in [Tasks -> States] /\ place \in [Tasks -> Places]
        /\ sleepers[c] \in [Tasks -> Nat] /\ tasks \subseteq Tasks
        /\ NoTask \notin Tasks /\ Idle \notin Tasks /\ NoCpu # c
    BY Zenon, SchedAssumption DEF TypeOK
  <2>i. next[c] = NoTask /\ due[c] = {} /\ expired[c] = {} /\ ~reported
    BY Zenon, <2>a, <1>5 DEF Alone, Leaving, FinishState
  <2>0. /\ UNCHANGED <<state, place, tasks, reap, sleepers, cur, next, expired, due, waking, reported>>
        /\ pc[c] = "finishState"
        /\ \/ prev[c] \in Tasks /\ (state[prev[c]] = "Ready" \/ prev[c] \notin tasks)
              /\ pc'[c] = "finishQueue" /\ UNCHANGED prev
           \/ pc'[c] = "run" /\ prev'[c] = NoTask
    BY Zenon, <1>5, <2>t DEF TypeOK, FinishState, Goto, taskVars, tableVars, cpuVars, tickVars
  <2>p. \A u \in Tasks : Promised(u)' <=> Promised(u)
    BY Zenon, <2>0 DEF Promised, Pending
  <2>1. \A u \in Tasks : CurOk(c, u)'
    BY Zenon, <2>u, <2>0, <2>t DEF CurOk, Executing
  <2>2. \A u \in Tasks : PrevOk(c, u)'
    BY Zenon, <2>u, <2>0, <2>i, <2>t DEF PrevOk
  <2>3. \A u \in Tasks : SoonOk(c, u)'
    BY <2>u, <2>0, <2>p, <2>i, <2>t DEF SoonOk, Soon
  <2>4. \A u \in Tasks : OnceOk(u)'
    BY Zenon, <2>u, <2>0 DEF OnceOk, Pending
  <2>5. \A u \in Tasks : SleepOk(c, u)'
    BY Zenon, <2>u, <2>0, <2>p, <2>i, <2>t DEF SleepOk
  <2>6. \A u \in Tasks : ReapOk(u)'
    BY Zenon, <2>u, <2>0, <2>t DEF ReapOk
  <2> QED BY <2>0, <2>i, <2>1, <2>2, <2>3, <2>4, <2>5, <2>6 DEF UniInv, UniTask, OneCpu
<1>6. ASSUME NEW c \in Cpus, FinishQueue(c) PROVE UniInv'
  <2>a. Alone(c)
    BY Zenon, AloneLemma
  <2>u. \A u \in Tasks : /\ CurOk(c, u) /\ PrevOk(c, u) /\ SoonOk(c, u)
                       /\ OnceOk(u) /\ SleepOk(c, u) /\ ReapOk(u)
    BY Zenon DEF UniInv, UniTask
  <2>t. /\ state \in [Tasks -> States] /\ place \in [Tasks -> Places]
        /\ sleepers[c] \in [Tasks -> Nat] /\ tasks \subseteq Tasks
        /\ NoTask \notin Tasks /\ Idle \notin Tasks /\ NoCpu # c
    BY Zenon, SchedAssumption DEF TypeOK
  <2>i. next[c] = NoTask /\ due[c] = {} /\ expired[c] = {} /\ ~reported
    BY Zenon, <2>a, <1>6 DEF Alone, Leaving, FinishQueue
  <2>b. /\ prev[c] \in Tasks /\ state[prev[c]] = "Ready"
        /\ place[prev[c]] = "NOWHERE" /\ prev[c] \in tasks /\ ~Promised(prev[c])
        /\ pc[c] = "finishQueue"
    BY Zenon, <2>u, <1>6 DEF FinishQueue, CpuInv, PrevOk, SoonOk
  <2>c. place' = [place EXCEPT ![prev[c]] = "QUEUED"] /\ reported' = reported
    BY Zenon, <2>b, <1>6, EnqueueUni DEF FinishQueue
  <2>0. /\ UNCHANGED <<state, tasks, reap, sleepers, cur, next, expired, due, waking, reported>>
        /\ pc[c] = "finishQueue"
        /\ pc'[c] = "run"
        /\ place' = [place EXCEPT ![prev[c]] = "QUEUED"]
        /\ prev'[c] = NoTask
    BY Zenon, <1>6, <2>t, <2>b, <2>c DEF TypeOK, FinishQueue, Goto, taskVars, tableVars, cpuVars, tickVars
  <2>p. \A u \in Tasks : Promised(u)' <=> Promised(u)
    BY Zenon, <2>0 DEF Promised, Pending
  <2>1. \A u \in Tasks : CurOk(c, u)'
    BY Zenon, <2>u, <2>0, <2>b, <2>c, <2>t DEF CurOk, Executing
  <2>2. \A u \in Tasks : PrevOk(c, u)'
    BY Zenon, <2>u, <2>0, <2>i, <2>b, <2>c, <2>t DEF PrevOk
  <2>3. \A u \in Tasks : SoonOk(c, u)'
    BY <2>u, <2>0, <2>p, <2>i, <2>b, <2>c, <2>t DEF SoonOk, Soon
  <2>4. \A u \in Tasks : OnceOk(u)'
    BY Zenon, <2>u, <2>0 DEF OnceOk, Pending
  <2>5. \A u \in Tasks : SleepOk(c, u)'
    BY Zenon, <2>u, <2>0, <2>p, <2>i, <2>b, <2>c, <2>t DEF SleepOk
  <2>6. \A u \in Tasks : ReapOk(u)'
    BY Zenon, <2>u, <2>0, <2>b, <2>c, <2>t DEF ReapOk
  <2> QED BY <2>0, <2>i, <2>1, <2>2, <2>3, <2>4, <2>5, <2>6 DEF UniInv, UniTask, OneCpu
<1>7. ASSUME NEW c \in Cpus, SleepList(c) PROVE UniInv'
  <2>a. Alone(c)
    BY Zenon, AloneLemma
  <2>u. \A u \in Tasks : /\ CurOk(c, u) /\ PrevOk(c, u) /\ SoonOk(c, u)
                       /\ OnceOk(u) /\ SleepOk(c, u) /\ ReapOk(u)
    BY Zenon DEF UniInv, UniTask
  <2>t. /\ state \in [Tasks -> States] /\ place \in [Tasks -> Places]
        /\ sleepers[c] \in [Tasks -> Nat] /\ tasks \subseteq Tasks
        /\ NoTask \notin Tasks /\ Idle \notin Tasks /\ NoCpu # c
    BY Zenon, SchedAssumption DEF TypeOK
  <2>i. prev[c] = NoTask /\ next[c] = NoTask /\ due[c] = {} /\ expired[c] = {} /\ ~reported
    BY Zenon, <2>a, <1>7 DEF Alone, Leaving, SleepList
  <2>0. /\ UNCHANGED <<state, place, tasks, reap, cur, prev, next, expired, due, waking, reported>>
        /\ pc[c] = "slept"
        /\ pc'[c] = "pick"
        /\ sleepers'[c][cur[c]] = sleepers[c][cur[c]] + 1
        /\ \A u \in Tasks : u # cur[c] => sleepers'[c][u] = sleepers[c][u]
        /\ cur[c] \in Tasks
    BY Zenon, <1>7, <2>t DEF TypeOK, SleepList, Goto, taskVars, tableVars, cpuVars, tickVars, CpuInv
  <2>p. \A u \in Tasks : Promised(u)' <=> Promised(u)
    BY Zenon, <2>0 DEF Promised, Pending
  <2>1. \A u \in Tasks : CurOk(c, u)'
    BY Zenon, <2>u, <2>0, <2>t DEF CurOk, Executing
  <2>2. \A u \in Tasks : PrevOk(c, u)'
    BY Zenon, <2>u, <2>0, <2>i, <2>t DEF PrevOk
  <2>3. \A u \in Tasks : SoonOk(c, u)'
    BY Zenon, <2>u, <2>0, <2>p, <2>i, <2>t DEF SoonOk, Soon
  <2>4. \A u \in Tasks : OnceOk(u)'
    BY Zenon, <2>u, <2>0 DEF OnceOk, Pending
  <2>5. \A u \in Tasks : SleepOk(c, u)'
    <3>1. ASSUME NEW u \in Tasks, u # cur[c] PROVE SleepOk(c, u)'
      BY Zenon, <2>u, <2>0, <2>t, <2>p, <3>1 DEF SleepOk
    <3>2. ASSUME NEW u \in Tasks, u = cur[c] PROVE SleepOk(c, u)'
      <4>1. state[u] = "Sleeping" /\ sleepers[c][u] = 0 /\ u \in tasks /\ expired[c] = {}
        BY Zenon, <2>u, <2>i, <2>0, <3>2 DEF CurOk
      <4> QED BY <4>1, <2>0, <3>2 DEF SleepOk
    <3> QED BY Zenon, <3>1, <3>2
  <2>6. \A u \in Tasks : ReapOk(u)'
    BY Zenon, <2>u, <2>0, <2>t DEF ReapOk
  <2> QED BY <2>0, <2>i, <2>1, <2>2, <2>3, <2>4, <2>5, <2>6 DEF UniInv, UniTask, OneCpu
<1>8. ASSUME NEW c \in Cpus, TickTable(c) PROVE UniInv'
  <2>a. Alone(c)
    BY Zenon, AloneLemma
  <2>u. \A u \in Tasks : /\ CurOk(c, u) /\ PrevOk(c, u) /\ SoonOk(c, u)
                       /\ OnceOk(u) /\ SleepOk(c, u) /\ ReapOk(u)
    BY Zenon DEF UniInv, UniTask
  <2>t. /\ state \in [Tasks -> States] /\ place \in [Tasks -> Places]
        /\ sleepers[c] \in [Tasks -> Nat] /\ tasks \subseteq Tasks
        /\ NoTask \notin Tasks /\ Idle \notin Tasks /\ NoCpu # c
    BY Zenon, SchedAssumption DEF TypeOK
  <2>i. prev[c] = NoTask /\ next[c] = NoTask /\ due[c] = {} /\ ~reported
    BY Zenon, <2>a, <1>8 DEF Alone, Leaving, TickTable
  <2>b. \A u \in expired[c] \cap tasks : state[u] = "Sleeping" => onCpu[u] = NoCpu /\ place[u] = "NOWHERE"
    <3> SUFFICES ASSUME NEW u \in Tasks, state[u] = "Sleeping" PROVE onCpu[u] = NoCpu /\ place[u] = "NOWHERE"
      BY Zenon, <2>t
    <3>1. cur[c] # u /\ prev[c] # u
      BY Zenon, <2>u, <2>i, <2>t, <1>8 DEF CurOk, Executing, TickTable
    <3>2. place[u] # "QUEUED"
      BY Zenon, <2>u DEF SoonOk
    <3> QED BY Zenon, <3>1, <3>2, <2>a, <2>t DEF Alone, Claims, Places
  <2>0. /\ UNCHANGED <<place, tasks, reap, sleepers, cur, prev, next, waking, reported>>
        /\ pc[c] = "tickTable"
        /\ state' = [t \in Tasks |-> IF t \in expired[c] \cap tasks /\ state[t] = "Sleeping" THEN "Ready" ELSE state[t]]
        /\ expired'[c] = {}
        /\ due'[c] = {t \in expired[c] \cap tasks : state[t] = "Sleeping"}
        /\ pc'[c] \in {"run", "tickQueue"}
    BY Zenon, <1>8, <2>t, <2>b DEF TypeOK, TickTable, Goto, taskVars, tableVars, cpuVars, tickVars
  <2>p. \A u \in Tasks : Promised(u)' <=> Promised(u)
    BY Zenon, <2>0 DEF Promised, Pending
  <2>1. \A u \in Tasks : CurOk(c, u)'
    BY Zenon, <2>u, <2>0, <2>b, <2>t DEF CurOk, Executing
  <2>2. \A u \in Tasks : PrevOk(c, u)'
    BY Zenon, <2>u, <2>0, <2>i, <2>b, <2>t DEF PrevOk
  <2>3. \A u \in Tasks : SoonOk(c, u)'
    BY Zenon, <2>u, <2>0, <2>p, <2>i, <2>b, <2>t DEF SoonOk, Soon
  <2>4. \A u \in Tasks : OnceOk(u)'
    BY Zenon, <2>u, <2>0 DEF OnceOk, Pending
  <2>5. \A u \in Tasks : SleepOk(c, u)'
    BY Zenon, <2>u, <2>0, <2>p, <2>i, <2>b, <2>t DEF SleepOk
  <2>6. \A u \in Tasks : ReapOk(u)'
    BY Zenon, <2>u, <2>0, <2>b, <2>t DEF ReapOk
  <2> QED BY <2>0, <2>i, <2>1, <2>2, <2>3, <2>4, <2>5, <2>6 DEF UniInv, UniTask, OneCpu
<1>9. ASSUME NEW c \in Cpus, TickQueue(c) PROVE UniInv'
  <2>a. Alone(c)
    BY Zenon, AloneLemma
  <2>u. \A u \in Tasks : /\ CurOk(c, u) /\ PrevOk(c, u) /\ SoonOk(c, u)
                       /\ OnceOk(u) /\ SleepOk(c, u) /\ ReapOk(u)
    BY Zenon DEF UniInv, UniTask
  <2>t. /\ state \in [Tasks -> States] /\ place \in [Tasks -> Places]
        /\ sleepers[c] \in [Tasks -> Nat] /\ tasks \subseteq Tasks
        /\ NoTask \notin Tasks /\ Idle \notin Tasks /\ NoCpu # c
    BY Zenon, SchedAssumption DEF TypeOK
  <2>i. prev[c] = NoTask /\ next[c] = NoTask /\ expired[c] = {} /\ ~reported
    BY Zenon, <2>a, <1>9 DEF Alone, Leaving, TickQueue
  <2>b. \A u \in due[c] : /\ u \in Tasks /\ state[u] = "Ready" /\ place[u] = "NOWHERE"
                         /\ u \in tasks /\ ~Promised(u)
    BY Zenon, <2>u DEF SoonOk, Soon, TypeOK
  <2>c. PICK t \in due[c] : /\ Enqueue(c, c, t)
                          /\ due' = [due EXCEPT ![c] = @ \ {t}]
                          /\ Goto(c, IF due[c] = {t} THEN "tickWoken" ELSE "tickQueue")
    BY Zenon, <1>9 DEF TickQueue
  <2>d. place' = [place EXCEPT ![t] = "QUEUED"] /\ reported' = reported
    BY Zenon, <2>b, <2>c, EnqueueUni
  <2>0. /\ UNCHANGED <<state, tasks, reap, sleepers, cur, prev, next, expired, waking, reported>>
        /\ pc[c] = "tickQueue"
        /\ place' = [place EXCEPT ![t] = "QUEUED"]
        /\ due'[c] = due[c] \ {t}
        /\ pc'[c] \in {"tickWoken", "tickQueue"}
    BY <1>9, <2>t, <2>b, <2>c, <2>d
      DEF TypeOK, TickQueue, Goto, taskVars, tableVars, cpuVars, tickVars
  <2>p. \A u \in Tasks : Promised(u)' <=> Promised(u)
    BY Zenon, <2>0 DEF Promised, Pending
  <2>1. \A u \in Tasks : CurOk(c, u)'
    BY Zenon, <2>u, <2>0, <2>b, <2>c, <2>d, <2>t DEF CurOk, Executing
  <2>2. \A u \in Tasks : PrevOk(c, u)'
    BY <2>u, <2>0, <2>i, <2>b, <2>c, <2>d, <2>t DEF PrevOk
  <2>3. \A u \in Tasks : SoonOk(c, u)'
    BY <2>u, <2>0, <2>p, <2>i, <2>b, <2>c, <2>d, <2>t DEF SoonOk, Soon
  <2>4. \A u \in Tasks : OnceOk(u)'
    BY Zenon, <2>u, <2>0 DEF OnceOk, Pending
  <2>5. \A u \in Tasks : SleepOk(c, u)'
    BY <2>u, <2>0, <2>p, <2>i, <2>b, <2>c, <2>d, <2>t DEF SleepOk
  <2>6. \A u \in Tasks : ReapOk(u)'
    BY <2>u, <2>0, <2>b, <2>c, <2>d, <2>t DEF ReapOk
  <2> QED BY <2>0, <2>i, <2>1, <2>2, <2>3, <2>4, <2>5, <2>6 DEF UniInv, UniTask, OneCpu
<1>10. ASSUME NEW c \in Cpus, TickWoken(c) PROVE UniInv'
  <2>a. Alone(c)
    BY Zenon, AloneLemma
  <2>u. \A u \in Tasks : /\ CurOk(c, u) /\ PrevOk(c, u) /\ SoonOk(c, u)
                       /\ OnceOk(u) /\ SleepOk(c, u) /\ ReapOk(u)
    BY Zenon DEF UniInv, UniTask
  <2>t. /\ state \in [Tasks -> States] /\ place \in [Tasks -> Places]
        /\ sleepers[c] \in [Tasks -> Nat] /\ tasks \subseteq Tasks
        /\ NoTask \notin Tasks /\ Idle \notin Tasks /\ NoCpu # c
    BY Zenon, SchedAssumption DEF TypeOK
  <2>i. prev[c] = NoTask /\ next[c] = NoTask /\ due[c] = {} /\ expired[c] = {} /\ ~reported
    BY Zenon, <2>a, <1>10 DEF Alone, Leaving, TickWoken
  <2>0. /\ UNCHANGED <<state, place, tasks, reap, sleepers, cur, prev, next, expired, due, waking, reported>>
        /\ pc[c] = "tickWoken"
        /\ pc'[c] \in {"pick", "run"}
    BY Zenon, <1>10, <2>t DEF TypeOK, TickWoken, Goto, taskVars, tableVars, cpuVars, tickVars
  <2>p. \A u \in Tasks : Promised(u)' <=> Promised(u)
    BY Zenon, <2>0 DEF Promised, Pending
  <2>1. \A u \in Tasks : CurOk(c, u)'
    BY Zenon, <2>u, <2>0, <2>t DEF CurOk, Executing
  <2>2. \A u \in Tasks : PrevOk(c, u)'
    BY Zenon, <2>u, <2>0, <2>i, <2>t DEF PrevOk
  <2>3. \A u \in Tasks : SoonOk(c, u)'
    BY Zenon, <2>u, <2>0, <2>p, <2>i, <2>t DEF SoonOk, Soon
  <2>4. \A u \in Tasks : OnceOk(u)'
    BY Zenon, <2>u, <2>0 DEF OnceOk, Pending
  <2>5. \A u \in Tasks : SleepOk(c, u)'
    BY Zenon, <2>u, <2>0, <2>p, <2>i, <2>t DEF SleepOk
  <2>6. \A u \in Tasks : ReapOk(u)'
    BY Zenon, <2>u, <2>0, <2>t DEF ReapOk
  <2> QED BY <2>0, <2>i, <2>1, <2>2, <2>3, <2>4, <2>5, <2>6 DEF UniInv, UniTask, OneCpu
<1>11. ASSUME NEW c \in Cpus, WakeDone(c) PROVE UniInv'
  <2>a. Alone(c)
    BY Zenon, AloneLemma
  <2>u. \A u \in Tasks : /\ CurOk(c, u) /\ PrevOk(c, u) /\ SoonOk(c, u)
                       /\ OnceOk(u) /\ SleepOk(c, u) /\ ReapOk(u)
    BY Zenon DEF UniInv, UniTask
  <2>t. /\ state \in [Tasks -> States] /\ place \in [Tasks -> Places]
        /\ sleepers[c] \in [Tasks -> Nat] /\ tasks \subseteq Tasks
        /\ NoTask \notin Tasks /\ Idle \notin Tasks /\ NoCpu # c
    BY Zenon, SchedAssumption DEF TypeOK
  <2>i. prev[c] = NoTask /\ next[c] = NoTask /\ due[c] = {} /\ expired[c] = {} /\ ~reported
    BY Zenon, <2>a, <1>11 DEF Alone, Leaving, WakeDone
  <2>0. /\ UNCHANGED <<state, place, tasks, reap, sleepers, cur, prev, next, expired, due, waking, reported>>
        /\ \/ pc[c] = "irq" /\ pc'[c] = "run"
           \/ pc[c] = "exit" /\ pc'[c] = "pick"
    BY Zenon, <1>11, <2>t DEF TypeOK, WakeDone, Goto, taskVars, tableVars, cpuVars, tickVars
  <2>p. \A u \in Tasks : Promised(u)' <=> Promised(u)
    BY Zenon, <2>0 DEF Promised, Pending
  <2>1. \A u \in Tasks : CurOk(c, u)'
    BY Zenon, <2>u, <2>0, <2>t DEF CurOk, Executing
  <2>2. \A u \in Tasks : PrevOk(c, u)'
    BY Zenon, <2>u, <2>0, <2>i, <2>t DEF PrevOk
  <2>3. \A u \in Tasks : SoonOk(c, u)'
    BY Zenon, <2>u, <2>0, <2>p, <2>i, <2>t DEF SoonOk, Soon
  <2>4. \A u \in Tasks : OnceOk(u)'
    BY Zenon, <2>u, <2>0 DEF OnceOk, Pending
  <2>5. \A u \in Tasks : SleepOk(c, u)'
    BY <2>u, <2>0, <2>p, <2>i, <2>t DEF SleepOk
  <2>6. \A u \in Tasks : ReapOk(u)'
    BY Zenon, <2>u, <2>0, <2>t DEF ReapOk
  <2> QED BY <2>0, <2>i, <2>1, <2>2, <2>3, <2>4, <2>5, <2>6 DEF UniInv, UniTask, OneCpu
<1>12. ASSUME NEW c \in Cpus, NEW x \in Contexts, MayWake(c, x), WakeTable(x, c) PROVE UniInv'
  <2>a. Alone(c)
    BY Zenon, AloneLemma
  <2>u. \A u \in Tasks : /\ CurOk(c, u) /\ PrevOk(c, u) /\ SoonOk(c, u)
                       /\ OnceOk(u) /\ SleepOk(c, u) /\ ReapOk(u)
    BY Zenon DEF UniInv, UniTask
  <2>t. /\ state \in [Tasks -> States] /\ place \in [Tasks -> Places]
        /\ sleepers[c] \in [Tasks -> Nat] /\ tasks \subseteq Tasks
        /\ NoTask \notin Tasks /\ Idle \notin Tasks /\ NoCpu # c
    BY Zenon, SchedAssumption DEF TypeOK
  <2>i. prev[c] = NoTask /\ next[c] = NoTask /\ due[c] = {} /\ expired[c] = {} /\ ~reported
    BY Zenon, <2>a, <1>12 DEF Alone, Leaving, WakeTable, MayWake
  <2>b. PICK t \in Tasks : t = waking[x].target
    BY Zenon, <1>12, WakeType DEF WakeTable
  <2>c. t \in tasks /\ state[t] \in {"Blocked", "Sleeping"} => onCpu[t] = NoCpu /\ place[t] = "NOWHERE"
    <3> SUFFICES ASSUME state[t] \in {"Blocked", "Sleeping"} PROVE onCpu[t] = NoCpu /\ place[t] = "NOWHERE"
      BY Zenon
    <3>1. cur[c] # t /\ prev[c] # t
      BY Zenon, <2>u, <2>i, <2>t, <1>12 DEF CurOk, Executing, MayWake
    <3>2. place[t] # "QUEUED"
      BY Zenon, <2>u DEF SoonOk
    <3> QED BY Zenon, <3>1, <3>2, <2>a, <2>t DEF Alone, Claims, Places
  <2>0. /\ UNCHANGED <<place, tasks, reap, sleepers, cur, prev, next, expired, due, reported>>
        /\ pc' = pc /\ pc[c] \in {"run", "irq", "exit"}
        /\ waking[x].step = "table" /\ waking[x].target = t
        /\ \A y \in Contexts : y # x => waking'[y] = waking[y]
        /\ \/ state' = state /\ waking'[x] = NoWake
           \/ /\ t \in tasks /\ state[t] \in {"Blocked", "Sleeping"} /\ place[t] = "NOWHERE"
              /\ state' = [state EXCEPT ![t] = "Ready"]
              /\ waking'[x].step = "queue" /\ waking'[x].target = t
    BY <1>12, <2>t, <2>b, <2>c
      DEF TypeOK, WakeTable, Goto, taskVars, tableVars, cpuVars, tickVars, MayWake
  <2>p. /\ \A u \in Tasks : Promised(u) => Promised(u)'
        /\ \A u \in Tasks : u # t => (Promised(u)' => Promised(u))
        /\ Promised(t)' => Promised(t) \/ (state' = [state EXCEPT ![t] = "Ready"] /\ t \in tasks /\ place[t] = "NOWHERE")
        /\ state' # state => Promised(t)' /\ ~Promised(t)
    <3>1. \A u \in Tasks, y \in Contexts : y # x => (Pending(y, u)' <=> Pending(y, u))
      BY Zenon, <2>0 DEF Pending
    <3>2. \A u \in Tasks : ~Pending(x, u)
      BY Zenon, <2>0 DEF Pending
    <3>3. \A u \in Tasks : Pending(x, u)' => u = t /\ state' = [state EXCEPT ![t] = "Ready"] /\ t \in tasks /\ place[t] = "NOWHERE"
      BY <2>0 DEF Pending, NoWake
    <3>4. state' # state => Pending(x, t)' /\ state[t] # "Ready"
      BY Zenon, <2>0 DEF Pending
    <3>5. state' # state => ~Promised(t)
      BY Zenon, <3>4, <2>u DEF SoonOk, Soon
    <3>6. \A u \in Tasks : Promised(u) => Promised(u)'
      BY Zenon, <3>1, <3>2 DEF Promised
    <3>7. \A u \in Tasks : Promised(u)' => Promised(u) \/ Pending(x, u)'
      BY Zenon, <3>1 DEF Promised
    <3>8. Pending(x, t)' => Promised(t)'
      BY Zenon DEF Promised
    <3>9. \A u \in Tasks : u # t => (Promised(u)' => Promised(u))
      BY Zenon, <3>3, <3>7
    <3>10. Promised(t)' => Promised(t) \/ (state' = [state EXCEPT ![t] = "Ready"] /\ t \in tasks /\ place[t] = "NOWHERE")
      BY Zenon, <3>3, <3>7
    <3> QED BY <3>4, <3>5, <3>6, <3>8, <3>9, <3>10
  <2>1. \A u \in Tasks : CurOk(c, u)'
    BY <2>u, <2>0, <2>b, <2>c, <2>t DEF CurOk, Executing
  <2>2. \A u \in Tasks : PrevOk(c, u)'
    BY <2>u, <2>0, <2>i, <2>b, <2>c, <2>t DEF PrevOk
  <2>3. \A u \in Tasks : SoonOk(c, u)'
    BY <2>u, <2>0, <2>p, <2>i, <2>b, <2>c, <2>t DEF SoonOk, Soon
  <2>4. \A u \in Tasks : OnceOk(u)'
    <3>1. \A u \in Tasks, y \in Contexts : y # x => (Pending(y, u)' <=> Pending(y, u))
      BY Zenon, <2>0 DEF Pending
    <3>2. \A u \in Tasks : Pending(x, u)' => u = t /\ state[t] # "Ready"
      BY <2>0 DEF Pending, NoWake
    <3>3. \A u \in Tasks, y \in Contexts : Pending(y, u) => state[u] = "Ready"
      BY Zenon, <2>u DEF SoonOk, Soon, Promised
    <3> QED BY <3>1, <3>2, <3>3, <2>u DEF OnceOk
  <2>5. \A u \in Tasks : SleepOk(c, u)'
    BY Zenon, <2>u, <2>0, <2>p, <2>i, <2>b, <2>c, <2>t DEF SleepOk
  <2>6. \A u \in Tasks : ReapOk(u)'
    BY Zenon, <2>u, <2>0, <2>b, <2>c, <2>t DEF ReapOk
  <2> QED BY <2>0, <2>i, <2>1, <2>2, <2>3, <2>4, <2>5, <2>6 DEF UniInv, UniTask, OneCpu
<1>13. ASSUME NEW c \in Cpus, NEW x \in Contexts, MayWake(c, x), WakeQueue(x, c) PROVE UniInv'
  <2>a. Alone(c)
    BY Zenon, AloneLemma
  <2>u. \A u \in Tasks : /\ CurOk(c, u) /\ PrevOk(c, u) /\ SoonOk(c, u)
                       /\ OnceOk(u) /\ SleepOk(c, u) /\ ReapOk(u)
    BY Zenon DEF UniInv, UniTask
  <2>t. /\ state \in [Tasks -> States] /\ place \in [Tasks -> Places]
        /\ sleepers[c] \in [Tasks -> Nat] /\ tasks \subseteq Tasks
        /\ NoTask \notin Tasks /\ Idle \notin Tasks /\ NoCpu # c
    BY Zenon, SchedAssumption DEF TypeOK
  <2>i. prev[c] = NoTask /\ next[c] = NoTask /\ due[c] = {} /\ expired[c] = {} /\ ~reported
    BY Zenon, <2>a, <1>13 DEF Alone, Leaving, WakeQueue, MayWake
  <2>b. PICK t \in Tasks : t = waking[x].target /\ waking[x].cpu \in Cpus /\ waking[x].step = "queue"
    BY Zenon, <1>13, WakeType DEF WakeQueue
  <2>e. Pending(x, t) /\ Promised(t)
    BY Zenon, <2>b DEF Pending, Promised
  <2>c. /\ state[t] = "Ready" /\ place[t] = "NOWHERE" /\ t \in tasks
        /\ next[c] # t /\ prev[c] # t /\ t \notin due[c]
    BY Zenon, <2>e, <2>u DEF SoonOk, Soon
  <2>d. place' = [place EXCEPT ![t] = "QUEUED"] /\ reported' = reported
    BY Zenon, <2>b, <2>c, <1>13, EnqueueUni DEF WakeQueue
  <2>0. /\ UNCHANGED <<state, tasks, reap, cur, prev, next, expired, due, reported>>
        /\ sleepers'[c] = [sleepers[c] EXCEPT ![t] = 0]
        /\ place' = [place EXCEPT ![t] = "QUEUED"]
        /\ pc' = pc /\ pc[c] \in {"run", "irq", "exit"}
        /\ \A y \in Contexts : y # x => waking'[y] = waking[y]
        /\ waking'[x] = NoWake
    BY <1>13, <2>t, <2>b, <2>c, <2>d
      DEF TypeOK, WakeQueue, Goto, taskVars, tableVars, cpuVars, tickVars, MayWake
  <2>p. ~Promised(t)' /\ \A u \in Tasks : u # t => (Promised(u)' <=> Promised(u))
    <3>1. \A u \in Tasks, y \in Contexts : y # x => (Pending(y, u)' <=> Pending(y, u))
      BY Zenon, <2>0 DEF Pending
    <3>2. \A u \in Tasks : ~Pending(x, u)'
      BY <2>0 DEF Pending, NoWake
    <3>3. \A u \in Tasks : u # t => ~Pending(x, u)
      BY Zenon, <2>b DEF Pending
    <3>4. \A y \in Contexts : Pending(y, t) => y = x
      BY Zenon, <2>e, <2>u DEF OnceOk
    <3> QED BY Zenon, <3>1, <3>2, <3>3, <3>4 DEF Promised
  <2>1. \A u \in Tasks : CurOk(c, u)'
    BY Zenon, <2>u, <2>0, <2>b, <2>c, <2>d, <2>t DEF CurOk, Executing
  <2>2. \A u \in Tasks : PrevOk(c, u)'
    BY <2>u, <2>0, <2>i, <2>b, <2>c, <2>d, <2>t DEF PrevOk
  <2>3. \A u \in Tasks : SoonOk(c, u)'
    BY <2>u, <2>0, <2>p, <2>i, <2>b, <2>c, <2>d, <2>t DEF SoonOk, Soon
  <2>4. \A u \in Tasks : OnceOk(u)'
    <3>1. \A u \in Tasks, y \in Contexts : Pending(y, u)' => Pending(y, u)
      BY <2>0 DEF Pending, NoWake
    <3> QED BY Zenon, <3>1, <2>u DEF OnceOk
  <2>5. \A u \in Tasks : SleepOk(c, u)'
    <3>1. sleepers[c] \in [Tasks -> Nat] /\ ~(0 > 0) /\ 0 <= 1
      BY <2>t DEF TypeOK
    <3>2. sleepers'[c][t] = 0 /\ \A u \in Tasks : u # t => sleepers'[c][u] = sleepers[c][u]
      BY Zenon, <2>0, <3>1
    <3>3. t \notin expired[c] /\ pc[c] # "slept"
      BY <2>0, <2>i
    <3>4. SleepOk(c, t)'
      BY Zenon, <2>0, <2>c, <3>1, <3>2, <3>3 DEF SleepOk
    <3>5. \A u \in Tasks : u # t => SleepOk(c, u)'
      BY Zenon, <2>u, <2>0, <2>p, <3>2 DEF SleepOk
    <3> QED BY Zenon, <3>4, <3>5
  <2>6. \A u \in Tasks : ReapOk(u)'
    BY Zenon, <2>u, <2>0, <2>b, <2>c, <2>d, <2>t DEF ReapOk
  <2> QED BY <2>0, <2>i, <2>1, <2>2, <2>3, <2>4, <2>5, <2>6 DEF UniInv, UniTask, OneCpu
<1>14. ASSUME NEW c \in Cpus, NEW t \in Tasks, Yield(c, t) PROVE UniInv'
  <2>a. Alone(c)
    BY Zenon, AloneLemma
  <2>u. \A u \in Tasks : /\ CurOk(c, u) /\ PrevOk(c, u) /\ SoonOk(c, u)
                       /\ OnceOk(u) /\ SleepOk(c, u) /\ ReapOk(u)
    BY Zenon DEF UniInv, UniTask
  <2>t. /\ state \in [Tasks -> States] /\ place \in [Tasks -> Places]
        /\ sleepers[c] \in [Tasks -> Nat] /\ tasks \subseteq Tasks
        /\ NoTask \notin Tasks /\ Idle \notin Tasks /\ NoCpu # c
    BY Zenon, SchedAssumption DEF TypeOK
  <2>i. prev[c] = NoTask /\ next[c] = NoTask /\ due[c] = {} /\ expired[c] = {} /\ ~reported
    BY Zenon, <2>a, <1>14 DEF Alone, Leaving, Yield, Free
  <2>0. /\ UNCHANGED <<state, place, tasks, reap, sleepers, cur, prev, next, expired, due, waking, reported>>
        /\ pc[c] = "run"
        /\ pc'[c] = "pick"
    BY Zenon, <1>14, <2>t DEF TypeOK, Yield, Goto, taskVars, tableVars, cpuVars, tickVars, Free
  <2>p. \A u \in Tasks : Promised(u)' <=> Promised(u)
    BY Zenon, <2>0 DEF Promised, Pending
  <2>1. \A u \in Tasks : CurOk(c, u)'
    BY Zenon, <2>u, <2>0, <2>t DEF CurOk, Executing
  <2>2. \A u \in Tasks : PrevOk(c, u)'
    BY Zenon, <2>u, <2>0, <2>i, <2>t DEF PrevOk
  <2>3. \A u \in Tasks : SoonOk(c, u)'
    BY Zenon, <2>u, <2>0, <2>p, <2>i, <2>t DEF SoonOk, Soon
  <2>4. \A u \in Tasks : OnceOk(u)'
    BY Zenon, <2>u, <2>0 DEF OnceOk, Pending
  <2>5. \A u \in Tasks : SleepOk(c, u)'
    BY Zenon, <2>u, <2>0, <2>p, <2>i, <2>t DEF SleepOk
  <2>6. \A u \in Tasks : ReapOk(u)'
    BY Zenon, <2>u, <2>0, <2>t DEF ReapOk
  <2> QED BY <2>0, <2>i, <2>1, <2>2, <2>3, <2>4, <2>5, <2>6 DEF UniInv, UniTask, OneCpu
<1>15. ASSUME NEW c \in Cpus, NEW t \in Tasks, Block(c, t) PROVE UniInv'
  <2>a. Alone(c)
    BY Zenon, AloneLemma
  <2>u. \A u \in Tasks : /\ CurOk(c, u) /\ PrevOk(c, u) /\ SoonOk(c, u)
                       /\ OnceOk(u) /\ SleepOk(c, u) /\ ReapOk(u)
    BY Zenon DEF UniInv, UniTask
  <2>t. /\ state \in [Tasks -> States] /\ place \in [Tasks -> Places]
        /\ sleepers[c] \in [Tasks -> Nat] /\ tasks \subseteq Tasks
        /\ NoTask \notin Tasks /\ Idle \notin Tasks /\ NoCpu # c
    BY Zenon, SchedAssumption DEF TypeOK
  <2>i. prev[c] = NoTask /\ next[c] = NoTask /\ due[c] = {} /\ expired[c] = {} /\ ~reported
    BY Zenon, <2>a, <1>15 DEF Alone, Leaving, Block, Free
  <2>b. state[t] = "Running" /\ ~Promised(t) /\ sleepers[c][t] = 0 /\ t \in tasks
    <3>1. state[t] = "Running" /\ t \in tasks
      BY Zenon, <2>u, <1>15 DEF CurOk, Executing, Block, Free
    <3>2. ~Promised(t)
      BY Zenon, <2>u, <3>1 DEF SoonOk, Soon
    <3> QED BY <2>u, <2>t, <3>1, <3>2 DEF SleepOk
  <2>0. /\ UNCHANGED <<place, tasks, reap, sleepers, cur, prev, next, expired, due, waking, reported>>
        /\ pc[c] = "run" /\ cur[c] = t
        /\ pc'[c] = "pick"
        /\ state' = [state EXCEPT ![t] = "Blocked"]
    BY Zenon, <1>15, <2>t, <2>b DEF TypeOK, Block, Goto, taskVars, tableVars, cpuVars, tickVars, Free
  <2>p. \A u \in Tasks : Promised(u)' <=> Promised(u)
    BY Zenon, <2>0 DEF Promised, Pending
  <2>1. \A u \in Tasks : CurOk(c, u)'
    BY Zenon, <2>u, <2>0, <2>b, <2>t DEF CurOk, Executing
  <2>2. \A u \in Tasks : PrevOk(c, u)'
    BY Zenon, <2>u, <2>0, <2>i, <2>b, <2>t DEF PrevOk
  <2>3. \A u \in Tasks : SoonOk(c, u)'
    BY Zenon, <2>u, <2>0, <2>p, <2>i, <2>b, <2>t DEF SoonOk, Soon
  <2>4. \A u \in Tasks : OnceOk(u)'
    BY Zenon, <2>u, <2>0 DEF OnceOk, Pending
  <2>5. \A u \in Tasks : SleepOk(c, u)'
    BY Zenon, <2>u, <2>0, <2>p, <2>i, <2>b, <2>t DEF SleepOk
  <2>6. \A u \in Tasks : ReapOk(u)'
    BY Zenon, <2>u, <2>0, <2>b, <2>t DEF ReapOk
  <2> QED BY <2>0, <2>i, <2>1, <2>2, <2>3, <2>4, <2>5, <2>6 DEF UniInv, UniTask, OneCpu
<1>16. ASSUME NEW c \in Cpus, NEW t \in Tasks, Signal(c, t) PROVE UniInv'
  <2>a. Alone(c)
    BY Zenon, AloneLemma
  <2>u. \A u \in Tasks : /\ CurOk(c, u) /\ PrevOk(c, u) /\ SoonOk(c, u)
                       /\ OnceOk(u) /\ SleepOk(c, u) /\ ReapOk(u)
    BY Zenon DEF UniInv, UniTask
  <2>t. /\ state \in [Tasks -> States] /\ place \in [Tasks -> Places]
        /\ sleepers[c] \in [Tasks -> Nat] /\ tasks \subseteq Tasks
        /\ NoTask \notin Tasks /\ Idle \notin Tasks /\ NoCpu # c
    BY Zenon, SchedAssumption DEF TypeOK
  <2>i. prev[c] = NoTask /\ next[c] = NoTask /\ due[c] = {} /\ expired[c] = {} /\ ~reported
    BY Zenon, <2>a, <1>16 DEF Alone, Leaving, Signal, Free
  <2>0. /\ UNCHANGED <<state, place, tasks, reap, sleepers, cur, prev, next, expired, due, reported>>
        /\ pc[c] = "run" /\ cur[c] = t
        /\ \A y \in Contexts : y # t => waking'[y] = waking[y]
        /\ waking'[t] = waking[t] \/ (waking[t] = NoWake /\ waking'[t].step = "table")
        /\ pc' = pc
    BY <1>16, <2>t
      DEF TypeOK, Signal, Goto, taskVars, tableVars, cpuVars, tickVars, Free, CallWake, Contexts
  <2>p. \A u \in Tasks : (Promised(u)' <=> Promised(u)) /\ (OnceOk(u)' <=> OnceOk(u))
    <3>1. t \in Contexts
      BY Zenon DEF Contexts
    <3> QED BY Zenon, <2>0, <3>1, QuietWakes
  <2>1. \A u \in Tasks : CurOk(c, u)'
    BY Zenon, <2>u, <2>0, <2>t DEF CurOk, Executing
  <2>2. \A u \in Tasks : PrevOk(c, u)'
    BY Zenon, <2>u, <2>0, <2>i, <2>t DEF PrevOk
  <2>3. \A u \in Tasks : SoonOk(c, u)'
    BY <2>u, <2>0, <2>p, <2>i, <2>t DEF SoonOk, Soon
  <2>4. \A u \in Tasks : OnceOk(u)'
    BY Zenon, <2>u, <2>p
  <2>5. \A u \in Tasks : SleepOk(c, u)'
    BY Zenon, <2>u, <2>0, <2>p, <2>i, <2>t DEF SleepOk
  <2>6. \A u \in Tasks : ReapOk(u)'
    BY Zenon, <2>u, <2>0, <2>t DEF ReapOk
  <2> QED BY <2>0, <2>i, <2>1, <2>2, <2>3, <2>4, <2>5, <2>6 DEF UniInv, UniTask, OneCpu
<1>17. ASSUME NEW c \in Cpus, NEW t \in Tasks, Sleep(c, t) PROVE UniInv'
  <2>a. Alone(c)
    BY Zenon, AloneLemma
  <2>u. \A u \in Tasks : /\ CurOk(c, u) /\ PrevOk(c, u) /\ SoonOk(c, u)
                       /\ OnceOk(u) /\ SleepOk(c, u) /\ ReapOk(u)
    BY Zenon DEF UniInv, UniTask
  <2>t. /\ state \in [Tasks -> States] /\ place \in [Tasks -> Places]
        /\ sleepers[c] \in [Tasks -> Nat] /\ tasks \subseteq Tasks
        /\ NoTask \notin Tasks /\ Idle \notin Tasks /\ NoCpu # c
    BY Zenon, SchedAssumption DEF TypeOK
  <2>i. prev[c] = NoTask /\ next[c] = NoTask /\ due[c] = {} /\ expired[c] = {} /\ ~reported
    BY <2>a, <1>17 DEF Alone, Leaving, Sleep, Free
  <2>b. state[t] = "Running" /\ ~Promised(t) /\ sleepers[c][t] = 0 /\ t \in tasks
    <3>1. state[t] = "Running" /\ t \in tasks
      BY <2>u, <1>17 DEF CurOk, Executing, Sleep, Free
    <3>2. ~Promised(t)
      BY Zenon, <2>u, <3>1 DEF SoonOk, Soon
    <3> QED BY <2>u, <2>t, <3>1, <3>2 DEF SleepOk
  <2>0. /\ UNCHANGED <<place, tasks, reap, sleepers, cur, prev, next, expired, due, waking, reported>>
        /\ pc[c] = "run" /\ cur[c] = t
        /\ pc'[c] = "slept"
        /\ state' = [state EXCEPT ![t] = "Sleeping"]
    BY <1>17, <2>t, <2>b DEF TypeOK, Sleep, Goto, taskVars, tableVars, cpuVars, tickVars, Free
  <2>p. \A u \in Tasks : Promised(u)' <=> Promised(u)
    BY Zenon, <2>0 DEF Promised, Pending
  <2>1. \A u \in Tasks : CurOk(c, u)'
    BY Zenon, <2>u, <2>0, <2>b, <2>t DEF CurOk, Executing
  <2>2. \A u \in Tasks : PrevOk(c, u)'
    BY Zenon, <2>u, <2>0, <2>i, <2>b, <2>t DEF PrevOk
  <2>3. \A u \in Tasks : SoonOk(c, u)'
    BY Zenon, <2>u, <2>0, <2>p, <2>i, <2>b, <2>t DEF SoonOk, Soon
  <2>4. \A u \in Tasks : OnceOk(u)'
    BY Zenon, <2>u, <2>0 DEF OnceOk, Pending
  <2>5. \A u \in Tasks : SleepOk(c, u)'
    BY <2>u, <2>0, <2>p, <2>i, <2>b, <2>t DEF SleepOk
  <2>6. \A u \in Tasks : ReapOk(u)'
    BY Zenon, <2>u, <2>0, <2>b, <2>t DEF ReapOk
  <2> QED BY <2>0, <2>i, <2>1, <2>2, <2>3, <2>4, <2>5, <2>6 DEF UniInv, UniTask, OneCpu
<1>18. ASSUME NEW c \in Cpus, NEW t \in Tasks, Exit(c, t) PROVE UniInv'
  <2>a. Alone(c)
    BY Zenon, AloneLemma
  <2>u. \A u \in Tasks : /\ CurOk(c, u) /\ PrevOk(c, u) /\ SoonOk(c, u)
                       /\ OnceOk(u) /\ SleepOk(c, u) /\ ReapOk(u)
    BY Zenon DEF UniInv, UniTask
  <2>t. /\ state \in [Tasks -> States] /\ place \in [Tasks -> Places]
        /\ sleepers[c] \in [Tasks -> Nat] /\ tasks \subseteq Tasks
        /\ NoTask \notin Tasks /\ Idle \notin Tasks /\ NoCpu # c
    BY Zenon, SchedAssumption DEF TypeOK
  <2>i. prev[c] = NoTask /\ next[c] = NoTask /\ due[c] = {} /\ expired[c] = {} /\ ~reported
    BY <2>a, <1>18 DEF Alone, Leaving, Exit, Free
  <2>b. state[t] = "Running" /\ ~Promised(t) /\ sleepers[c][t] = 0 /\ t \in tasks
    <3>1. state[t] = "Running" /\ t \in tasks
      BY Zenon, <2>u, <1>18 DEF CurOk, Executing, Exit, Free
    <3>2. ~Promised(t)
      BY Zenon, <2>u, <3>1 DEF SoonOk, Soon
    <3> QED BY <2>u, <2>t, <3>1, <3>2 DEF SleepOk
  <2>c. waking[c] = NoWake
    BY Zenon, <1>18 DEF Exit, Free, CpuInv
  <2>0. /\ UNCHANGED <<place, tasks, sleepers, cur, prev, next, expired, due, reported>>
        /\ pc[c] = "run" /\ cur[c] = t
        /\ state' = [state EXCEPT ![t] = "Dead"]
        /\ reap' = reap \cup {t}
        /\ \A y \in Contexts : y # c => waking'[y] = waking[y]
        /\ waking'[c] = waking[c] \/ (waking[c] = NoWake /\ waking'[c].step = "table")
        /\ pc'[c] \in {"pick", "exit"}
    <3>1. /\ UNCHANGED <<place, tasks, sleepers, cur, prev, next, expired, due, reported>>
          /\ pc[c] = "run" /\ cur[c] = t
          /\ state' = [state EXCEPT ![t] = "Dead"]
          /\ reap' = reap \cup {t}
      BY Zenon, <1>18 DEF Exit, taskVars, tableVars, cpuVars, tickVars, Free
    <3>2. /\ \A y \in Contexts : y # c => waking'[y] = waking[y]
          /\ waking'[c] = waking[c] \/ (waking[c] = NoWake /\ waking'[c].step = "table")
      BY <1>18, <2>c DEF TypeOK, Exit, CallWake, Contexts
    <3>3. pc'[c] \in {"pick", "exit"}
      BY <1>18 DEF TypeOK, Exit, Goto
    <3> QED BY Zenon, <3>1, <3>2, <3>3
  <2>p. \A u \in Tasks : (Promised(u)' <=> Promised(u)) /\ (OnceOk(u)' <=> OnceOk(u))
    <3>1. c \in Contexts
      BY Zenon DEF Contexts
    <3> QED BY Zenon, <2>0, <3>1, QuietWakes
  <2>1. \A u \in Tasks : CurOk(c, u)'
    BY Zenon, <2>u, <2>0, <2>b, <2>c, <2>t DEF CurOk, Executing
  <2>2. \A u \in Tasks : PrevOk(c, u)'
    BY Zenon, <2>u, <2>0, <2>i, <2>b, <2>c, <2>t DEF PrevOk
  <2>3. \A u \in Tasks : SoonOk(c, u)'
    BY <2>u, <2>0, <2>p, <2>i, <2>b, <2>c, <2>t DEF SoonOk, Soon
  <2>4. \A u \in Tasks : OnceOk(u)'
    BY Zenon, <2>u, <2>p
  <2>5. \A u \in Tasks : SleepOk(c, u)'
    BY <2>u, <2>0, <2>p, <2>i, <2>b, <2>c, <2>t DEF SleepOk
  <2>6. \A u \in Tasks : ReapOk(u)'
    BY Zenon, <2>u, <2>0, <2>b, <2>c, <2>t DEF ReapOk
  <2> QED BY <2>0, <2>i, <2>1, <2>2, <2>3, <2>4, <2>5, <2>6 DEF UniInv, UniTask, OneCpu
<1>19. ASSUME NEW c \in Cpus, NEW t \in Tasks, TakeDead(c, t) PROVE UniInv'
  <2>a. Alone(c)
    BY Zenon, AloneLemma
  <2>u. \A u \in Tasks : /\ CurOk(c, u) /\ PrevOk(c, u) /\ SoonOk(c, u)
                       /\ OnceOk(u) /\ SleepOk(c, u) /\ ReapOk(u)
    BY Zenon DEF UniInv, UniTask
  <2>t. /\ state \in [Tasks -> States] /\ place \in [Tasks -> Places]
        /\ sleepers[c] \in [Tasks -> Nat] /\ tasks \subseteq Tasks
        /\ NoTask \notin Tasks /\ Idle \notin Tasks /\ NoCpu # c
    BY Zenon, SchedAssumption DEF TypeOK
  <2>i. prev[c] = NoTask /\ next[c] = NoTask /\ due[c] = {} /\ expired[c] = {} /\ ~reported
    BY Zenon, <2>a, <1>19 DEF Alone, Leaving, TakeDead, Free
  <2>0. /\ UNCHANGED <<state, place, sleepers, cur, prev, next, expired, due, waking, reported>>
        /\ pc[c] = "run" /\ cur[c] = t
        /\ pc' = pc
        /\ \E u \in reap : tasks' = tasks \ {u} /\ reap' = reap \ {u}
    BY Zenon, <1>19, <2>t DEF TypeOK, TakeDead, Goto, taskVars, tableVars, cpuVars, tickVars, Free
  <2>p. \A u \in Tasks : Promised(u)' <=> Promised(u)
    BY Zenon, <2>0 DEF Promised, Pending
  <2>1. \A u \in Tasks : CurOk(c, u)'
    BY Zenon, <2>u, <2>0, <2>t DEF CurOk, ReapOk, Executing
  <2>2. \A u \in Tasks : PrevOk(c, u)'
    BY Zenon, <2>u, <2>0, <2>i, <2>t DEF PrevOk
  <2>3. \A u \in Tasks : SoonOk(c, u)'
    BY Zenon, <2>u, <2>0, <2>p, <2>i, <2>t DEF SoonOk, ReapOk, Soon
  <2>4. \A u \in Tasks : OnceOk(u)'
    BY Zenon, <2>u, <2>0 DEF OnceOk, Pending
  <2>5. \A u \in Tasks : SleepOk(c, u)'
    BY Zenon, <2>u, <2>0, <2>p, <2>i, <2>t DEF SleepOk, ReapOk
  <2>6. \A u \in Tasks : ReapOk(u)'
    BY Zenon, <2>u, <2>0, <2>t DEF ReapOk
  <2> QED BY <2>0, <2>i, <2>1, <2>2, <2>3, <2>4, <2>5, <2>6 DEF UniInv, UniTask, OneCpu
<1>20. ASSUME NEW c \in Cpus, NEW t \in Tasks, Publish(c, t) PROVE UniInv'
  <2>a. Alone(c)
    BY Zenon, AloneLemma
  <2>u. \A u \in Tasks : /\ CurOk(c, u) /\ PrevOk(c, u) /\ SoonOk(c, u)
                       /\ OnceOk(u) /\ SleepOk(c, u) /\ ReapOk(u)
    BY Zenon DEF UniInv, UniTask
  <2>t. /\ state \in [Tasks -> States] /\ place \in [Tasks -> Places]
        /\ sleepers[c] \in [Tasks -> Nat] /\ tasks \subseteq Tasks
        /\ NoTask \notin Tasks /\ Idle \notin Tasks /\ NoCpu # c
    BY Zenon, SchedAssumption DEF TypeOK
  <2>i. prev[c] = NoTask /\ next[c] = NoTask /\ due[c] = {} /\ expired[c] = {} /\ ~reported
    BY Zenon, <2>a, <1>20 DEF Alone, Leaving, Publish, Free
  <2>b. PICK new \in Tasks \ tasks : /\ state[new] = "Ready" /\ place[new] = "NOWHERE"
                                   /\ tasks' = tasks \cup {new} /\ Enqueue(c, c, new)
    BY Zenon, <1>20 DEF Publish
  <2>c. place' = [place EXCEPT ![new] = "QUEUED"] /\ reported' = reported
    BY Zenon, <2>b, EnqueueUni
  <2>0. /\ UNCHANGED <<state, reap, sleepers, cur, prev, next, expired, due, waking, reported>>
        /\ pc[c] = "run" /\ cur[c] = t
        /\ tasks' = tasks \cup {new}
        /\ place' = [place EXCEPT ![new] = "QUEUED"]
        /\ pc' = pc
    BY <1>20, <2>t, <2>b, <2>c
      DEF TypeOK, Publish, Goto, taskVars, tableVars, cpuVars, tickVars, Free
  <2>p. \A u \in Tasks : Promised(u)' <=> Promised(u)
    BY Zenon, <2>0 DEF Promised, Pending
  <2>1. \A u \in Tasks : CurOk(c, u)'
    BY Zenon, <2>u, <2>0, <2>b, <2>c, <2>t DEF CurOk, Executing
  <2>2. \A u \in Tasks : PrevOk(c, u)'
    <3>1. prev'[c] = NoTask
      BY Zenon, <2>0, <2>i
    <3> QED BY Zenon, <2>t, <3>1 DEF PrevOk
  <2>3. \A u \in Tasks : SoonOk(c, u)'
    <3> SUFFICES ASSUME NEW u \in Tasks PROVE SoonOk(c, u)'
      BY Zenon
    <3>1. /\ SoonOk(c, u) /\ (Soon(c, u)' <=> Soon(c, u)) /\ (Promised(u)' <=> Promised(u))
          /\ state' = state /\ next' = next /\ prev' = prev /\ due' = due
          /\ tasks \subseteq tasks' /\ new \in tasks' /\ place' = [place EXCEPT ![new] = "QUEUED"]
      BY Zenon, <2>u, <2>0, <2>p DEF Soon
    <3>2. CASE u = new
      <4>1. ~Soon(c, u) /\ ~Promised(u)
        BY Zenon, <2>b, <3>1, <3>2 DEF SoonOk, Soon
      <4> QED BY Zenon, <2>b, <3>1, <3>2, <4>1 DEF SoonOk
    <3>3. CASE u # new
      <4>1. place'[u] = place[u]
        BY Zenon, <2>t, <3>1, <3>3
      <4> QED BY Zenon, <3>1, <4>1 DEF SoonOk
    <3> QED BY Zenon, <3>2, <3>3
  <2>4. \A u \in Tasks : OnceOk(u)'
    BY Zenon, <2>u, <2>0 DEF OnceOk, Pending
  <2>5. \A u \in Tasks : SleepOk(c, u)'
    BY <2>u, <2>0, <2>p, <2>i, <2>b, <2>c, <2>t DEF SleepOk
  <2>6. \A u \in Tasks : ReapOk(u)'
    BY Zenon, <2>u, <2>0, <2>b, <2>c, <2>t DEF ReapOk
  <2> QED BY <2>0, <2>i, <2>1, <2>2, <2>3, <2>4, <2>5, <2>6 DEF UniInv, UniTask, OneCpu
<1>21. ASSUME NEW c \in Cpus, IrqSignal(c) PROVE UniInv'
  <2>a. Alone(c)
    BY Zenon, AloneLemma
  <2>u. \A u \in Tasks : /\ CurOk(c, u) /\ PrevOk(c, u) /\ SoonOk(c, u)
                       /\ OnceOk(u) /\ SleepOk(c, u) /\ ReapOk(u)
    BY Zenon DEF UniInv, UniTask
  <2>t. /\ state \in [Tasks -> States] /\ place \in [Tasks -> Places]
        /\ sleepers[c] \in [Tasks -> Nat] /\ tasks \subseteq Tasks
        /\ NoTask \notin Tasks /\ Idle \notin Tasks /\ NoCpu # c
    BY Zenon, SchedAssumption DEF TypeOK
  <2>i. prev[c] = NoTask /\ next[c] = NoTask /\ due[c] = {} /\ expired[c] = {} /\ ~reported
    BY Zenon, <2>a, <1>21 DEF Alone, Leaving, IrqSignal
  <2>b. waking[c] = NoWake
    BY Zenon, <1>21 DEF IrqSignal, CpuInv
  <2>0. /\ UNCHANGED <<state, place, tasks, reap, sleepers, cur, prev, next, expired, due, reported>>
        /\ pc[c] = "run"
        /\ pc'[c] = "irq"
        /\ \A y \in Contexts : y # c => waking'[y] = waking[y]
        /\ waking'[c] = waking[c] \/ (waking[c] = NoWake /\ waking'[c].step = "table")
    BY <1>21, <2>t, <2>b
      DEF TypeOK, IrqSignal, Goto, taskVars, tableVars, cpuVars, tickVars, CallWake, Contexts
  <2>p. \A u \in Tasks : (Promised(u)' <=> Promised(u)) /\ (OnceOk(u)' <=> OnceOk(u))
    <3>1. c \in Contexts
      BY Zenon DEF Contexts
    <3> QED BY Zenon, <2>0, <3>1, QuietWakes
  <2>1. \A u \in Tasks : CurOk(c, u)'
    BY Zenon, <2>u, <2>0, <2>b, <2>t DEF CurOk, Executing
  <2>2. \A u \in Tasks : PrevOk(c, u)'
    BY Zenon, <2>u, <2>0, <2>i, <2>b, <2>t DEF PrevOk
  <2>3. \A u \in Tasks : SoonOk(c, u)'
    BY Zenon, <2>u, <2>0, <2>p, <2>i, <2>b, <2>t DEF SoonOk, Soon
  <2>4. \A u \in Tasks : OnceOk(u)'
    BY Zenon, <2>u, <2>p
  <2>5. \A u \in Tasks : SleepOk(c, u)'
    BY Zenon, <2>u, <2>0, <2>p, <2>i, <2>b, <2>t DEF SleepOk
  <2>6. \A u \in Tasks : ReapOk(u)'
    BY Zenon, <2>u, <2>0, <2>b, <2>t DEF ReapOk
  <2> QED BY <2>0, <2>i, <2>1, <2>2, <2>3, <2>4, <2>5, <2>6 DEF UniInv, UniTask, OneCpu
<1>22. ASSUME NEW c \in Cpus, TickSweep(c) PROVE UniInv'
  <2>a. Alone(c)
    BY Zenon, AloneLemma
  <2>u. \A u \in Tasks : /\ CurOk(c, u) /\ PrevOk(c, u) /\ SoonOk(c, u)
                       /\ OnceOk(u) /\ SleepOk(c, u) /\ ReapOk(u)
    BY Zenon DEF UniInv, UniTask
  <2>t. /\ state \in [Tasks -> States] /\ place \in [Tasks -> Places]
        /\ sleepers[c] \in [Tasks -> Nat] /\ tasks \subseteq Tasks
        /\ NoTask \notin Tasks /\ Idle \notin Tasks /\ NoCpu # c
    BY Zenon, SchedAssumption DEF TypeOK
  <2>i. prev[c] = NoTask /\ next[c] = NoTask /\ due[c] = {} /\ expired[c] = {} /\ ~reported
    BY Zenon, <2>a, <1>22 DEF Alone, Leaving, TickSweep
  <2>b. PICK left \in LeftOf(sleepers[c]) :
           /\ sleepers' = [sleepers EXCEPT ![c] = left]
           /\ expired' = [expired EXCEPT ![c] = {t \in Tasks : left[t] < sleepers[c][t]}]
    BY Zenon, <1>22 DEF TickSweep
  <2>c. left \in [Tasks -> Nat] /\ \A t \in Tasks : left[t] <= sleepers[c][t]
    BY Zenon, <2>t, LeftType
  <2>0. /\ UNCHANGED <<state, place, tasks, reap, cur, prev, next, due, waking, reported>>
        /\ pc[c] = "run"
        /\ pc'[c] = "tickTable"
        /\ sleepers'[c] = left
        /\ expired'[c] = {t \in Tasks : left[t] < sleepers[c][t]}
    BY <1>22, <2>t, <2>b, <2>c DEF TypeOK, TickSweep, Goto, taskVars, tableVars, cpuVars, tickVars
  <2>p. \A u \in Tasks : Promised(u)' <=> Promised(u)
    BY Zenon, <2>0 DEF Promised, Pending
  <2>1. \A u \in Tasks : CurOk(c, u)'
    BY Zenon, <2>u, <2>0, <2>b, <2>c, <2>t DEF CurOk, Executing
  <2>2. \A u \in Tasks : PrevOk(c, u)'
    BY Zenon, <2>u, <2>0, <2>i, <2>b, <2>c, <2>t DEF PrevOk
  <2>3. \A u \in Tasks : SoonOk(c, u)'
    BY Zenon, <2>u, <2>0, <2>p, <2>i, <2>b, <2>c, <2>t DEF SoonOk, Soon
  <2>4. \A u \in Tasks : OnceOk(u)'
    BY Zenon, <2>u, <2>0 DEF OnceOk, Pending
  <2>5. \A u \in Tasks : SleepOk(c, u)'
    <3> SUFFICES ASSUME NEW u \in Tasks PROVE SleepOk(c, u)'
      BY Zenon
    <3>1. left[u] \in Nat /\ sleepers[c][u] \in Nat /\ left[u] <= sleepers[c][u] /\ sleepers[c][u] <= 1
      BY Zenon, <2>c, <2>t, <2>u DEF SleepOk
    <3>2. sleepers'[c][u] = left[u] /\ (u \in expired'[c] <=> left[u] < sleepers[c][u])
      BY Zenon, <2>0
    <3>3. /\ left[u] <= 1 /\ (left[u] > 0 => ~(left[u] < sleepers[c][u]))
          /\ left[u] > 0 \/ left[u] < sleepers[c][u] => sleepers[c][u] > 0
          /\ sleepers[c][u] > 0 => left[u] > 0 \/ left[u] < sleepers[c][u]
      BY <3>1
    <3>4. SleepOk(c, u) /\ UNCHANGED <<state, tasks>>
      BY Zenon, <2>u, <2>0
    <3> QED BY <3>2, <3>3, <3>4, <2>p, <2>0, <2>i DEF SleepOk
  <2>6. \A u \in Tasks : ReapOk(u)'
    BY Zenon, <2>u, <2>0, <2>b, <2>c, <2>t DEF ReapOk
  <2> QED BY <2>0, <2>i, <2>1, <2>2, <2>3, <2>4, <2>5, <2>6 DEF UniInv, UniTask, OneCpu
<1>23. ASSUME NEW c \in Cpus, TickPreempt(c) PROVE UniInv'
  <2>a. Alone(c)
    BY Zenon, AloneLemma
  <2>u. \A u \in Tasks : /\ CurOk(c, u) /\ PrevOk(c, u) /\ SoonOk(c, u)
                       /\ OnceOk(u) /\ SleepOk(c, u) /\ ReapOk(u)
    BY Zenon DEF UniInv, UniTask
  <2>t. /\ state \in [Tasks -> States] /\ place \in [Tasks -> Places]
        /\ sleepers[c] \in [Tasks -> Nat] /\ tasks \subseteq Tasks
        /\ NoTask \notin Tasks /\ Idle \notin Tasks /\ NoCpu # c
    BY Zenon, SchedAssumption DEF TypeOK
  <2>i. prev[c] = NoTask /\ next[c] = NoTask /\ due[c] = {} /\ expired[c] = {} /\ ~reported
    BY Zenon, <2>a, <1>23 DEF Alone, Leaving, TickPreempt
  <2>0. /\ UNCHANGED <<state, place, tasks, reap, sleepers, cur, prev, next, expired, due, waking, reported>>
        /\ pc[c] = "run"
        /\ pc'[c] = "pick"
    BY Zenon, <1>23, <2>t DEF TypeOK, TickPreempt, Goto, taskVars, tableVars, cpuVars, tickVars
  <2>p. \A u \in Tasks : Promised(u)' <=> Promised(u)
    BY Zenon, <2>0 DEF Promised, Pending
  <2>1. \A u \in Tasks : CurOk(c, u)'
    BY Zenon, <2>u, <2>0, <2>t DEF CurOk, Executing
  <2>2. \A u \in Tasks : PrevOk(c, u)'
    BY Zenon, <2>u, <2>0, <2>i, <2>t DEF PrevOk
  <2>3. \A u \in Tasks : SoonOk(c, u)'
    BY Zenon, <2>u, <2>0, <2>p, <2>i, <2>t DEF SoonOk, Soon
  <2>4. \A u \in Tasks : OnceOk(u)'
    BY Zenon, <2>u, <2>0 DEF OnceOk, Pending
  <2>5. \A u \in Tasks : SleepOk(c, u)'
    BY Zenon, <2>u, <2>0, <2>p, <2>i, <2>t DEF SleepOk
  <2>6. \A u \in Tasks : ReapOk(u)'
    BY <2>u, <2>0, <2>t DEF ReapOk
  <2> QED BY <2>0, <2>i, <2>1, <2>2, <2>3, <2>4, <2>5, <2>6 DEF UniInv, UniTask, OneCpu
<1>24. ASSUME NEW c \in Cpus, IdleWait(c) PROVE UniInv'
  <2>a. Alone(c)
    BY Zenon, AloneLemma
  <2>u. \A u \in Tasks : /\ CurOk(c, u) /\ PrevOk(c, u) /\ SoonOk(c, u)
                       /\ OnceOk(u) /\ SleepOk(c, u) /\ ReapOk(u)
    BY Zenon DEF UniInv, UniTask
  <2>t. /\ state \in [Tasks -> States] /\ place \in [Tasks -> Places]
        /\ sleepers[c] \in [Tasks -> Nat] /\ tasks \subseteq Tasks
        /\ NoTask \notin Tasks /\ Idle \notin Tasks /\ NoCpu # c
    BY Zenon, SchedAssumption DEF TypeOK
  <2>i. prev[c] = NoTask /\ next[c] = NoTask /\ due[c] = {} /\ expired[c] = {} /\ ~reported
    BY Zenon, <2>a, <1>24 DEF Alone, Leaving, IdleWait
  <2>0. /\ UNCHANGED <<state, place, tasks, reap, sleepers, cur, prev, next, expired, due, waking, reported>>
        /\ pc[c] = "run"
        /\ pc'[c] = "pick"
    BY <1>24, <2>t DEF TypeOK, IdleWait, Goto, taskVars, tableVars, cpuVars, tickVars
  <2>p. \A u \in Tasks : Promised(u)' <=> Promised(u)
    BY Zenon, <2>0 DEF Promised, Pending
  <2>1. \A u \in Tasks : CurOk(c, u)'
    BY Zenon, <2>u, <2>0, <2>t DEF CurOk, Executing
  <2>2. \A u \in Tasks : PrevOk(c, u)'
    BY Zenon, <2>u, <2>0, <2>i, <2>t DEF PrevOk
  <2>3. \A u \in Tasks : SoonOk(c, u)'
    BY Zenon, <2>u, <2>0, <2>p, <2>i, <2>t DEF SoonOk, Soon
  <2>4. \A u \in Tasks : OnceOk(u)'
    BY Zenon, <2>u, <2>0 DEF OnceOk, Pending
  <2>5. \A u \in Tasks : SleepOk(c, u)'
    BY Zenon, <2>u, <2>0, <2>p, <2>i, <2>t DEF SleepOk
  <2>6. \A u \in Tasks : ReapOk(u)'
    BY Zenon, <2>u, <2>0, <2>t DEF ReapOk
  <2> QED BY Zenon, <2>0, <2>i, <2>1, <2>2, <2>3, <2>4, <2>5, <2>6 DEF UniInv, UniTask, OneCpu
<1>25. CASE UNCHANGED vars
  <2>1. \A t \in Tasks : Promised(t)' <=> Promised(t)
    BY Zenon, <1>25 DEF vars, Promised, Pending
  <2>2. \A c \in Cpus, t \in Tasks :
           CurOk(c, t)' <=> CurOk(c, t)
    BY <1>25 DEF vars, CurOk, Executing
  <2>3. \A c \in Cpus, t \in Tasks : (PrevOk(c, t)' <=> PrevOk(c, t)) /\ (ReapOk(t)' <=> ReapOk(t))
    BY Zenon, <1>25 DEF vars, PrevOk, ReapOk
  <2>4. \A c \in Cpus, t \in Tasks : SoonOk(c, t)' <=> SoonOk(c, t)
    BY <1>25, <2>1 DEF vars, SoonOk, Soon
  <2>5. \A c \in Cpus, t \in Tasks : SleepOk(c, t)' <=> SleepOk(c, t)
    BY <1>25, <2>1 DEF vars, SleepOk
  <2>6. \A t \in Tasks : OnceOk(t)' <=> OnceOk(t)
    BY Zenon, <1>25 DEF vars, OnceOk, Pending
  <2> QED BY <1>25, <2>2, <2>3, <2>4, <2>5, <2>6 DEF vars, UniInv, UniTask
<1> QED
  BY <1>1, <1>2, <1>3, <1>4, <1>5, <1>6, <1>7, <1>8, <1>9, <1>10, <1>11, <1>12, <1>13,
     <1>14, <1>15, <1>16, <1>17, <1>18, <1>19, <1>20, <1>21, <1>22, <1>23, <1>24, <1>25,
     NextCases

LEMMA UniInit == ASSUME Init PROVE UniInv
<1> SUFFICES ASSUME NEW c \in Cpus, NEW t \in Tasks PROVE ~reported /\ UniTask(c, t)
  BY Zenon DEF UniInv, Init
<1>1. /\ cur[c] # t /\ prev[c] # t /\ next[c] # t /\ due[c] = {} /\ expired[c] = {}
      /\ sleepers[c][t] = 0 /\ state[t] = "Ready" /\ t \notin reap /\ ~reported
  BY Zenon, SchedAssumption DEF Init
<1>2. \A x \in Contexts : ~Pending(x, t)
  BY Zenon DEF Init, Pending, NoWake
<1>3. place[t] = "QUEUED" => t \in tasks
  BY Zenon DEF Init
<1>4. ~Promised(t) /\ OnceOk(t)
  BY Zenon, <1>2 DEF Promised, OnceOk
<1>5. ~(0 > 0) /\ 0 <= 1
  OBVIOUS
<1>6. CurOk(c, t) /\ PrevOk(c, t) /\ SoonOk(c, t) /\ ReapOk(t)
  BY Zenon, <1>1, <1>3, <1>4 DEF CurOk, PrevOk, SoonOk, Soon, ReapOk
<1>7. SleepOk(c, t)
  BY Zenon, <1>1, <1>5 DEF SleepOk
<1> QED BY Zenon, <1>1, <1>4, <1>6, <1>7 DEF UniTask

\* On one CPU no task is lost either: the lock-free hand-overs of wake() and
\* finish_switch() cannot meet, and the entry of a sleeping task stays on the
\* list, or in the hands of on_tick, until it is woken (sched/mod.rs sleep_ms,
\* on_tick, unsleep).
THEOREM NoTaskIsLostAlone ==
    ASSUME OneCpu
    PROVE  Spec => []NoTaskLost
<1>1. Init => IInv /\ UniInv
  BY Zenon, InitInv, UniInit
<1>2. IInv /\ UniInv /\ [Next]_vars => IInv' /\ UniInv'
  BY Zenon, StepInv, UniStep
<1>3. IInv /\ UniInv => NoTaskLost
  <2> SUFFICES ASSUME IInv, UniInv, NEW t \in tasks, state[t] = "Sleeping"
               PROVE  \/ OnList(t)
                      \/ \E c \in Cpus : t \in expired[c] \/ (cur[c] = t /\ pc[c] = "slept")
    BY Zenon, LostOnlyAsleep
  <2>1. PICK c \in Cpus : TRUE
    BY Zenon, SchedAssumption
  <2>2. t \in Tasks
    BY Zenon DEF IInv, TypeOK
  <2>3. SleepOk(c, t)
    BY <2>2 DEF UniInv, UniTask
  <2> QED BY Zenon, <2>3 DEF SleepOk, OnList
<1> QED BY <1>1, <1>2, <1>3, PTL DEF Spec

\* On one CPU a task that exited, or was reaped, is neither executed nor queued
\* again (sched/mod.rs exit_current, finish_switch, take_dead).
THEOREM DeadStayOffAlone ==
    ASSUME OneCpu
    PROVE  Spec => []DeadStayOff
<1>1. Init => IInv /\ UniInv
  BY Zenon, InitInv, UniInit
<1>2. IInv /\ UniInv /\ [Next]_vars => IInv' /\ UniInv'
  BY Zenon, StepInv, UniStep
<1>3. IInv /\ UniInv => DeadStayOff
  <2> SUFFICES ASSUME IInv, UniInv, NEW t \in Tasks, state[t] = "Dead" \/ t \notin tasks,
                      NEW c \in Cpus
               PROVE  ~Executing(c, t) /\ \A i \in DOMAIN runs[c] : runs[c][i] # t
    BY Zenon DEF DeadStayOff
  <2>1. CurOk(c, t) /\ SoonOk(c, t)
    BY Zenon DEF UniInv, UniTask
  <2>2. ~Executing(c, t)
    BY Zenon, <2>1 DEF CurOk, Executing
  <2>3. place[t] # "QUEUED"
    BY Zenon, <2>1 DEF SoonOk
  <2>4. ~EntryIn(runs, t)
    BY Zenon, <2>3 DEF IInv, QueueInv
  <2>5. DOMAIN runs[c] = 1 .. Len(runs[c])
    BY DEF IInv, TypeOK
  <2> QED BY Zenon, <2>2, <2>4, <2>5 DEF EntryIn
<1> QED BY <1>1, <1>2, <1>3, PTL DEF Spec
\* On one CPU a task is in one place at a time: executed, or once in the run
\* queue, or once on the sleeper list, or once on the reap list (sched/mod.rs
\* enqueue_from, dequeue, sleep_ms, exit_current).
THEOREM OnePlaceAlone ==
    ASSUME OneCpu
    PROVE  Spec => []OnePlaceAtATime
<1>1. Init => IInv /\ UniInv
  BY InitInv, UniInit
<1>2. IInv /\ UniInv /\ [Next]_vars => IInv' /\ UniInv'
  BY StepInv, UniStep
<1>3. IInv /\ UniInv => OnePlaceAtATime
  <2> SUFFICES ASSUME IInv, UniInv, NEW t \in Tasks PROVE \A p, q \in PlacesOf(t) : p = q
    BY DEF OnePlaceAtATime
  <2>1. PICK c \in Cpus : \A d \in Cpus : d = c
    BY SchedAssumption DEF OneCpu
  <2>2. CurOk(c, t) /\ SoonOk(c, t) /\ SleepOk(c, t) /\ ReapOk(t)
    BY DEF UniInv, UniTask
  <2>3. DOMAIN runs[c] = 1 .. Len(runs[c]) /\ sleepers[c][t] \in Nat
    BY DEF IInv, TypeOK
  <2>4. Executing(c, t) => state[t] = "Running"
    BY <2>2 DEF CurOk, Executing
  <2>5. \A k \in 1 .. Len(runs[c]) : runs[c][k] = t => state[t] = "Ready" /\ place[t] = "QUEUED"
    BY <2>2 DEF IInv, QueueInv, EntryIn, SoonOk
  <2>6. \A k \in 1 .. sleepers[c][t] :
           k = 1 /\ (state[t] = "Sleeping" \/ (state[t] = "Ready" /\ place[t] = "NOWHERE"))
    <3>1. sleepers[c][t] \in {0, 1}
      BY <2>2, <2>3 DEF SleepOk
    <3>2. sleepers[c][t] > 0 => state[t] = "Sleeping" \/ (state[t] = "Ready" /\ place[t] = "NOWHERE")
      BY <2>2 DEF SleepOk, SoonOk, Soon
    <3> QED BY <3>1, <3>2
  <2>7. \A p \in PlacesOf(t) :
           \/ p = <<"cpu", c, 1>> /\ state[t] = "Running"
           \/ /\ \E k \in 1 .. Len(runs[c]) : p = <<"queue", c, k>> /\ runs[c][k] = t
              /\ state[t] = "Ready" /\ place[t] = "QUEUED"
           \/ /\ p = <<"list", c, 1>>
              /\ state[t] = "Sleeping" \/ (state[t] = "Ready" /\ place[t] = "NOWHERE")
           \/ p = <<"reap", NoCpu, 1>> /\ state[t] = "Dead"
    <3> SUFFICES ASSUME NEW p \in PlacesOf(t)
                 PROVE  \/ p = <<"cpu", c, 1>> /\ state[t] = "Running"
                        \/ /\ \E k \in 1 .. Len(runs[c]) : p = <<"queue", c, k>> /\ runs[c][k] = t
                           /\ state[t] = "Ready" /\ place[t] = "QUEUED"
                        \/ /\ p = <<"list", c, 1>>
                           /\ state[t] = "Sleeping" \/ (state[t] = "Ready" /\ place[t] = "NOWHERE")
                        \/ p = <<"reap", NoCpu, 1>> /\ state[t] = "Dead"
      OBVIOUS
    <3>1. CASE \E d \in Cpus : p = <<"cpu", d, 1>> /\ Executing(d, t)
      BY <2>1, <2>4, <3>1
    <3>2. CASE \E d \in Cpus : \E k \in DOMAIN runs[d] : p = <<"queue", d, k>> /\ runs[d][k] = t
      BY <2>1, <2>3, <2>5, <3>2
    <3>3. CASE \E d \in Cpus : \E k \in 1 .. sleepers[d][t] : p = <<"list", d, k>>
      BY <2>1, <2>6, <3>3
    <3>4. CASE p = <<"reap", NoCpu, 1>> /\ t \in reap
      BY <2>2, <3>4 DEF ReapOk
    <3> QED BY <3>1, <3>2, <3>3, <3>4, PlaceLemma
  <2>8. \A i, j \in 1 .. Len(runs[c]) : runs[c][i] = t /\ runs[c][j] = t => i = j
    BY DEF IInv, QueueInv, NoRepeats
  <2>9. \A p, q \in PlacesOf(t) : p = q
    BY <2>7, <2>8
  <2> QED BY <2>9
<1> QED BY <1>1, <1>2, <1>3, PTL DEF Spec
=============================================================================
