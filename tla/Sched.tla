------------------------------- MODULE Sched -------------------------------
(***************************************************************************)
(* The multi-CPU scheduler (kernel/src/sched/mod.rs, task.rs): per-CPU run  *)
(* queues with stealing, per-CPU sleeper lists, the shared task table and   *)
(* its reap list, and the handshake between schedule, finish_switch and     *)
(* wake that moves a task between them.                                      *)
(*                                                                         *)
(* Each CPU is a process whose steps are the pieces between two accesses    *)
(* that another CPU can get in between: a locked section, or an atomic       *)
(* read or compare-and-swap.  `pc[c]' is "run" while the CPU executes its    *)
(* current task with interrupts on; every other value is scheduler code     *)
(* with interrupts off.  Deadlines and quanta are abstracted: any entry of   *)
(* a sleeper list may be due at a tick, and any tick may end the quantum.    *)
(* A CPU's idle task is the value Idle: it is never queued and its own       *)
(* bookkeeping is read by nobody.                                            *)
(***************************************************************************)
EXTENDS Integers, Sequences

CONSTANTS Cpus,        \* the online CPUs
          Tasks,       \* every task that is not an idle task
          Supervisor,  \* the task exit_current wakes, or NoTask before it is set
          Boot,        \* tasks queued on some CPU when the model starts
          Ops,         \* which operations tasks perform in a run
          NoTask, NoCpu, Idle

ASSUME SchedAssumption ==
    /\ Cpus # {}
    /\ NoTask \notin Tasks /\ Idle \notin Tasks /\ Idle # NoTask /\ NoCpu \notin Cpus
    /\ Tasks \cap Cpus = {}
    /\ Supervisor \in Tasks \cup {NoTask}
    /\ Boot \in [Cpus -> Seq(Tasks)]
    /\ \A c, d \in Cpus : \A i \in 1 .. Len(Boot[c]), j \in 1 .. Len(Boot[d]) :
         Boot[c][i] = Boot[d][j] => c = d /\ i = j

VARIABLES state,      \* Task::state
          place,      \* Task::placement
          onCpu,      \* Task::on_cpu
          lastSeen,   \* Task::last_seen
          tasks,      \* keys of Scheduler::tasks
          reap,       \* Scheduler::reap
          runs,       \* RUNS: one queue per CPU
          sleepers,   \* PerCpu::sleepers: how many entries each task has
          cur,        \* PerCpu::current_task
          prev,       \* PerCpu::prev_task
          pc,         \* where each CPU is in the scheduler
          next,       \* schedule()'s choice, before it is started
          expired,    \* on_tick's stack array of tasks taken off the list
          due,        \* on_tick's stack array of tasks to queue
          waiting,    \* tasks registered with an endpoint or a notification
          waking,     \* wake() calls under way, by the context making them
          reported    \* report() has been called

taskVars == <<state, place, onCpu, lastSeen>>
tableVars == <<tasks, reap>>
cpuVars == <<cur, prev, next>>
tickVars == <<expired, due>>
vars == <<state, place, onCpu, lastSeen, tasks, reap, runs, sleepers, cur, prev, pc,
          next, expired, due, waiting, waking, reported>>

States == {"Ready", "Running", "Blocked", "Sleeping", "Dead"}
Places == {"NOWHERE", "QUEUED", "RUNNING"}
Pcs == {"run", "irq", "exit", "slept", "tickTable", "tickQueue", "tickWoken",
        "pick", "nothing", "start", "finish", "finishState", "finishQueue"}

\* A context that can be inside wake(): a task's own code, or interrupt or
\* exit code on a CPU.
Contexts == Tasks \cup Cpus
NoWake == [target |-> NoTask, cpu |-> NoCpu, step |-> "none"]
Wakes == [target : Tasks, cpu : Cpus \cup {NoCpu}, step : {"table", "queue"}]

\* The type invariant: what each variable may hold.
TypeOK ==
    /\ state \in [Tasks -> States]
    /\ place \in [Tasks -> Places]
    /\ onCpu \in [Tasks -> Cpus \cup {NoCpu}]
    /\ lastSeen \in [Tasks -> Cpus \cup {NoCpu}]
    /\ tasks \subseteq Tasks
    /\ reap \subseteq Tasks
    /\ runs \in [Cpus -> Seq(Tasks)]
    /\ sleepers \in [Cpus -> [Tasks -> Nat]]
    /\ cur \in [Cpus -> Tasks \cup {Idle}]
    /\ prev \in [Cpus -> Tasks \cup {Idle, NoTask}]
    /\ pc \in [Cpus -> Pcs]
    /\ next \in [Cpus -> Tasks \cup {Idle, NoTask}]
    /\ expired \in [Cpus -> SUBSET Tasks]
    /\ due \in [Cpus -> SUBSET Tasks]
    /\ waiting \subseteq Tasks
    /\ waking \in [Contexts -> Wakes \cup {NoWake}]
    /\ reported \in BOOLEAN

Queued(t) == \E c \in Cpus : \E k \in 1 .. Len(Boot[c]) : Boot[c][k] = t

Init ==
    /\ state = [t \in Tasks |-> "Ready"]
    /\ place = [t \in Tasks |-> IF Queued(t) THEN "QUEUED" ELSE "NOWHERE"]
    /\ onCpu = [t \in Tasks |-> NoCpu]
    /\ lastSeen = [t \in Tasks |-> NoCpu]
    /\ tasks = {t \in Tasks : Queued(t)}
    /\ reap = {}
    /\ runs = Boot
    /\ sleepers = [c \in Cpus |-> [t \in Tasks |-> 0]]
    /\ cur = [c \in Cpus |-> Idle]
    /\ prev = [c \in Cpus |-> NoTask]
    /\ pc = [c \in Cpus |-> "run"]
    /\ next = [c \in Cpus |-> NoTask]
    /\ expired = [c \in Cpus |-> {}]
    /\ due = [c \in Cpus |-> {}]
    /\ waiting = {}
    /\ waking = [x \in Contexts |-> NoWake]
    /\ reported = FALSE

Goto(c, label) == pc' = [pc EXCEPT ![c] = label]
-----------------------------------------------------------------------------
(* Moving a task between places.                                            *)

\* A bug to catch: queueing without the compare-and-swap on the placement.
EnqueueBlindly(c, target, t) ==
    /\ place' = [place EXCEPT ![t] = "QUEUED"]
    /\ runs' = [runs EXCEPT ![target] = Append(@, t)]
    /\ UNCHANGED reported

\* enqueue_from, run on CPU c for the queue of CPU target.
Enqueue(c, target, t) ==
    IF onCpu[t] \in {NoCpu, c} /\ place[t] = "NOWHERE"
    THEN /\ place' = [place EXCEPT ![t] = "QUEUED"]
         /\ runs' = [runs EXCEPT ![target] = Append(@, t)]
         /\ UNCHANGED reported
    ELSE /\ reported' = TRUE
         /\ UNCHANGED <<place, runs>>

\* A bug to catch: the newest task is taken, not the oldest.
DequeueNewest(c, t) ==
    /\ runs[c] # <<>>
    /\ t = runs[c][Len(runs[c])]
    /\ runs' = [runs EXCEPT ![c] = SubSeq(@, 1, Len(@) - 1)]
    /\ place' = [place EXCEPT ![t] = "NOWHERE"]
    /\ UNCHANGED reported

\* dequeue takes the front of a queue; a wrong placement is reported only.
Dequeue(c, t) ==
    /\ runs[c] # <<>>
    /\ t = Head(runs[c])
    /\ runs' = [runs EXCEPT ![c] = Tail(@)]
    /\ place' = [place EXCEPT ![t] = IF @ = "QUEUED" THEN "NOWHERE" ELSE @]
    /\ reported' = (reported \/ place[t] # "QUEUED")
-----------------------------------------------------------------------------
(* schedule() and finish_switch().                                          *)

\* The CPU looks for the next task: its own queue, else one stolen.  A steal
\* tries a bounded number of queues from a moving cursor, so it may come back
\* with nothing although a neighbour has work.
Pick(c) ==
    /\ pc[c] = "pick"
    /\ \/ /\ \E from \in Cpus, t \in Tasks :
               /\ from = c \/ runs[c] = <<>>
               /\ Dequeue(from, t)
               /\ next' = [next EXCEPT ![c] = t]
          /\ Goto(c, "start")
       \/ /\ runs[c] = <<>>
          /\ Goto(c, "nothing")
          /\ UNCHANGED <<runs, place, next, reported>>
    /\ UNCHANGED <<state, onCpu, lastSeen, tableVars, sleepers, cur, prev, tickVars, waiting,
                   waking>>

\* Nothing anywhere: stay with the current task if it is still Running.
PickNothing(c) ==
    /\ pc[c] = "nothing"
    /\ IF cur[c] = Idle \/ (cur[c] \in Tasks /\ state[cur[c]] = "Running")
       THEN Goto(c, "run") /\ UNCHANGED next
       ELSE Goto(c, "start") /\ next' = [next EXCEPT ![c] = Idle]
    /\ UNCHANGED <<taskVars, tableVars, runs, sleepers, cur, prev, tickVars, waiting, waking,
                   reported>>

\* Start the choice: the old task becomes Ready if it was still Running, the
\* new one is Running, placed and claimed, and the stacks are switched.
Start(c) ==
    /\ pc[c] = "start"
    /\ LET old == cur[c]
           new == next[c]
       IN  IF new = old
           THEN /\ Goto(c, "run")
                /\ UNCHANGED <<state, place, onCpu, lastSeen, cur, prev, reported>>
           ELSE /\ state' = [t \in Tasks |->
                               IF t = new THEN "Running"
                               ELSE IF t = old /\ state[t] = "Running" THEN "Ready"
                               ELSE state[t]]
                /\ place' = [t \in Tasks |->
                               IF t = new /\ place[t] = "NOWHERE" THEN "RUNNING" ELSE place[t]]
                /\ onCpu' = [t \in Tasks |-> IF t = new THEN c ELSE onCpu[t]]
                /\ lastSeen' = [t \in Tasks |-> IF t = new THEN c ELSE lastSeen[t]]
                /\ reported' = (reported \/ (new \in Tasks /\ (place[new] # "NOWHERE"
                                                \/ onCpu[new] \notin {NoCpu, c})))
                /\ prev' = [prev EXCEPT ![c] = old]
                /\ cur' = [cur EXCEPT ![c] = new]
                /\ Goto(c, "finish")
    /\ next' = [next EXCEPT ![c] = NoTask]
    /\ UNCHANGED <<tableVars, runs, sleepers, tickVars, waiting, waking>>

\* On the new stack: the old task is nowhere and off this CPU.
Finish(c) ==
    /\ pc[c] = "finish"
    /\ LET old == prev[c]
       IN  /\ place' = [t \in Tasks |->
                          IF t = old /\ place[t] = "RUNNING" THEN "NOWHERE" ELSE place[t]]
           /\ onCpu' = [t \in Tasks |-> IF t = old THEN NoCpu ELSE onCpu[t]]
           /\ reported' = (reported \/ (old \in Tasks /\ place[old] # "RUNNING"))
    /\ Goto(c, "finishState")
    /\ UNCHANGED <<state, lastSeen, tableVars, runs, sleepers, cpuVars, tickVars, waiting,
                   waking>>

\* A bug to catch: a task woken on its way out is left to its waker.
FinishStateLeave(c) ==
    /\ pc[c] = "finishState"
    /\ IF prev[c] \in Tasks /\ state[prev[c]] = "Ready" /\ lastSeen[prev[c]] # c
       THEN Goto(c, "finishQueue") /\ UNCHANGED prev
       ELSE Goto(c, "run") /\ prev' = [prev EXCEPT ![c] = NoTask]
    /\ UNCHANGED <<taskVars, tableVars, runs, sleepers, cur, next, tickVars, waiting, waking,
                   reported>>

\* A bug to catch: only a task that waits for something is not requeued.
FinishStateDead(c) ==
    /\ pc[c] = "finishState"
    /\ IF prev[c] \in Tasks /\ state[prev[c]] \in {"Ready", "Dead"}
       THEN Goto(c, "finishQueue") /\ UNCHANGED prev
       ELSE Goto(c, "run") /\ prev' = [prev EXCEPT ![c] = NoTask]
    /\ UNCHANGED <<taskVars, tableVars, runs, sleepers, cur, next, tickVars, waiting, waking,
                   reported>>

\* It is requeued if it is Ready: preempted, or woken before it had left.  A
\* task already reaped is freed memory, which may read as anything.
FinishState(c) ==
    /\ pc[c] = "finishState"
    /\ \/ /\ prev[c] \in Tasks
          /\ state[prev[c]] = "Ready" \/ prev[c] \notin tasks
          /\ Goto(c, "finishQueue")
          /\ UNCHANGED prev
       \/ /\ prev[c] \in tasks => state[prev[c]] # "Ready"
          /\ Goto(c, "run")
          /\ prev' = [prev EXCEPT ![c] = NoTask]
    /\ UNCHANGED <<taskVars, tableVars, runs, sleepers, cur, next, tickVars, waiting, waking,
                   reported>>

FinishQueue(c) ==
    /\ pc[c] = "finishQueue"
    /\ Enqueue(c, c, prev[c])
    /\ prev' = [prev EXCEPT ![c] = NoTask]
    /\ Goto(c, "run")
    /\ UNCHANGED <<state, onCpu, lastSeen, tableVars, sleepers, cur, next, tickVars, waiting,
                   waking>>
-----------------------------------------------------------------------------
(* wake(), made by context x on CPU c.                                      *)

\* A waker takes a registered task off its endpoint or notification; the
\* registration is gone from here on, so nobody else will wake it.
CallWake(x, t) == waking' = [waking EXCEPT ![x] = [target |-> t, cpu |-> NoCpu, step |-> "table"]]

\* A bug to catch: a task still on a CPU is not marked Ready.
WakeTableOffCpu(x, c) ==
    LET t == waking[x].target
        mine == t \in tasks /\ state[t] \in {"Blocked", "Sleeping"} /\ onCpu[t] = NoCpu
    IN  /\ waking[x].step = "table"
        /\ state' = [u \in Tasks |-> IF u = t /\ mine THEN "Ready" ELSE state[u]]
        /\ waking' = [waking EXCEPT ![x] =
                        IF mine
                        THEN [target |-> t, cpu |-> IF lastSeen[t] = NoCpu THEN c ELSE lastSeen[t],
                              step |-> "queue"]
                        ELSE NoWake]
        /\ UNCHANGED <<place, onCpu, lastSeen, tableVars, runs, sleepers, cpuVars, pc, tickVars,
                       waiting, reported>>

\* The section under the table lock: the task becomes Ready, and is the
\* waker's to queue only if it is on no CPU.
WakeTable(x, c) ==
    LET t == waking[x].target
        mine == t \in tasks /\ state[t] \in {"Blocked", "Sleeping"}
    IN  /\ waking[x].step = "table"
        /\ state' = [u \in Tasks |-> IF u = t /\ mine THEN "Ready" ELSE state[u]]
        /\ waking' = [waking EXCEPT ![x] =
                        IF mine /\ onCpu[t] = NoCpu
                        THEN [target |-> t, cpu |-> IF lastSeen[t] = NoCpu THEN c ELSE lastSeen[t],
                              step |-> "queue"]
                        ELSE NoWake]
        /\ UNCHANGED <<place, onCpu, lastSeen, tableVars, runs, sleepers, cpuVars, pc, tickVars,
                       waiting, reported>>

\* A bug to catch: the woken task's sleeper entry stays behind.
WakeQueueNoUnsleep(x, c) ==
    /\ waking[x].step = "queue"
    /\ Enqueue(c, waking[x].cpu, waking[x].target)
    /\ waking' = [waking EXCEPT ![x] = NoWake]
    /\ UNCHANGED <<state, onCpu, lastSeen, tableVars, sleepers, cpuVars, pc, tickVars, waiting>>

\* unsleep and enqueue_from.  The kick that follows only hurries the target
\* CPU, whose tick looks for work anyway.
WakeQueue(x, c) ==
    /\ waking[x].step = "queue"
    /\ sleepers' = [d \in Cpus |-> [sleepers[d] EXCEPT ![waking[x].target] = 0]]
    /\ Enqueue(c, waking[x].cpu, waking[x].target)
    /\ waking' = [waking EXCEPT ![x] = NoWake]
    /\ UNCHANGED <<state, onCpu, lastSeen, tableVars, cpuVars, pc, tickVars, waiting>>

\* A wake that a task makes goes on whenever that task is executing ...
OwnWake(c, t) ==
    /\ pc[c] = "run"
    /\ cur[c] = t
    /\ WakeTable(t, c) \/ WakeQueue(t, c)

\* ... and one made by interrupt or exit code is not interrupted.
CpuWake(c) ==
    /\ pc[c] \in {"irq", "exit"}
    /\ WakeTable(c, c) \/ WakeQueue(c, c)

\* The interrupt returns, or the exiting task goes on to schedule().
WakeDone(c) ==
    /\ pc[c] \in {"irq", "exit"}
    /\ waking[c] = NoWake
    /\ Goto(c, IF pc[c] = "irq" THEN "run" ELSE "pick")
    /\ UNCHANGED <<taskVars, tableVars, runs, sleepers, cpuVars, tickVars, waiting, waking,
                   reported>>
-----------------------------------------------------------------------------
(* What the current task does, outside a wake of its own.                   *)

Free(c, t) == pc[c] = "run" /\ cur[c] = t /\ waking[t] = NoWake

Yield(c, t) ==
    /\ "yield" \in Ops
    /\ Free(c, t)
    /\ Goto(c, "pick")
    /\ UNCHANGED <<taskVars, tableVars, runs, sleepers, cpuVars, tickVars, waiting, waking,
                   reported>>

\* A wait on an endpoint or notification: registered and marked blocked under
\* the object's lock, which is dropped before schedule().
Block(c, t) ==
    /\ "block" \in Ops
    /\ Free(c, t)
    /\ t # Supervisor
    /\ state' = [state EXCEPT ![t] = "Blocked"]
    /\ waiting' = waiting \cup {t}
    /\ Goto(c, "pick")
    /\ UNCHANGED <<place, onCpu, lastSeen, tableVars, runs, sleepers, cpuVars, tickVars, waking,
                   reported>>

\* A send or signal from a task: interrupts stay on, so the task may be
\* preempted in the middle of the wake.
Signal(c, t) ==
    /\ Free(c, t)
    /\ \E u \in waiting : CallWake(t, u) /\ waiting' = waiting \ {u}
    /\ UNCHANGED <<taskVars, tableVars, runs, sleepers, cpuVars, pc, tickVars, reported>>

\* A device interrupt that signals a notification.
IrqSignal(c) ==
    /\ "irq" \in Ops
    /\ pc[c] = "run"
    /\ \E u \in waiting : CallWake(c, u) /\ waiting' = waiting \ {u}
    /\ Goto(c, "irq")
    /\ UNCHANGED <<taskVars, tableVars, runs, sleepers, cpuVars, tickVars, reported>>

\* sleep_ms: first the state, under the table lock ...
Sleep(c, t) ==
    /\ "sleep" \in Ops
    /\ Free(c, t)
    /\ state' = [state EXCEPT ![t] = "Sleeping"]
    /\ Goto(c, "slept")
    /\ UNCHANGED <<place, onCpu, lastSeen, tableVars, runs, sleepers, cpuVars, tickVars, waiting,
                   waking, reported>>

\* ... then the entry on this CPU's list, then schedule().
SleepList(c) ==
    /\ pc[c] = "slept"
    /\ sleepers' = [sleepers EXCEPT ![c][cur[c]] = @ + 1]
    /\ Goto(c, "pick")
    /\ UNCHANGED <<taskVars, tableVars, runs, cpuVars, tickVars, waiting, waking, reported>>

\* exit_current; the supervisor never exits.
Exit(c, t) ==
    /\ "exit" \in Ops
    /\ Free(c, t)
    /\ t # Supervisor
    /\ state' = [state EXCEPT ![t] = "Dead"]
    /\ reap' = reap \cup {t}
    /\ IF Supervisor = NoTask
       THEN Goto(c, "pick") /\ UNCHANGED waking
       ELSE Goto(c, "exit") /\ CallWake(c, Supervisor)
    /\ UNCHANGED <<place, onCpu, lastSeen, tasks, runs, sleepers, cpuVars, tickVars, waiting,
                   reported>>

OnList(t) == \E c \in Cpus : sleepers[c][t] > 0

\* take_dead: only a task on no CPU, no run queue and no sleeper list.
TakeDead(c, t) ==
    /\ Free(c, t)
    /\ t = Supervisor
    /\ \E u \in reap \cap tasks :
         /\ onCpu[u] = NoCpu /\ place[u] # "QUEUED" /\ ~OnList(u)
         /\ reap' = reap \ {u}
         /\ tasks' = tasks \ {u}
    /\ UNCHANGED <<taskVars, runs, sleepers, cpuVars, pc, tickVars, waiting, waking, reported>>

\* publish_task of a task that never ran: table, then this CPU's queue.
Publish(c, t) ==
    /\ "spawn" \in Ops
    /\ Free(c, t)
    /\ \E u \in Tasks \ tasks :
         /\ state[u] = "Ready" /\ place[u] = "NOWHERE" /\ lastSeen[u] = NoCpu
         /\ tasks' = tasks \cup {u}
         /\ Enqueue(c, c, u)
    /\ UNCHANGED <<state, onCpu, lastSeen, reap, sleepers, cpuVars, pc, tickVars, waiting, waking>>
-----------------------------------------------------------------------------
(* The timer interrupt and the idle loop.                                   *)

\* What may be left of a list when some of its entries are taken off.
LeftOf(list) ==
    {left \in [Tasks -> UNION {0 .. list[t] : t \in Tasks}] : \A t \in Tasks : left[t] <= list[t]}

\* on_tick takes the entries that are due off this CPU's list.
TickSweep(c) ==
    /\ pc[c] = "run"
    /\ \E left \in LeftOf(sleepers[c]) \ {sleepers[c]} :
         /\ sleepers' = [sleepers EXCEPT ![c] = left]
         /\ expired' = [expired EXCEPT ![c] = {t \in Tasks : left[t] < sleepers[c][t]}]
    /\ Goto(c, "tickTable")
    /\ UNCHANGED <<taskVars, tableVars, runs, cpuVars, due, waiting, waking, reported>>

\* Under the table lock, those still Sleeping become Ready; one that is still
\* on a CPU is left to that CPU.
TickTable(c) ==
    /\ pc[c] = "tickTable"
    /\ LET asleep == {t \in expired[c] \cap tasks : state[t] = "Sleeping"}
           mine == {t \in asleep : onCpu[t] = NoCpu}
       IN  /\ state' = [t \in Tasks |-> IF t \in asleep THEN "Ready" ELSE state[t]]
           /\ due' = [due EXCEPT ![c] = mine]
           /\ Goto(c, IF mine = {} THEN "run" ELSE "tickQueue")
    /\ expired' = [expired EXCEPT ![c] = {}]
    /\ UNCHANGED <<place, onCpu, lastSeen, tableVars, runs, sleepers, cpuVars, waiting, waking,
                   reported>>

\* The due tasks are queued one by one.
TickQueue(c) ==
    /\ pc[c] = "tickQueue"
    /\ \E t \in due[c] :
         /\ Enqueue(c, c, t)
         /\ due' = [due EXCEPT ![c] = @ \ {t}]
         /\ Goto(c, IF due[c] = {t} THEN "tickWoken" ELSE "tickQueue")
    /\ UNCHANGED <<state, onCpu, lastSeen, tableVars, sleepers, cpuVars, expired, waiting, waking>>

\* A tick that woke somebody switches if the quantum is over or the CPU idle.
TickWoken(c) ==
    /\ pc[c] = "tickWoken"
    /\ Goto(c, "pick") \/ (cur[c] # Idle /\ Goto(c, "run"))
    /\ UNCHANGED <<taskVars, tableVars, runs, sleepers, cpuVars, tickVars, waiting, waking,
                   reported>>

\* A tick that ends the quantum with work in this CPU's queue.
TickPreempt(c) ==
    /\ pc[c] = "run"
    /\ runs[c] # <<>>
    /\ Goto(c, "pick")
    /\ UNCHANGED <<taskVars, tableVars, runs, sleepers, cpuVars, tickVars, waiting, waking,
                   reported>>

\* idle_wait: after any interrupt the idle loop looks for work itself.
IdleWait(c) ==
    /\ pc[c] = "run"
    /\ cur[c] = Idle
    /\ Goto(c, "pick")
    /\ UNCHANGED <<taskVars, tableVars, runs, sleepers, cpuVars, tickVars, waiting, waking,
                   reported>>
-----------------------------------------------------------------------------
TaskStep(c, t) ==
    \/ Yield(c, t)
    \/ Block(c, t)
    \/ Signal(c, t)
    \/ Sleep(c, t)
    \/ Exit(c, t)
    \/ TakeDead(c, t)
    \/ Publish(c, t)
    \/ OwnWake(c, t)

\* What a CPU does by itself once started, with interrupts off.
Inside(c) ==
    \/ Pick(c)
    \/ PickNothing(c)
    \/ Start(c)
    \/ Finish(c)
    \/ FinishState(c)
    \/ FinishQueue(c)
    \/ SleepList(c)
    \/ TickTable(c)
    \/ TickQueue(c)
    \/ TickWoken(c)
    \/ WakeDone(c)
    \/ CpuWake(c)

Next ==
    \E c \in Cpus :
        \/ Inside(c)
        \/ \E t \in Tasks : TaskStep(c, t)
        \/ IrqSignal(c)
        \/ TickSweep(c)
        \/ TickPreempt(c)
        \/ IdleWait(c)

Spec == Init /\ [][Next]_vars

\* A CPU inside the scheduler goes on; its timer keeps firing, so a quantum
\* ends, a deadline passes, and an idle CPU looks again.  A task switched in
\* has a whole quantum, so one that is inside wake() gets through it.
FairSpec ==
    /\ Spec
    /\ \A c \in Cpus, t \in Tasks : SF_vars(OwnWake(c, t))
    /\ \A c \in Cpus : /\ WF_vars(Inside(c))
                       /\ SF_vars(TickPreempt(c))
                       /\ SF_vars(TickSweep(c))
                       /\ WF_vars(IdleWait(c))
-----------------------------------------------------------------------------
(* Properties.                                                              *)

\* The current task of a CPU is executing there unless the CPU is on its way
\* out of it, between giving it up and the switch of stacks.
Executing(c, t) == cur[c] = t /\ pc[c] \notin {"slept", "exit", "pick", "nothing", "start"}

PlacesOf(t) ==
    {<<"cpu", c, 1>> : c \in {d \in Cpus : Executing(d, t)}}
    \cup (UNION {{<<"queue", c, k>> : k \in {i \in DOMAIN runs[c] : runs[c][i] = t}} : c \in Cpus})
    \cup (UNION {{<<"list", c, k>> : k \in 1 .. sleepers[c][t]} : c \in Cpus})
    \cup (IF t \in reap THEN {<<"reap", NoCpu, 1>>} ELSE {})

\* The rule everything else rests on (sched/mod.rs, module comment): a task is
\* running on exactly one CPU, or in exactly one run queue, or on one sleeper
\* list, or dead in the reap list, and never in two of those at once.
OnePlaceAtATime == \A t \in Tasks : \A p, q \in PlacesOf(t) : p = q

\* No task is lost: whatever its state says should happen to it next, some
\* queue, list, registration or CPU is still holding on to it to do that.
NoTaskLost ==
    /\ TypeOK
    /\ \A t \in tasks :
        /\ state[t] = "Running" => \E c \in Cpus : cur[c] = t
        /\ state[t] = "Ready" =>
              \/ \E c \in Cpus : t \in {runs[c][i] : i \in DOMAIN runs[c]} \cup due[c]
                                    \cup {next[c], prev[c], cur[c]}
              \/ \E x \in Contexts : waking[x].target = t /\ waking[x].step = "queue"
        /\ state[t] = "Sleeping" =>
              \/ OnList(t)
              \/ \E c \in Cpus : t \in expired[c] \/ (cur[c] = t /\ pc[c] = "slept")
        /\ state[t] = "Blocked" =>
              \/ t \in waiting
              \/ \E x \in Contexts : waking[x].target = t /\ waking[x].step = "table"

\* "dead task was scheduled" is unreachable (exit_current), and nothing the
\* supervisor has freed is still queued or running.
DeadStayOff ==
    \A t \in Tasks :
        state[t] = "Dead" \/ t \notin tasks =>
            \A c \in Cpus : ~Executing(c, t) /\ \A i \in DOMAIN runs[c] : runs[c][i] # t

\* Task::move_to: "a task that is ever in two places at once is caught at the
\* transition that made it happen": if two CPUs execute a task, or one executes
\* it while it is queued, report() has been called.
DoublePlacementIsReported ==
    \A t \in Tasks : \A p, q \in PlacesOf(t) :
        p # q /\ {p[1], q[1]} \subseteq {"cpu", "queue"} => reported

\* Round robin: a task that is ready to run is run.
ReadyTasksRun == \A t \in Tasks : (t \in tasks /\ state[t] = "Ready") ~> (state[t] # "Ready")
=============================================================================
