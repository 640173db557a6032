----------------------------- MODULE Supervisor -----------------------------
(***************************************************************************)
(* Services and their supervisor (kernel/src/service/mod.rs).  Three threads  *)
(* spawn: the boot thread starts what is registered, a system call registers   *)
(* and starts an image from disk, and the supervisor restarts what crashed.    *)
(* spawn() publishes the task first and records it in SERVICES afterwards,      *)
(* under another lock, so the task runs in between.  A task that exits stays    *)
(* on its CPU for a while before the supervisor may take it.                  *)
(***************************************************************************)
EXTENDS Integers, Sequences

CONSTANTS BUILTIN,      \* services registered before start_all()
          MAX_SERVICES,
          MAX_RESTARTS_BEFORE_BACKOFF,
          MAX_TASKS,    \* bound on the task ids of a behaviour
          NO_TASK

ASSUME SupervisorAssumption ==
    /\ MAX_SERVICES \in Nat /\ BUILTIN \in 1 .. MAX_SERVICES
    /\ MAX_RESTARTS_BEFORE_BACKOFF \in Nat
    /\ NO_TASK = 0

Spawners == {"boot", "call", "sup"}

VARIABLES services,  \* SERVICES: [task, restarts, last_exit]
          tasks,     \* the scheduler's table, by id: [service, state, code]
          next_id,   \* ids are never used twice
          reap,      \* the scheduler's reap list
          at,        \* where each spawner is
          idx, id,   \* the service and the task it is working on
          down,      \* services whose restart could not be built
          overtaken  \* services whose task was reaped before it was recorded

vars == <<services, tasks, next_id, reap, at, idx, id, down, overtaken>>

Fresh == [task |-> NO_TASK, restarts |-> 0, last_exit |-> "none"]

Ids == DOMAIN tasks

Init ==
    /\ services = [i \in 1 .. BUILTIN |-> Fresh]
    /\ tasks = <<>> /\ next_id = 1
    /\ reap = <<>>
    /\ at = [boot |-> "build", call |-> "idle", sup |-> "reap"]
    /\ idx = [boot |-> 1, call |-> 0, sup |-> 0]
    /\ id = [c \in Spawners |-> NO_TASK]
    /\ down = {} /\ overtaken = {}

Goto(c, label) == at' = [at EXCEPT ![c] = label]
-----------------------------------------------------------------------------
(* spawn                                                                    *)

\* spawn_from_image() registers its image; a full table refuses.
Register ==
    /\ at["call"] = "idle" /\ Len(services) < MAX_SERVICES
    /\ services' = Append(services, Fresh)
    /\ idx' = [idx EXCEPT !["call"] = Len(services) + 1]
    /\ Goto("call", "build")
    /\ UNCHANGED <<tasks, next_id, reap, id, down, overtaken>>

\* Where a spawner goes from here: the boot thread to the next service.
Done(c) ==
    LET more == c = "boot" /\ idx[c] < BUILTIN
    IN  /\ idx' = [idx EXCEPT ![c] = IF more THEN @ + 1 ELSE 0]
        /\ Goto(c, IF more THEN "build" ELSE IF c = "sup" THEN "reap" ELSE "idle")

\* The id is reserved and the task is built: address space, image, stack, heap,
\* boot information and the capabilities of the grants.
Build(c) ==
    /\ at[c] = "build" /\ next_id <= MAX_TASKS
    /\ id' = [id EXCEPT ![c] = next_id]
    /\ next_id' = next_id + 1
    /\ Goto(c, "publish")
    /\ UNCHANGED <<services, tasks, reap, idx, down, overtaken>>

\* Memory runs out or the image is bad: the caller only logs it.
BuildFails(c) ==
    /\ at[c] = "build" /\ next_id <= MAX_TASKS
    /\ next_id' = next_id + 1
    /\ down' = down \cup {idx[c]}
    /\ Done(c)
    /\ UNCHANGED <<services, tasks, reap, id, overtaken>>

Publish(c) ==
    /\ at[c] = "publish"
    /\ tasks' = [t \in Ids \cup {id[c]} |->
                    IF t = id[c] THEN [service |-> idx[c], state |-> "live", code |-> "none"]
                    ELSE tasks[t]]
    /\ Goto(c, "record")
    /\ UNCHANGED <<services, next_id, reap, idx, id, down, overtaken>>

Record(c) ==
    /\ at[c] = "record"
    /\ services' = [services EXCEPT ![idx[c]].task = id[c]]
    /\ id' = [id EXCEPT ![c] = NO_TASK]
    /\ Done(c)
    /\ UNCHANGED <<tasks, next_id, reap, down, overtaken>>
-----------------------------------------------------------------------------
(* Tasks                                                                    *)

\* exit_current(): a clean exit, an error code, or a fault turned into a code.
\* It wakes the supervisor, which Awake allows at any time.
Exit(t, code) ==
    /\ tasks[t].state = "live"
    /\ tasks' = [tasks EXCEPT ![t].state = "exiting", ![t].code = code]
    /\ reap' = Append(reap, t)
    /\ UNCHANGED <<services, next_id, at, idx, id, down, overtaken>>

\* The dead task is switched away from.
OffCpu(t) ==
    /\ tasks[t].state = "exiting"
    /\ tasks' = [tasks EXCEPT ![t].state = "dead"]
    /\ UNCHANGED <<services, next_id, reap, at, idx, id, down, overtaken>>
-----------------------------------------------------------------------------
(* The supervisor                                                           *)

\* take_dead(): the first task of the list that is off its CPU.
Takeable(k) ==
    /\ tasks[reap[k]].state = "dead"
    /\ \A j \in 1 .. k - 1 : tasks[reap[j]].state # "dead"

\* A bug to catch: the record of a service that finished keeps its task.
AccountLeaving(i, code) ==
    IF code = "clean" THEN [services EXCEPT ![i].last_exit = code]
    ELSE [services EXCEPT ![i].task = NO_TASK, ![i].last_exit = code,
                          ![i].restarts = @ + 1]

Account(i, code) ==
    [services EXCEPT ![i] = [task |-> NO_TASK, last_exit |-> code,
                             restarts |-> IF code = "clean" THEN @.restarts ELSE @.restarts + 1]]

\* A clean exit means the service is done.
Restarts(code) == code # "clean"

\* A bug to catch: a task that is taken stays in the table.
WithoutNone(t) == tasks

\* The table without a task that is taken.
Without(t) == [u \in Ids \ {t} |-> tasks[u]]

\* The task is taken and dropped, its service's entry updated, and a restart
\* decided, at once or after a back-off.
TakeDead(k) ==
    /\ at["sup"] = "reap" /\ Takeable(k)
    /\ LET t == reap[k]
           i == tasks[t].service
           next == Account(i, tasks[t].code)
       IN  /\ reap' = SubSeq(reap, 1, k - 1) \o SubSeq(reap, k + 1, Len(reap))
           /\ tasks' = Without(t)
           /\ services' = next
           /\ overtaken' = overtaken \cup {tasks[id[c]].service : c \in {d \in Spawners : at[d] = "record" /\ id[d] = t}}
           /\ IF Restarts(tasks[t].code)
              THEN /\ idx' = [idx EXCEPT !["sup"] = i]
                   /\ Goto("sup", IF next[i].restarts > MAX_RESTARTS_BEFORE_BACKOFF
                                  THEN "backoff" ELSE "build")
              ELSE UNCHANGED <<at, idx>>
    /\ UNCHANGED <<next_id, id, down>>

\* Nothing to take: sleep for a while.
Rest ==
    /\ at["sup"] = "reap" /\ \A k \in DOMAIN reap : ~Takeable(k)
    /\ Goto("sup", "sleep")
    /\ UNCHANGED <<services, tasks, next_id, reap, idx, id, down, overtaken>>

\* A bug to catch: a back-off ends without the restart.
AwakeForgetting ==
    /\ at["sup"] \in {"sleep", "backoff"}
    /\ Goto("sup", "reap")
    /\ UNCHANGED <<services, tasks, next_id, reap, idx, id, down, overtaken>>

\* The time is over, or an exit woke the supervisor: sleep_ms() returns.
Awake ==
    /\ \/ at["sup"] = "sleep" /\ Goto("sup", "reap")
       \/ at["sup"] = "backoff" /\ Goto("sup", "build")
    /\ UNCHANGED <<services, tasks, next_id, reap, idx, id, down, overtaken>>

\* An error code and a fault differ only in what is logged.
Codes == {"clean", "failed"}

Next ==
    \/ Register \/ Rest \/ Awake
    \/ \E c \in Spawners : Build(c) \/ BuildFails(c) \/ Publish(c) \/ Record(c)
    \/ \E t \in Ids : OffCpu(t) \/ \E code \in Codes : Exit(t, code)
    \/ \E k \in DOMAIN reap : TakeDead(k)

\* Spawners and the supervisor are kernel threads the scheduler runs, sleeps
\* end with the timer, and a dead task is switched away from.
Fairness ==
    /\ WF_vars(Rest \/ Awake \/ \E k \in DOMAIN reap : TakeDead(k))
    /\ \A c \in Spawners : WF_vars(Build(c) \/ BuildFails(c) \/ Publish(c) \/ Record(c))
    /\ \A t \in 1 .. MAX_TASKS : WF_vars(t \in Ids /\ OffCpu(t))

Spec == Init /\ [][Next]_vars /\ Fairness
-----------------------------------------------------------------------------
(* Properties                                                               *)

TasksOf(i) == {t \in Ids : tasks[t].service = i}

\* A service never has two tasks, not even one dying while its successor is
\* built: the supervisor tears a task down before it instantiates the next.  One
\* whose task finished cleanly has none, ever again.
OneTaskPerService ==
    \A i \in DOMAIN services :
        /\ \A t, u \in TasksOf(i) : t = u
        /\ services[i].last_exit = "clean" => TasksOf(i) = {}

\* The table names the task a service is running as, and no other, once the
\* spawn that made it has recorded it: what task_of() answers.  Excepted is a
\* service whose first task was reaped before it was recorded.
TableNamesTheTask ==
    \A i \in DOMAIN services \ overtaken :
        LET recording == {id[c] : c \in {d \in Spawners : idx[d] = i}}
        IN  /\ services[i].task # NO_TASK => services[i].task \in TasksOf(i)
            /\ \A t \in TasksOf(i) \ recording : services[i].task = t

\* What exits is dealt with, whoever else is failing and waiting at the time:
\* every task is reaped and its memory returned, and a service whose task failed
\* is running again later - unless its restart could not be built, which is not
\* retried.  Nothing is claimed past the bound on task ids.
ExitsAreDealtWith ==
    /\ \A t \in 1 .. MAX_TASKS :
          (t \in Ids /\ tasks[t].state = "exiting") ~> (next_id > MAX_TASKS \/ t \notin Ids)
    /\ \A i \in 1 .. MAX_SERVICES :
          (\E t \in Ids : /\ tasks[t].service = i /\ tasks[t].state = "exiting"
                          /\ tasks[t].code # "clean")
              ~> (i \in down \/ next_id > MAX_TASKS
                    \/ \E t \in Ids : tasks[t].service = i /\ tasks[t].state = "live")
=============================================================================
