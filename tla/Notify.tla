------------------------------- MODULE Notify -------------------------------
(***************************************************************************)
(* One notification object (kernel/src/notify.rs): a saturating counter of  *)
(* signals and the queue of tasks waiting for one.  Tasks signal from a      *)
(* system call, with interrupts on, and a device interrupt signals from its  *)
(* handler; both take the object's spin lock for one section and call        *)
(* wake() for the waiters they popped after dropping it.                      *)
(*                                                                         *)
(* The counters signals, waits and saturated are read by the boot summary    *)
(* only; each is updated in the step of the locked section it describes.     *)
(***************************************************************************)
EXTENDS Integers, Sequences, Functions, FiniteSets

CONSTANTS Tasks,
          Signallers,   \* tasks that call notify_signal
          Victims,      \* tasks the device interrupt can land on
          Modes,        \* subset of {"One", "Poll", "All"} the tasks wait with
          Counts,       \* how many signals one call records
          MAX_PENDING,  \* u32::MAX
          MAX_SIGNALS,  \* bound on the signals of a behaviour
          Irq, None

ASSUME NotifyAssumption ==
    /\ IsFiniteSet(Tasks)
    /\ Signallers \subseteq Tasks /\ Victims \subseteq Tasks
    /\ Irq \notin Tasks /\ None \notin Tasks \cup {Irq}
    /\ Modes \subseteq {"One", "Poll", "All"}
    /\ Counts \subseteq Nat \ {0}
    /\ MAX_PENDING \in Nat /\ MAX_SIGNALS \in Nat

VARIABLES pending, waiters,          \* Inner
          holder,                    \* who holds the lock of Inner
          signals, waits, saturated, \* the three counters
          doing,                     \* where each task is in wait()
          mode,                      \* the mode it waits with
          call,                      \* where each context is in signal()
          frozen                     \* the task the handler interrupted

locked == <<pending, waiters>>
counters == <<signals, waits, saturated>>
vars == <<pending, waiters, holder, signals, waits, saturated, doing, mode, call, frozen>>

Contexts == Tasks \cup {Irq}
NoCall == [step |-> "none", count |-> 0, wake |-> {}]
Calls == [step : {"none", "lock", "section", "wake"}, count : Nat, wake : SUBSET Tasks]

\* The type invariant: what each variable may hold, and the u32 range of the
\* counter.
TypeOK ==
    /\ pending \in 0 .. MAX_PENDING
    /\ waiters \in Seq(Tasks)
    /\ holder \in Contexts \cup {None}
    /\ signals \in Nat /\ waits \in Nat /\ saturated \in Nat
    /\ doing \in [Tasks -> {"idle", "look", "blocked"}]
    /\ mode \in [Tasks -> {"One", "Poll", "All"}]
    /\ call \in [Contexts -> Calls]
    /\ frozen \in Tasks \cup {None}

Init ==
    /\ pending = 0
    /\ waiters = <<>>
    /\ holder = None
    /\ signals = 0 /\ waits = 0 /\ saturated = 0
    /\ doing = [t \in Tasks |-> "idle"]
    /\ mode = [t \in Tasks |-> "One"]
    /\ call = [x \in Contexts |-> NoCall]
    /\ frozen = None

\* A task executes its next instruction unless the handler has interrupted it.
Runs(x) == x = Irq \/ frozen # x
-----------------------------------------------------------------------------
(* wait                                                                     *)

StartWait(t, m) ==
    /\ Runs(t)
    /\ doing[t] = "idle" /\ call[t] = NoCall
    /\ doing' = [doing EXCEPT ![t] = "look"]
    /\ mode' = [mode EXCEPT ![t] = m]
    /\ UNCHANGED <<locked, holder, counters, call, frozen>>

\* How many signals a wait that finds some takes.
Taken(t) == IF mode[t] = "All" THEN pending ELSE 1

\* One turn of the loop that finds signals.
Take(t) ==
    /\ Runs(t)
    /\ doing[t] = "look" /\ holder = None
    /\ pending > 0
    /\ pending' = pending - Taken(t)
    /\ waits' = waits + Taken(t)
    /\ doing' = [doing EXCEPT ![t] = "idle"]
    /\ UNCHANGED <<waiters, holder, signals, saturated, mode, call, frozen>>

PollEmpty(t) ==
    /\ Runs(t)
    /\ doing[t] = "look" /\ holder = None
    /\ pending = 0 /\ mode[t] = "Poll"
    /\ doing' = [doing EXCEPT ![t] = "idle"]
    /\ UNCHANGED <<locked, holder, counters, mode, call, frozen>>

\* A bug to catch: blocking on what was seen before the lock was taken.
RegisterUnchecked(t) ==
    /\ Runs(t)
    /\ doing[t] = "look" /\ holder = None
    /\ mode[t] # "Poll"
    /\ waiters' = Append(waiters, t)
    /\ doing' = [doing EXCEPT ![t] = "blocked"]
    /\ UNCHANGED <<pending, holder, counters, mode, call, frozen>>

\* Nothing pending: registered and blocked in the same locked section.
Register(t) ==
    /\ Runs(t)
    /\ doing[t] = "look" /\ holder = None
    /\ pending = 0 /\ mode[t] # "Poll"
    /\ waiters' = Append(waiters, t)
    /\ doing' = [doing EXCEPT ![t] = "blocked"]
    /\ UNCHANGED <<pending, holder, counters, mode, call, frozen>>
-----------------------------------------------------------------------------
(* signal                                                                   *)

Begin(x, n) == call' = [call EXCEPT ![x] = [step |-> "lock", count |-> n, wake |-> {}]]

\* notify_signal from a task.
Signal(t, n) ==
    /\ Runs(t)
    /\ t \in Signallers
    /\ doing[t] = "idle" /\ call[t] = NoCall
    /\ signals + n <= MAX_SIGNALS
    /\ Begin(t, n)
    /\ UNCHANGED <<locked, holder, counters, doing, mode, frozen>>

\* The device interrupt, on the CPU of task v, whose interrupts are on: it is
\* not inside wait()'s section.  The handler records one signal.
Interrupt(v) ==
    /\ v \in Victims
    /\ frozen = None
    /\ doing[v] # "blocked"
    /\ call[Irq] = NoCall
    /\ signals + 1 <= MAX_SIGNALS
    /\ Begin(Irq, 1)
    /\ frozen' = v
    /\ UNCHANGED <<locked, holder, counters, doing, mode>>

Acquire(x) ==
    /\ Runs(x)
    /\ call[x].step = "lock"
    /\ holder = None
    /\ holder' = x
    /\ call' = [call EXCEPT ![x].step = "section"]
    /\ UNCHANGED <<locked, counters, doing, mode, frozen>>

SmallerOf(a, b) == IF a < b THEN a ELSE b

\* A bug to catch: one waiter is woken however many signals were recorded.
PoppedOne(n) == SmallerOf(1, Len(waiters))

\* How many waiters a signal of n pops.
Popped(n) == SmallerOf(n, Len(waiters))

\* A bug to catch: the excess over the counter's maximum is not counted.
ExcessIgnored(n) == 0

\* What does not fit in the counter.
Excess(n) == IF n > MAX_PENDING - pending THEN n - (MAX_PENDING - pending) ELSE 0

\* u32::saturating_add.
Added(n) == IF n > MAX_PENDING - pending THEN MAX_PENDING ELSE pending + n

\* The locked section: count, pop, unlock.  A popped task that is no longer
\* blocked is dropped.
Section(x) ==
    LET n == call[x].count
        k == Popped(n)
    IN  /\ Runs(x)
        /\ call[x].step = "section"
        /\ signals' = signals + n
        /\ saturated' = saturated + Excess(n)
        /\ pending' = Added(n)
        /\ waiters' = SubSeq(waiters, k + 1, Len(waiters))
        /\ call' = [call EXCEPT ![x] =
                     [step |-> "wake", count |-> n,
                      wake |-> {t \in {waiters[i] : i \in 1 .. k} : doing[t] = "blocked"}]]
        /\ holder' = None
        /\ UNCHANGED <<waits, doing, mode, frozen>>

\* A bug to catch: a popped waiter is skipped.
WakeSkips(x) ==
    /\ Runs(x)
    /\ call[x].step = "wake"
    /\ \E t \in call[x].wake : call' = [call EXCEPT ![x].wake = @ \ {t}]
    /\ UNCHANGED <<locked, holder, counters, doing, mode, frozen>>

\* wake() of a popped waiter, which goes round its loop again; the order in
\* which they are woken is left open.
Wake(x) ==
    /\ Runs(x)
    /\ call[x].step = "wake"
    /\ \E t \in call[x].wake :
         /\ doing' = [doing EXCEPT ![t] = "look"]
         /\ call' = [call EXCEPT ![x].wake = @ \ {t}]
    /\ UNCHANGED <<locked, holder, counters, mode, frozen>>

\* signal() returns; the handler lets its victim go on.
Return(x) ==
    /\ Runs(x)
    /\ call[x].step = "wake"
    /\ call[x].wake = {}
    /\ call' = [call EXCEPT ![x] = NoCall]
    /\ frozen' = IF x = Irq THEN None ELSE frozen
    /\ UNCHANGED <<locked, holder, counters, doing, mode>>
-----------------------------------------------------------------------------
Signalling(x) == Acquire(x) \/ Section(x) \/ Wake(x) \/ Return(x)

Waiting(t) == Take(t) \/ PollEmpty(t) \/ Register(t)

Next ==
    \/ \E t \in Tasks :
         \/ \E m \in Modes : StartWait(t, m)
         \/ Waiting(t)
         \/ \E n \in Counts : Signal(t, n)
         \/ Interrupt(t)
    \/ \E x \in Contexts : Signalling(x)

Spec == Init /\ [][Next]_vars

\* Code that has started goes on: a call of signal() or a turn of the loop is
\* straight-line code, and the spin lock is free again and again.
FairSpec ==
    /\ Spec
    /\ \A x \in Contexts : SF_vars(Signalling(x))
    /\ \A t \in Tasks : SF_vars(Waiting(t))
-----------------------------------------------------------------------------
(* Properties.                                                              *)

\* Nothing is lost and nothing invented: every signal recorded was taken by a
\* wait, is still pending, or was folded into a saturated counter.
EverySignalAccounted == signals = waits + pending + saturated

\* Popped and not yet back at the lock: they will look at the counter again.
OnTheWay ==
    {t \in Tasks : doing[t] = "look"} \cup UNION {call[x].wake : x \in Contexts}

\* No sleeper is left behind: a task stays in the queue with signals pending
\* only if at least as many tasks as there are signals are on their way to
\* take them (wait: "a signal cannot slip in between and have its wake-up
\* lost").
NoWakeupLost == waiters # <<>> => pending <= Cardinality(OnTheWay)

\* A task waits in one place: queued once, or in the hands of one signaller,
\* and blocked for exactly as long.
WaitersAreBlocked ==
    /\ \A i, j \in DOMAIN waiters : waiters[i] = waiters[j] => i = j
    /\ \A t \in Tasks :
         doing[t] = "blocked" <=>
             \/ t \in Range(waiters)
             \/ \E x \in Contexts : t \in call[x].wake

\* The handler spins on the lock, which the code it has interrupted holds: the
\* lock is taken with interrupts on, although a handler takes it too.
HandlerWaitsForItsVictim ==
    call[Irq].step = "lock" /\ holder # None /\ holder = frozen

\* A signal wakes: while something is pending, no task sleeps in the queue for
\* good, unless a handler has come to wait for its own victim, which stops that
\* CPU and everyone who needs the lock.
PendingSignalsAreTaken ==
    \A t \in Tasks :
        (doing[t] = "blocked" /\ pending > 0)
            ~> (doing[t] # "blocked" \/ pending = 0 \/ HandlerWaitsForItsVictim)
=============================================================================
