---------------------------- MODULE NotifyProofs ----------------------------
(***************************************************************************)
(* Proofs about Notify: its type invariant, that every signal is accounted    *)
(* for, that a task waits in one place, and that no signal leaves a sleeper   *)
(* behind, whatever the number of tasks, the size of the counter and the      *)
(* counts recorded.                                                           *)
(***************************************************************************)
EXTENDS Notify, SequenceTheorems, FiniteSetTheorems, TLAPS

\* What the call of a context may be after any step of the protocol.
LEMMA CallTypes ==
    /\ NoCall \in Calls
    /\ \A n \in Nat : [step |-> "lock", count |-> n, wake |-> {}] \in Calls
    /\ \A n \in Nat, w \in SUBSET Tasks : [step |-> "wake", count |-> n, wake |-> w] \in Calls
  BY DEF NoCall, Calls

\* Popping the first k waiters leaves a queue of tasks.
LEMMA PopTypes ==
    ASSUME NEW q \in Seq(Tasks), NEW k \in 0 .. Len(q)
    PROVE  /\ SubSeq(q, k + 1, Len(q)) \in Seq(Tasks)
           /\ {q[i] : i \in 1 .. k} \subseteq Tasks
  <1>1. \A i \in 1 .. Len(q) : q[i] \in Tasks
    BY ElementOfSeq
  <1>2. SubSeq(q, k + 1, Len(q)) \in Seq(Tasks)
    BY <1>1, SubSeqProperties
  <1> QED  BY <1>1, <1>2

\* The saturating addition and the excess it leaves over add up.
LEMMA SaturatingAdd ==
    ASSUME TypeOK, NEW n \in Nat
    PROVE  /\ Added(n) \in 0 .. MAX_PENDING
           /\ Excess(n) \in Nat
           /\ Added(n) + Excess(n) = pending + n
  BY NotifyAssumption DEF TypeOK, Added, Excess

\* The type invariant and the accounting hold initially.
LEMMA InitHolds == Init => TypeOK /\ EverySignalAccounted
  BY NotifyAssumption, CallTypes DEF Init, TypeOK, EverySignalAccounted, Contexts

\* Every step preserves both: a wait moves signals from pending to waits, the
\* locked section of a signal adds what it records to pending and saturated,
\* and no other step touches the counters.
LEMMA StepPreserves ==
    TypeOK /\ EverySignalAccounted /\ [Next]_vars => TypeOK' /\ EverySignalAccounted'
  <1> SUFFICES ASSUME TypeOK, EverySignalAccounted, [Next]_vars
               PROVE  TypeOK' /\ EverySignalAccounted'
    OBVIOUS
  <1> USE NotifyAssumption
  <1>1. ASSUME NEW t \in Tasks, NEW m \in Modes, StartWait(t, m)
        PROVE  TypeOK' /\ EverySignalAccounted'
    BY <1>1 DEF TypeOK, EverySignalAccounted, StartWait, locked, counters
  <1>2. ASSUME NEW t \in Tasks, Take(t)
        PROVE  TypeOK' /\ EverySignalAccounted'
    BY <1>2 DEF TypeOK, EverySignalAccounted, Take, Taken
  <1>3. ASSUME NEW t \in Tasks, PollEmpty(t) \/ Register(t)
        PROVE  TypeOK' /\ EverySignalAccounted'
    <2>1. waiters \in Seq(Tasks) /\ Append(waiters, t) \in Seq(Tasks)
      BY AppendProperties DEF TypeOK
    <2>2. waiters' = waiters \/ waiters' = Append(waiters, t)
      BY <1>3 DEF PollEmpty, Register, locked
    <2> QED  BY <1>3, <2>1, <2>2 DEF TypeOK, EverySignalAccounted, PollEmpty, Register, locked, counters
  <1>4. ASSUME NEW t \in Tasks, NEW n \in Counts, Signal(t, n)
        PROVE  TypeOK' /\ EverySignalAccounted'
    BY <1>4, CallTypes DEF TypeOK, EverySignalAccounted, Signal, Begin, locked, counters, Contexts
  <1>5. ASSUME NEW t \in Tasks, Interrupt(t)
        PROVE  TypeOK' /\ EverySignalAccounted'
    BY <1>5, CallTypes DEF TypeOK, EverySignalAccounted, Interrupt, Begin, locked, counters, Contexts
  <1>6. ASSUME NEW x \in Contexts, Acquire(x)
        PROVE  TypeOK' /\ EverySignalAccounted'
    <2>1. [call[x] EXCEPT !.step = "section"] \in Calls
      BY DEF TypeOK, Calls
    <2>2. call' \in [Contexts -> Calls]
      BY <1>6, <2>1 DEF TypeOK, Acquire
    <2> QED  BY <1>6, <2>2 DEF TypeOK, EverySignalAccounted, Acquire, locked, counters
  <1>7. ASSUME NEW x \in Contexts, Section(x)
        PROVE  TypeOK' /\ EverySignalAccounted'
    <2> DEFINE n == call[x].count
               k == Popped(n)
               w == {t \in {waiters[i] : i \in 1 .. k} : doing[t] = "blocked"}
    <2>1. n \in Nat
      BY DEF TypeOK, Calls
    <2>2. k \in 0 .. Len(waiters) /\ waiters \in Seq(Tasks)
      BY <2>1 DEF TypeOK, Popped, SmallerOf
    <2>3. waiters' \in Seq(Tasks) /\ w \in SUBSET Tasks
      BY <1>7, <2>2, PopTypes DEF Section
    <2>4. [step |-> "wake", count |-> n, wake |-> w] \in Calls
      BY <2>1, <2>3, CallTypes
    <2>5. /\ pending' \in 0 .. MAX_PENDING
          /\ signals' \in Nat /\ saturated' \in Nat
          /\ signals' = waits' + pending' + saturated'
      <3>1. /\ Added(n) \in 0 .. MAX_PENDING
            /\ Excess(n) \in Nat
            /\ Added(n) + Excess(n) = pending + n
        BY <2>1, SaturatingAdd
      <3>2. /\ pending' = Added(n) /\ saturated' = saturated + Excess(n)
            /\ signals' = signals + n /\ waits' = waits
        BY <1>7 DEF Section
      <3>3. /\ pending \in Nat /\ signals \in Nat /\ waits \in Nat /\ saturated \in Nat
            /\ signals = waits + pending + saturated
        BY DEF TypeOK, EverySignalAccounted
      <3> DEFINE p == Added(n)
                 e == Excess(n)
      <3> HIDE DEF n, k, w, p, e
      <3>4. p \in 0 .. MAX_PENDING /\ e \in Nat /\ p + e = pending + n
        BY <3>1 DEF p, e
      <3>5. pending' = p /\ saturated' = saturated + e /\ signals' = signals + n /\ waits' = waits
        BY <3>2 DEF p, e
      <3> QED  BY <2>1, <3>3, <3>4, <3>5
    <2>6. call' \in [Contexts -> Calls]
      BY <1>7, <2>4 DEF Section, TypeOK
    <2> QED  BY <1>7, <2>3, <2>5, <2>6 DEF Section, TypeOK, EverySignalAccounted
  <1>8. ASSUME NEW x \in Contexts, Wake(x)
        PROVE  TypeOK' /\ EverySignalAccounted'
    <2>1. PICK t \in call[x].wake :
            /\ doing' = [doing EXCEPT ![t] = "look"]
            /\ call' = [call EXCEPT ![x].wake = @ \ {t}]
      BY <1>8 DEF Wake
    <2>2. call[x] \in Calls
      BY DEF TypeOK
    <2>2a. [call[x] EXCEPT !.wake = @ \ {t}] \in Calls
      BY <2>2 DEF Calls
    <2>3. call' \in [Contexts -> Calls]
      BY <2>1, <2>2a DEF TypeOK
    <2>4. t \in Tasks
      BY <2>2 DEF Calls
    <2> QED  BY <1>8, <2>1, <2>3, <2>4 DEF TypeOK, EverySignalAccounted, Wake, locked, counters
  <1>9. ASSUME NEW x \in Contexts, Return(x)
        PROVE  TypeOK' /\ EverySignalAccounted'
    BY <1>9, CallTypes DEF TypeOK, EverySignalAccounted, Return, locked, counters
  <1>10. CASE UNCHANGED vars
    BY <1>10 DEF TypeOK, EverySignalAccounted, vars
  <1> QED
    BY <1>1, <1>2, <1>3, <1>4, <1>5, <1>6, <1>7, <1>8, <1>9, <1>10
    DEF Next, Waiting, Signalling

\* The counter never leaves the range of its type and the variables keep their
\* shapes (notify.rs, signal and wait).
THEOREM NotifyTypes == Spec => []TypeOK
  BY InitHolds, StepPreserves, PTL DEF Spec

\* No signal is lost or invented: what was recorded is what was taken, what is
\* pending and what was folded into a saturated counter (notify.rs, signal and
\* wait).
THEOREM SignalsAccounted == Spec => []EverySignalAccounted
  BY InitHolds, StepPreserves, PTL DEF Spec
-----------------------------------------------------------------------------
(* A task waits in one place, and no signal leaves a sleeper behind          *)

\* The queue holds sleeping tasks, each once, and none a signaller has popped.
Queue ==
    /\ \A i, j \in 1 .. Len(waiters) : waiters[i] = waiters[j] => i = j
    /\ \A i \in 1 .. Len(waiters) : doing[waiters[i]] = "blocked"
    /\ \A i \in 1 .. Len(waiters), x \in Contexts : waiters[i] \notin call[x].wake

\* What signallers have popped: sleeping tasks, each in the hands of one of
\* them, which is about to wake them.
Hands ==
    /\ \A x \in Contexts : \A t \in call[x].wake : doing[t] = "blocked"
    /\ \A x, y \in Contexts : \A t \in call[x].wake : t \in call[y].wake => x = y
    /\ \A x \in Contexts : call[x].step # "wake" => call[x].wake = {}

\* Every sleeper is in the queue or in some hands.
Sleepers ==
    \A t \in Tasks : doing[t] = "blocked" =>
        \/ \E i \in 1 .. Len(waiters) : waiters[i] = t
        \/ \E x \in Contexts : t \in call[x].wake

Places == Queue /\ Hands /\ Sleepers

\* Who is on the way to the counter; there are finitely many.
LEMMA OnTheWayFacts ==
    ASSUME TypeOK
    PROVE  /\ \A t : t \in OnTheWay <=>
                /\ t \in Tasks
                /\ doing[t] = "look" \/ \E x \in Contexts : t \in call[x].wake
           /\ IsFiniteSet(OnTheWay) /\ Cardinality(OnTheWay) \in Nat
  <1>1. \A x \in Contexts : call[x].wake \subseteq Tasks
    BY DEF TypeOK, Calls
  <1>2. \A t : t \in OnTheWay <=>
          t \in Tasks /\ (doing[t] = "look" \/ \E x \in Contexts : t \in call[x].wake)
    BY <1>1 DEF OnTheWay
  <1>3. OnTheWay \in SUBSET Tasks
    BY <1>2
  <1>4. IsFiniteSet(OnTheWay)
    BY <1>3, FS_Subset, NotifyAssumption
  <1> QED BY <1>2, <1>4, FS_CardinalityType

\* The same after a step.
LEMMA OnTheWayNext ==
    ASSUME TypeOK'
    PROVE  /\ \A t : t \in OnTheWay' <=>
                /\ t \in Tasks
                /\ doing'[t] = "look" \/ \E x \in Contexts : t \in call'[x].wake
           /\ IsFiniteSet(OnTheWay') /\ Cardinality(OnTheWay') \in Nat
  <1>1. \A x \in Contexts : call'[x].wake \subseteq Tasks
    BY DEF TypeOK, Calls
  <1>2. \A t : t \in OnTheWay' <=>
          t \in Tasks /\ (doing'[t] = "look" \/ \E x \in Contexts : t \in call'[x].wake)
    BY <1>1 DEF OnTheWay
  <1>3. OnTheWay' \in SUBSET Tasks
    BY <1>2
  <1>4. IsFiniteSet(OnTheWay')
    BY <1>3, FS_Subset, NotifyAssumption
  <1> QED BY <1>2, <1>4, FS_CardinalityType

\* A step that moves nobody between the places keeps them.
LEMMA NobodyMoves ==
    ASSUME Places, TypeOK, UNCHANGED waiters,
           \A t \in Tasks : doing'[t] = "blocked" <=> doing[t] = "blocked",
           \A x \in Contexts : call'[x].wake = call[x].wake,
           \A x \in Contexts : call'[x].step # "wake" => call'[x].wake = {}
    PROVE  Places'
  <1>1. /\ \A i \in 1 .. Len(waiters) : waiters[i] \in Tasks
        /\ \A x \in Contexts : \A t \in call[x].wake : t \in Tasks
    BY DEF TypeOK, Calls
  <1>2. Queue'
    BY <1>1 DEF Places, Queue
  <1>3. Hands'
    BY <1>1 DEF Places, Hands
  <1>4. Sleepers'
    BY DEF Places, Sleepers
  <1> QED BY <1>2, <1>3, <1>4 DEF Places

\* Popping the first k of a queue without repetition.
LEMMA PopFacts ==
    ASSUME NEW q \in Seq(Tasks), NEW k \in 0 .. Len(q),
           \A i, j \in 1 .. Len(q) : q[i] = q[j] => i = j
    PROVE  LET r == SubSeq(q, k + 1, Len(q))
           IN  /\ \A i, j \in 1 .. Len(r) : r[i] = r[j] => i = j
               /\ \A i \in 1 .. Len(r) : \E j \in 1 .. Len(q) : r[i] = q[j] /\ j > k
               /\ \A j \in 1 .. Len(q) : j > k => \E i \in 1 .. Len(r) : r[i] = q[j]
               /\ r # <<>> => k < Len(q)
               /\ k <= Cardinality({q[i] : i \in 1 .. k})
               /\ IsFiniteSet({q[i] : i \in 1 .. k})
  <1> DEFINE n == Len(q)
             r == SubSeq(q, k + 1, n)
             P == {q[i] : i \in 1 .. k}
             f == [i \in 1 .. k |-> q[i]]
  <1>1. n \in Nat /\ k \in Nat /\ k <= n
    OBVIOUS
  <1>2. /\ Len(r) = n - k
        /\ \A i \in 1 .. n - k : r[i] = q[i + k] /\ i + k \in 1 .. n
    <2>1. \A i \in 1 .. n : q[i] \in Tasks
      BY ElementOfSeq
    <2>2. /\ Len(r) = IF k + 1 <= n THEN n - (k + 1) + 1 ELSE 0
          /\ \A i \in 1 .. n - (k + 1) + 1 : r[i] = q[(k + 1) + i - 1]
      BY <2>1, SubSeqProperties
    <2> HIDE DEF r, n
    <2> QED BY <1>1, <2>2
  <1>3. \A i \in 1 .. n, j \in 1 .. n : q[i] = q[j] => i = j
    OBVIOUS
  <1>4. r # <<>> => k < n
    <2>1. r \in Seq(Tasks)
      BY PopTypes
    <2>2. r # <<>> => Len(r) > 0
      BY <2>1
    <2> HIDE DEF r, n
    <2> QED BY <1>1, <1>2, <2>2
  <1>5. IsFiniteSet(P) /\ k <= Cardinality(P)
    <2>1. P \in SUBSET Tasks
      BY PopTypes
    <2>2. IsFiniteSet(P)
      BY <2>1, FS_Subset, NotifyAssumption
    <2>3. f \in Injection(1 .. k, P)
      BY <1>1, <1>3 DEF Injection, IsInjective
    <2>4. Cardinality(1 .. k) <= Cardinality(P)
      BY <2>2, <2>3, FS_Injection
    <2>5. Cardinality(1 .. k) = k
      BY <1>1, FS_Interval
    <2> QED BY <2>2, <2>4, <2>5
  <1> HIDE DEF r, n, P, f
  <1>6. \A i \in 1 .. n - k, j \in 1 .. n - k : r[i] = r[j] => i = j
    BY <1>1, <1>2, <1>3
  <1>7. \A i \in 1 .. n - k : \E j \in 1 .. n : r[i] = q[j] /\ j > k
    BY <1>1, <1>2
  <1>8. ASSUME NEW j \in 1 .. n, j > k
        PROVE  \E i \in 1 .. n - k : r[i] = q[j]
    <2>1. j - k \in 1 .. n - k /\ (j - k) + k = j
      BY <1>1, <1>8
    <2> QED BY <1>2, <2>1
  <1> QED BY <1>2, <1>4, <1>5, <1>6, <1>7, <1>8 DEF r, n, P

IInv == TypeOK /\ Places /\ NoWakeupLost

\* The invariant holds of a new object.
LEMMA InitInv == Init => IInv
  <1> SUFFICES ASSUME Init PROVE IInv
    OBVIOUS
  <1>1. TypeOK
    BY InitHolds
  <1>2. Places
    BY DEF Init, Places, Queue, Hands, Sleepers, NoCall
  <1>3. NoWakeupLost
    BY DEF Init, NoWakeupLost
  <1> QED BY <1>1, <1>2, <1>3 DEF IInv

\* A turn of wait()'s loop, or its beginning: one task that sleeps nowhere
\* takes signals, leaves, or comes to look.
LEMMA LookInv ==
    ASSUME IInv, TypeOK', NEW t \in Tasks,
           Take(t) \/ PollEmpty(t) \/ \E m \in Modes : StartWait(t, m)
    PROVE  IInv'
  <1>1. /\ UNCHANGED <<waiters, call>>
        /\ doing[t] # "blocked" /\ doing'[t] # "blocked"
        /\ \A u \in Tasks \ {t} : doing'[u] = doing[u]
    BY DEF Take, PollEmpty, StartWait, locked, IInv, TypeOK
  <1>2. Places'
    BY <1>1, NobodyMoves DEF IInv, Places, Hands
  <1>3. \A x \in Contexts : t \notin call[x].wake
    BY <1>1 DEF IInv, Places, Hands
  <1>4. /\ TypeOK /\ TypeOK'
        /\ IsFiniteSet(OnTheWay) /\ Cardinality(OnTheWay) \in Nat /\ Cardinality(OnTheWay') \in Nat
    BY OnTheWayFacts, OnTheWayNext DEF IInv
  <1>5. CASE \E m \in Modes : StartWait(t, m)
    <2>1. doing'[t] = "look" /\ pending' = pending
      BY <1>5 DEF StartWait, locked, IInv, TypeOK
    <2>2. \A u : u \in OnTheWay' <=> u \in OnTheWay \/ u = t
      BY <1>1, <1>4, <2>1, OnTheWayFacts, OnTheWayNext
    <2>3. OnTheWay' = OnTheWay \cup {t}
      BY <2>2
    <2>4. Cardinality(OnTheWay) <= Cardinality(OnTheWay')
      BY <1>4, <2>3, FS_AddElement
    <2>5. NoWakeupLost'
      BY <1>1, <1>4, <2>1, <2>4 DEF IInv, TypeOK, NoWakeupLost
    <2> QED BY <1>2, <2>5 DEF IInv
  <1>6. CASE Take(t)
    <2>1. doing[t] = "look" /\ doing'[t] = "idle"
      BY <1>6 DEF Take, IInv, TypeOK
    <2>2. \A u : u \in OnTheWay' <=> u \in OnTheWay /\ u # t
      BY <1>1, <1>3, <1>4, <2>1, OnTheWayFacts, OnTheWayNext
    <2>3. OnTheWay' = OnTheWay \ {t} /\ t \in OnTheWay
      BY <1>4, <2>1, <2>2, OnTheWayFacts
    <2>4. Cardinality(OnTheWay') = Cardinality(OnTheWay) - 1
      BY <1>4, <2>3, FS_RemoveElement
    <2>5. pending' = 0 \/ pending' = pending - 1
      BY <1>6 DEF Take, Taken, IInv, TypeOK
    <2>6. NoWakeupLost'
      BY <1>1, <1>4, <2>4, <2>5 DEF IInv, TypeOK, NoWakeupLost
    <2> QED BY <1>2, <2>6 DEF IInv
  <1>7. CASE PollEmpty(t)
    <2>1. pending' = 0
      BY <1>7 DEF PollEmpty, locked
    <2> QED BY <1>2, <1>4, <2>1 DEF IInv, NoWakeupLost
  <1> QED BY <1>5, <1>6, <1>7

\* A task that finds nothing pending goes to sleep at the end of the queue.
LEMMA RegisterInv ==
    ASSUME IInv, TypeOK', NEW t \in Tasks, Register(t)
    PROVE  IInv'
  <1> DEFINE n == Len(waiters)
  <1>1. /\ Len(waiters') = n + 1 /\ n \in Nat /\ waiters'[n + 1] = t
        /\ \A i \in 1 .. n : waiters'[i] = waiters[i] /\ waiters[i] \in Tasks
    BY DEF Register, IInv, TypeOK
  <1>2. /\ doing[t] = "look" /\ doing'[t] = "blocked" /\ UNCHANGED call
        /\ \A u \in Tasks \ {t} : doing'[u] = doing[u]
    BY DEF Register, IInv, TypeOK
  <1>3. \A i \in 1 .. n : waiters[i] # t
    BY <1>2 DEF IInv, Places, Queue
  <1>4. \A x \in Contexts : t \notin call[x].wake /\ call[x].wake \subseteq Tasks
    <2>1. \A x \in Contexts : call[x].wake \subseteq Tasks
      BY DEF IInv, TypeOK, Calls
    <2> QED BY <1>2, <2>1 DEF IInv, Places, Hands
  <1>5. /\ \A i, j \in 1 .. n : waiters[i] = waiters[j] => i = j
        /\ \A i \in 1 .. n : doing[waiters[i]] = "blocked"
        /\ \A i \in 1 .. n, x \in Contexts : waiters[i] \notin call[x].wake
        /\ \A u \in Tasks : doing[u] = "blocked" =>
             (\E i \in 1 .. n : waiters[i] = u) \/ \E x \in Contexts : u \in call[x].wake
    BY DEF IInv, Places, Queue, Sleepers
  <1> HIDE DEF n
  <1>6. \A i : i \in 1 .. n + 1 <=> i = n + 1 \/ i \in 1 .. n
    BY <1>1
  <1>7. Queue'
    <2>1. \A i, j \in 1 .. n + 1 : waiters'[i] = waiters'[j] => i = j
      BY <1>1, <1>3, <1>5, <1>6
    <2>2. \A i \in 1 .. n + 1 : doing'[waiters'[i]] = "blocked"
      BY <1>1, <1>2, <1>3, <1>5, <1>6
    <2>3. \A i \in 1 .. n + 1, x \in Contexts : waiters'[i] \notin call'[x].wake
      BY <1>1, <1>2, <1>4, <1>5, <1>6
    <2> QED BY <1>1, <2>1, <2>2, <2>3 DEF Queue
  <1>8. Hands'
    <2>1. \A x \in Contexts : \A u \in call[x].wake : u \in Tasks \ {t}
      BY <1>4
    <2> QED BY <1>2, <2>1 DEF IInv, Places, Hands
  <1>9. Sleepers'
    <2>1. ASSUME NEW u \in Tasks, doing'[u] = "blocked"
          PROVE  (\E i \in 1 .. n + 1 : waiters'[i] = u) \/ \E x \in Contexts : u \in call'[x].wake
      <3>1. CASE u = t
        BY <1>1, <1>6, <3>1
      <3>2. CASE u # t
        <4>1. doing[u] = "blocked"
          BY <1>2, <2>1, <3>2
        <4> QED BY <1>1, <1>2, <1>5, <1>6, <4>1
      <3> QED BY <3>1, <3>2
    <2> QED BY <1>1, <2>1 DEF Sleepers
  <1>10. NoWakeupLost'
    <2>1. pending' = 0 /\ Cardinality(OnTheWay') \in Nat
      BY OnTheWayNext DEF Register
    <2> QED BY <2>1 DEF NoWakeupLost
  <1> QED BY <1>7, <1>8, <1>9, <1>10 DEF IInv, Places

\* A call of signal() begins, gets the lock or ends: nobody moves.
LEMMA CallInv ==
    ASSUME IInv, TypeOK', NEW x \in Contexts,
           \/ \E n \in Counts : x \in Tasks /\ Signal(x, n)
           \/ x = Irq /\ \E v \in Tasks : Interrupt(v)
           \/ Acquire(x) \/ Return(x)
    PROVE  IInv'
  <1>1. UNCHANGED <<waiters, doing, pending>>
    BY DEF Signal, Interrupt, Acquire, Return, locked
  <1>2. call[x].wake = {}
    BY DEF Signal, Interrupt, Acquire, Return, NoCall, IInv, Places, Hands
  <1>3. /\ \A y \in Contexts \ {x} : call'[y] = call[y]
        /\ call'[x].wake = {}
    <2>1. CASE \/ \E n \in Counts : x \in Tasks /\ Signal(x, n)
               \/ x = Irq /\ \E v \in Tasks : Interrupt(v)
      <3>1. PICK n : call' = [call EXCEPT ![x] = [step |-> "lock", count |-> n, wake |-> {}]]
        BY <2>1 DEF Signal, Interrupt, Begin
      <3> QED BY <3>1 DEF IInv, TypeOK
    <2>2. CASE Acquire(x)
      <3>1. call' = [call EXCEPT ![x].step = "section"]
        BY <2>2 DEF Acquire
      <3>2. call \in [Contexts -> Calls] /\ call[x] \in Calls
        BY DEF IInv, TypeOK
      <3>3. call'[x] = [call[x] EXCEPT !.step = "section"]
        BY <3>1, <3>2
      <3>4. call'[x].wake = call[x].wake
        BY <3>2, <3>3 DEF Calls
      <3> QED BY <1>2, <3>1, <3>2, <3>4
    <2>3. CASE Return(x)
      <3>1. call' = [call EXCEPT ![x] = NoCall]
        BY <2>3 DEF Return
      <3> QED BY <3>1 DEF IInv, TypeOK, NoCall
    <2> QED BY <2>1, <2>2, <2>3
  <1>4. Places'
    <2>1. \A y \in Contexts : call'[y].wake = call[y].wake
      BY <1>2, <1>3
    <2>2. \A y \in Contexts : call'[y].step # "wake" => call'[y].wake = {}
      BY <1>2, <1>3 DEF IInv, Places, Hands
    <2> QED BY <1>1, <2>1, <2>2, NobodyMoves DEF IInv
  <1>5. \A u : u \in OnTheWay' <=> u \in OnTheWay
    BY <1>1, <1>2, <1>3, OnTheWayFacts, OnTheWayNext DEF IInv
  <1>6. OnTheWay' = OnTheWay
    BY <1>5
  <1>7. NoWakeupLost'
    BY <1>1, <1>6 DEF IInv, NoWakeupLost
  <1> QED BY <1>4, <1>7 DEF IInv

\* wake(): a task leaves the signaller's hands and looks again.
LEMMA WakeInv ==
    ASSUME IInv, TypeOK', NEW x \in Contexts, Wake(x)
    PROVE  IInv'
  <1>1. PICK t \in call[x].wake :
          /\ doing' = [doing EXCEPT ![t] = "look"]
          /\ call' = [call EXCEPT ![x].wake = @ \ {t}]
    BY DEF Wake
  <1>2. t \in Tasks /\ UNCHANGED <<waiters, pending>> /\ call[x].step = "wake"
    BY DEF Wake, locked, IInv, TypeOK, Calls
  <1>3. /\ \A y \in Contexts \ {x} : call'[y] = call[y]
        /\ call'[x].wake = call[x].wake \ {t} /\ call'[x].step = "wake"
    BY <1>1, <1>2 DEF IInv, TypeOK, Calls
  <1>4. /\ doing'[t] = "look" /\ \A u \in Tasks \ {t} : doing'[u] = doing[u]
    BY <1>1, <1>2 DEF IInv, TypeOK
  <1>5. \A y \in Contexts : t \in call[y].wake => y = x
    BY DEF IInv, Places, Hands
  <1>6. \A y \in Contexts : call'[y].wake = call[y].wake \ {t}
    BY <1>3, <1>5
  <1>7. \A i \in 1 .. Len(waiters) : waiters[i] \in Tasks \ {t}
    <2>1. \A i \in 1 .. Len(waiters) : waiters[i] \in Tasks
      BY DEF IInv, TypeOK
    <2> QED BY <2>1 DEF IInv, Places, Queue
  <1>8. Queue'
    BY <1>2, <1>4, <1>6, <1>7 DEF IInv, Places, Queue
  <1>9. Hands'
    <2>1. \A y \in Contexts : call[y].wake \subseteq Tasks
      BY DEF IInv, TypeOK, Calls
    <2>2. \A y \in Contexts : \A u \in call'[y].wake : doing'[u] = "blocked"
      BY <1>4, <1>6, <2>1 DEF IInv, Places, Hands
    <2>3. \A y, z \in Contexts : \A u \in call'[y].wake : u \in call'[z].wake => y = z
      BY <1>6 DEF IInv, Places, Hands
    <2>4. \A y \in Contexts : call'[y].step # "wake" => call'[y].wake = {}
      BY <1>3 DEF IInv, Places, Hands
    <2> QED BY <2>2, <2>3, <2>4 DEF Hands
  <1>10. Sleepers'
    BY <1>2, <1>4, <1>6 DEF IInv, Places, Sleepers
  <1>11. \A u : u \in OnTheWay' <=> u \in OnTheWay
    BY <1>1, <1>2, <1>4, <1>6, OnTheWayFacts, OnTheWayNext DEF IInv
  <1>12. OnTheWay' = OnTheWay
    BY <1>11
  <1>13. NoWakeupLost'
    BY <1>2, <1>12 DEF IInv, NoWakeupLost
  <1> QED BY <1>8, <1>9, <1>10, <1>13 DEF IInv, Places

\* The locked section: as many sleepers as signals recorded, or all of them,
\* pass from the queue into the signaller's hands.
LEMMA SectionInv ==
    ASSUME IInv, TypeOK', NEW x \in Contexts, Section(x)
    PROVE  IInv'
  <1> DEFINE n == call[x].count
             k == Popped(n)
             P == {waiters[i] : i \in 1 .. k}
             L == Len(waiters)
  <1>1. waiters \in Seq(Tasks) /\ n \in Nat /\ L \in Nat /\ pending \in Nat
    BY DEF IInv, TypeOK, Calls
  <1>2. k \in 0 .. L /\ (k < L => k = n)
    BY <1>1 DEF Popped, SmallerOf
  <1>3. \A i, j \in 1 .. L : waiters[i] = waiters[j] => i = j
    BY DEF IInv, Places, Queue
  <1>4. \A i \in 1 .. L : waiters[i] \in Tasks
    BY <1>1
  <1>5. /\ \A i, j \in 1 .. Len(waiters') : waiters'[i] = waiters'[j] => i = j
        /\ \A i \in 1 .. Len(waiters') : \E j \in 1 .. L : waiters'[i] = waiters[j] /\ j > k
        /\ \A j \in 1 .. L : j > k => \E i \in 1 .. Len(waiters') : waiters'[i] = waiters[j]
        /\ waiters' # <<>> => k < L
        /\ k <= Cardinality(P) /\ IsFiniteSet(P)
    <2>1. waiters' = SubSeq(waiters, k + 1, L)
      BY DEF Section
    <2>2. LET r == SubSeq(waiters, k + 1, L)
          IN  /\ \A i, j \in 1 .. Len(r) : r[i] = r[j] => i = j
              /\ \A i \in 1 .. Len(r) : \E j \in 1 .. L : r[i] = waiters[j] /\ j > k
              /\ \A j \in 1 .. L : j > k => \E i \in 1 .. Len(r) : r[i] = waiters[j]
              /\ r # <<>> => k < L
              /\ k <= Cardinality(P)
              /\ IsFiniteSet(P)
      <3> HIDE DEF k
      <3> QED BY <1>1, <1>2, <1>3, PopFacts
    <2> HIDE DEF k, L, P
    <2> QED BY <2>1, <2>2
  <1>6. \A i \in 1 .. L : doing[waiters[i]] = "blocked"
    BY DEF IInv, Places, Queue
  <1>7. \A u : u \in P <=> \E i \in 1 .. L : i <= k /\ waiters[i] = u
    <2> HIDE DEF k, L
    <2>1. \A i : i \in 1 .. k <=> i \in 1 .. L /\ i <= k
      BY <1>1, <1>2 DEF L
    <2> QED BY <2>1 DEF P
  <1>8. /\ \A y \in Contexts \ {x} : call'[y] = call[y]
        /\ call'[x].wake = P /\ call'[x].step = "wake" /\ call[x].wake = {}
    <2>1. call' = [call EXCEPT ![x] = [step |-> "wake", count |-> n,
                                       wake |-> {t \in P : doing[t] = "blocked"}]]
      BY DEF Section
    <2>2. {t \in P : doing[t] = "blocked"} = P
      <3>1. \A t \in P : doing[t] = "blocked"
        BY <1>6, <1>7
      <3> HIDE DEF P
      <3> QED BY <3>1
    <2>3. call[x].wake = {}
      BY DEF Section, IInv, Places, Hands
    <2> HIDE DEF P, n
    <2> QED BY <2>1, <2>2, <2>3 DEF IInv, TypeOK
  <1>9. UNCHANGED doing /\ pending' <= pending + n /\ pending' \in Nat
    <2>1. pending' = Added(n) /\ UNCHANGED doing
      BY DEF Section
    <2> HIDE DEF n
    <2>2. Added(n) \in Nat /\ Added(n) <= pending + n
      BY <1>1, NotifyAssumption DEF Added, IInv, TypeOK
    <2> QED BY <2>1, <2>2
  <1> HIDE DEF n, k, P, L
  <1>10. \A i \in 1 .. L, y \in Contexts : waiters[i] \notin call[y].wake
    BY DEF IInv, Places, Queue, L
  <1>11. Queue'
    <2>1. \A i \in 1 .. Len(waiters') : doing'[waiters'[i]] = "blocked"
      BY <1>5, <1>6, <1>9
    <2>2. \A j \in 1 .. L : j > k => waiters[j] \notin P
      BY <1>1, <1>2, <1>3, <1>7
    <2>3. \A i \in 1 .. Len(waiters'), y \in Contexts : waiters'[i] \notin call'[y].wake
      BY <1>5, <1>8, <1>10, <2>2
    <2> QED BY <1>5, <2>1, <2>3 DEF Queue
  <1>12. Hands'
    <2>1. \A y \in Contexts : \A u \in call'[y].wake : doing'[u] = "blocked"
      BY <1>6, <1>7, <1>8, <1>9 DEF IInv, Places, Hands
    <2>2. \A u \in P, y \in Contexts : u \notin call[y].wake
      BY <1>7, <1>10
    <2>3. \A y, z \in Contexts : \A u \in call'[y].wake : u \in call'[z].wake => y = z
      BY <1>8, <2>2 DEF IInv, Places, Hands
    <2>4. \A y \in Contexts : call'[y].step # "wake" => call'[y].wake = {}
      BY <1>8 DEF IInv, Places, Hands
    <2> QED BY <2>1, <2>3, <2>4 DEF Hands
  <1>13. Sleepers'
    <2> SUFFICES ASSUME NEW u \in Tasks, doing[u] = "blocked"
                 PROVE  \/ \E i \in 1 .. Len(waiters') : waiters'[i] = u
                        \/ \E y \in Contexts : u \in call'[y].wake
      BY <1>9 DEF Sleepers
    <2>1. CASE \E y \in Contexts : u \in call[y].wake
      BY <1>8, <2>1
    <2>2. CASE \E i \in 1 .. L : waiters[i] = u
      <3>1. PICK i \in 1 .. L : waiters[i] = u
        BY <2>2
      <3>2. i > k \/ i <= k
        BY <1>1, <1>2
      <3> QED BY <1>5, <1>7, <1>8, <3>1, <3>2
    <2> QED BY <2>1, <2>2 DEF IInv, Places, Sleepers, L
  <1>14. NoWakeupLost'
    <2> SUFFICES ASSUME waiters' # <<>> PROVE pending' <= Cardinality(OnTheWay')
      BY DEF NoWakeupLost
    <2>1. k = n /\ waiters # <<>>
      BY <1>1, <1>2, <1>5 DEF L
    <2>2. pending <= Cardinality(OnTheWay)
      BY <2>1 DEF IInv, NoWakeupLost
    <2>3. \A u : u \in OnTheWay' <=> u \in OnTheWay \/ u \in P
      BY <1>4, <1>7, <1>8, <1>9, OnTheWayFacts, OnTheWayNext DEF IInv
    <2>4. \A u \in P : u \notin OnTheWay
      BY <1>6, <1>7, <1>10, OnTheWayFacts DEF IInv
    <2>5. OnTheWay' = OnTheWay \cup P /\ OnTheWay \cap P = {}
      BY <2>3, <2>4
    <2>6. /\ IsFiniteSet(OnTheWay) /\ Cardinality(OnTheWay) \in Nat /\ Cardinality(P) \in Nat
      BY <1>5, OnTheWayFacts, FS_CardinalityType DEF IInv
    <2>7. Cardinality(OnTheWay') = Cardinality(OnTheWay) + Cardinality(P)
      <3>1. Cardinality(OnTheWay \cup P)
              = Cardinality(OnTheWay) + Cardinality(P) - Cardinality(OnTheWay \cap P)
        BY <1>5, <2>6, FS_Union
      <3>2. Cardinality({}) = 0
        BY FS_EmptySet
      <3>3. Cardinality(OnTheWay \cup P) = Cardinality(OnTheWay) + Cardinality(P) - 0
        BY <2>5, <3>1, <3>2
      <3> QED BY <2>5, <2>6, <3>3
    <2> QED BY <1>1, <1>5, <1>9, <2>1, <2>2, <2>6, <2>7
  <1> QED BY <1>11, <1>12, <1>13, <1>14 DEF IInv, Places

\* Every step preserves the invariant.
LEMMA StepInv == IInv /\ EverySignalAccounted /\ [Next]_vars => IInv'
  <1> SUFFICES ASSUME IInv, EverySignalAccounted, [Next]_vars PROVE IInv'
    OBVIOUS
  <1>1. TypeOK'
    BY StepPreserves DEF IInv
  <1>2. CASE \E t \in Tasks : Waiting(t) \/ \E m \in Modes : StartWait(t, m)
    BY <1>1, <1>2, LookInv, RegisterInv DEF Waiting
  <1>3. ASSUME NEW t \in Tasks, (\E n \in Counts : Signal(t, n)) \/ Interrupt(t) PROVE IInv'
    <2>1. t \in Contexts /\ Irq \in Contexts
      BY DEF Contexts
    <2> QED BY <1>1, <1>3, <2>1, CallInv
  <1>4. CASE \E x \in Contexts : Signalling(x)
    BY <1>1, <1>4, CallInv, SectionInv, WakeInv DEF Signalling
  <1>5. CASE UNCHANGED vars
    <2>1. UNCHANGED <<waiters, doing, call, pending>>
      BY <1>5 DEF vars
    <2>2. Places'
      BY <2>1, NobodyMoves DEF IInv, Places, Hands
    <2>3. NoWakeupLost'
      BY <2>1 DEF IInv, NoWakeupLost, OnTheWay
    <2> QED BY <1>1, <2>2, <2>3 DEF IInv
  <1> QED BY <1>2, <1>3, <1>4, <1>5 DEF Next

\* No sleeper is left behind by a signal: wait() registers in the locked section
\* in which it finds the counter at zero, and signal() pops as many sleepers as
\* it records signals, so that whoever stays asleep beside a pending signal has
\* others on their way to take it (notify.rs, signal and wait).
THEOREM NoWakeupIsLost == Spec => []NoWakeupLost
  <1>1. IInv => NoWakeupLost
    BY DEF IInv
  <1> QED BY <1>1, InitInv, StepInv, SignalsAccounted, PTL DEF Spec

\* A task waits in one place, and is blocked exactly as long as it does
\* (notify.rs, signal and wait).
THEOREM OnePlaceToWait == Spec => []WaitersAreBlocked
  <1>1. IInv => WaitersAreBlocked
    <2> SUFFICES ASSUME IInv PROVE WaitersAreBlocked
      OBVIOUS
    <2>1. DOMAIN waiters = 1 .. Len(waiters) /\ \A i \in 1 .. Len(waiters) : waiters[i] \in Tasks
      BY DEF IInv, TypeOK
    <2>2. \A t : t \in Range(waiters) <=> \E i \in 1 .. Len(waiters) : waiters[i] = t
      BY <2>1, Zenon DEF Range
    <2>3. \A t \in Tasks : doing[t] = "blocked" =>
            t \in Range(waiters) \/ \E x \in Contexts : t \in call[x].wake
      BY <2>2 DEF IInv, Places, Sleepers
    <2>4. \A t \in Tasks :
            t \in Range(waiters) \/ (\E x \in Contexts : t \in call[x].wake) => doing[t] = "blocked"
      BY <2>2 DEF IInv, Places, Queue, Hands
    <2>5. \A i, j \in DOMAIN waiters : waiters[i] = waiters[j] => i = j
      BY <2>1 DEF IInv, Places, Queue
    <2> QED BY <2>3, <2>4, <2>5 DEF WaitersAreBlocked
  <1> QED BY <1>1, InitInv, StepInv, SignalsAccounted, PTL DEF Spec
=============================================================================
