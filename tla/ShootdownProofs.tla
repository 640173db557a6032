--------------------------- MODULE ShootdownProofs ---------------------------
(***************************************************************************)
(* Proofs about Shootdown: a broadcast that reports success has flushed every *)
(* CPU it published to, and acknowledgements match requests, for any number    *)
(* of CPUs, senders, ranges and requests.                                     *)
(***************************************************************************)
EXTENDS Shootdown, TLAPS

\* A CPU's numbers in order: acknowledged, taken, waiting, published.
InOrder(c) ==
    /\ done[c] <= seq[c]
    /\ slot[c] # NoRequest => done[c] < slot[c].seq /\ slot[c].seq <= seq[c]
    /\ taken[c] # NoRequest => done[c] < taken[c].seq /\ taken[c].seq <= seq[c]
    /\ slot[c] # NoRequest /\ taken[c] # NoRequest => taken[c].seq < slot[c].seq

\* A sender has a range of its own from the change of the page tables until it
\* resumes, and is inside the broadcast exactly while it holds the lock.
Sender(s) ==
    /\ pc[s] = "idle" <=> range[s] = None
    /\ \A q \in Senders : q # s /\ range[s] # None => range[q] # range[s]
    /\ pc[s] \in {"publish", "wait"} <=> lock = s
    /\ pc[s] = "wait" => todo[s] = {}

\* What holds of a CPU the lock holder has published to: its number is still the
\* newest one, only its own request carries it, and while the CPU may translate
\* the old way that number has not been acknowledged.
Asked(s, c) ==
    /\ target[s][c] = seq[c] /\ target[s][c] > 0
    /\ slot[c].seq = target[s][c] => slot[c].range = range[s]
    /\ taken[c].seq = target[s][c] => taken[c].range = range[s]
    /\ range[s] \in stale[c] => done[c] < target[s][c]

AllAsked == \A s \in Senders : lock = s => \A c \in (Cpus \ {me[s]}) \ todo[s] : Asked(s, c)

IInv ==
    /\ TypeOK
    /\ \A c \in Cpus : InOrder(c)
    /\ \A s \in Senders : Sender(s)
    /\ AllAsked
    /\ TargetsAreFlushed

\* The invariant holds before anything is changed.
LEMMA InitInv == Init => IInv
  <1> SUFFICES ASSUME Init PROVE IInv
    OBVIOUS
  <1> USE ShootdownAssumption
  <1>1. TypeOK
    BY DEF Init, TypeOK, NoRequest, Requests
  <1>2. \A c \in Cpus : InOrder(c)
    BY DEF Init, InOrder, NoRequest
  <1>3. \A s \in Senders : Sender(s)
    BY DEF Init, Sender
  <1>4. \A s \in Senders : lock # s
    BY DEF Init
  <1> QED BY <1>1, <1>2, <1>3, <1>4 DEF Init, IInv, AllAsked, TargetsAreFlushed

\* Whoever holds the lock is the only one inside the broadcast.
LEMMA OneHolder ==
    ASSUME IInv, NEW s \in Senders, pc[s] \in {"publish", "wait"}
    PROVE  lock = s
BY DEF IInv, Sender

\* A step that leaves the broadcast and the CPUs' slots alone keeps what was asked.
LEMMA NothingAskedChanges ==
    ASSUME AllAsked, UNCHANGED <<stale, seq, slot, done, taken, lock, range, me, todo, target>>
    PROVE  AllAsked'
  <1> SUFFICES ASSUME NEW s \in Senders, lock' = s, NEW c \in (Cpus \ {me'[s]}) \ todo'[s]
               PROVE  Asked(s, c)'
    BY DEF AllAsked
  <1>1. Asked(s, c)
    BY DEF AllAsked
  <1> QED BY <1>1 DEF Asked

\* Every step preserves the invariant.
LEMMA StepInv == IInv /\ [Next]_vars => IInv'
  <1> SUFFICES ASSUME IInv, [Next]_vars PROVE IInv'
    OBVIOUS
  <1> USE ShootdownAssumption
  <1>1. ASSUME NEW s \in Senders, NEW r \in Ranges, Change(s, r) PROVE IInv'
    <2>1. TypeOK'
      BY <1>1 DEF Change, IInv, TypeOK, Goto, shared
    <2>2. \A c \in Cpus : InOrder(c)'
      BY <1>1 DEF Change, IInv, InOrder, shared
    <2>3. \A q \in Senders : Sender(q)'
      BY <1>1 DEF Change, IInv, TypeOK, Sender, Goto
    <2>4. AllAsked'
      <3>1. \A q \in Senders : lock = q => q # s /\ range[q] # r
        BY <1>1 DEF Change, IInv, Sender
      <3>2. \A c \in Cpus : stale'[c] = stale[c] \cup {r}
        BY <1>1 DEF Change
      <3>3. \A q \in Senders : q # s => range'[q] = range[q]
        BY <1>1 DEF Change, IInv, TypeOK
      <3> QED BY <1>1, <3>1, <3>2, <3>3 DEF Change, IInv, AllAsked, Asked, shared
    <2>5. TargetsAreFlushed'
      BY <1>1 DEF Change, IInv, TypeOK, Sender, TargetsAreFlushed, Goto
    <2> QED BY <2>1, <2>2, <2>3, <2>4, <2>5 DEF IInv
  <1>2. ASSUME NEW s \in Senders, FlushLocal(s) PROVE IInv'
    <2>1. TypeOK'
      BY <1>2 DEF FlushLocal, IInv, TypeOK, Goto, shared, local
    <2>2. \A c \in Cpus : InOrder(c)'
      BY <1>2 DEF FlushLocal, IInv, InOrder, shared
    <2>3. \A q \in Senders : Sender(q)'
      BY <1>2 DEF FlushLocal, IInv, TypeOK, Sender, Goto, local
    <2>4. AllAsked'
      BY <1>2 DEF FlushLocal, IInv, TypeOK, AllAsked, Asked, shared, local
    <2>5. TargetsAreFlushed'
      BY <1>2 DEF FlushLocal, IInv, TypeOK, TargetsAreFlushed, Goto, local
    <2> QED BY <2>1, <2>2, <2>3, <2>4, <2>5 DEF IInv
  <1>3. ASSUME NEW s \in Senders, Lock(s) PROVE IInv'
    <2>1. TypeOK'
      BY <1>3 DEF Lock, IInv, TypeOK, Goto, shared
    <2>2. \A c \in Cpus : InOrder(c)'
      BY <1>3 DEF Lock, IInv, InOrder, shared
    <2>3. \A q \in Senders : Sender(q)'
      BY <1>3 DEF Lock, IInv, TypeOK, Sender, Goto
    <2>4. AllAsked'
      BY <1>3 DEF Lock, IInv, TypeOK, AllAsked
    <2>5. TargetsAreFlushed'
      BY <1>3 DEF Lock, IInv, TypeOK, TargetsAreFlushed, Goto
    <2> QED BY <2>1, <2>2, <2>3, <2>4, <2>5 DEF IInv
  <1>4. ASSUME NEW s \in Senders, NEW d \in Cpus, Publish(s, d) PROVE IInv'
    <2>1. TypeOK'
      BY <1>4 DEF Publish, IInv, TypeOK, Requests
    <2>2. \A c \in Cpus : InOrder(c)'
      <3>1. \A c \in Cpus : c # d => InOrder(c)'
        BY <1>4 DEF Publish, IInv, TypeOK, InOrder
      <3>2. slot'[d].seq = seq[d] + 1 /\ seq'[d] = seq[d] + 1
        BY <1>4 DEF Publish, IInv, TypeOK
      <3>3. InOrder(d)'
        BY <1>4, <3>2 DEF Publish, IInv, TypeOK, InOrder, Requests
      <3> QED BY <3>1, <3>3
    <2>3. \A q \in Senders : Sender(q)'
      BY <1>4 DEF Publish, IInv, TypeOK, Sender
    <2>4. ASSUME NEW c \in (Cpus \ {me'[s]}) \ todo'[s] PROVE Asked(s, c)'
      <3>1. lock = s
        BY <1>4, OneHolder DEF Publish
      <3>2. CASE c = d
        BY <1>4, <3>2 DEF Publish, IInv, TypeOK, InOrder, Asked, NoRequest, Requests
      <3>3. CASE c # d
        <4>1. Asked(s, c)
          BY <1>4, <2>4, <3>1, <3>3 DEF Publish, IInv, TypeOK, AllAsked
        <4> QED BY <1>4, <3>3, <4>1 DEF Publish, IInv, TypeOK, Asked
      <3> QED BY <3>2, <3>3
    <2>5. lock' = s
      BY <1>4, OneHolder DEF Publish
    <2>6. TargetsAreFlushed'
      BY <1>4 DEF Publish, IInv, TargetsAreFlushed
    <2> QED BY <2>1, <2>2, <2>3, <2>4, <2>5, <2>6 DEF IInv, AllAsked
  <1>5. ASSUME NEW s \in Senders, Send(s) PROVE IInv'
    <2>1. TypeOK'
      BY <1>5 DEF Send, IInv, TypeOK, Goto, shared, local
    <2>2. \A c \in Cpus : InOrder(c)'
      BY <1>5 DEF Send, IInv, InOrder, shared
    <2>3. \A q \in Senders : Sender(q)'
      BY <1>5 DEF Send, IInv, TypeOK, Sender, Goto, local
    <2>4. AllAsked'
      BY <1>5, NothingAskedChanges DEF Send, IInv, shared, local
    <2>5. TargetsAreFlushed'
      BY <1>5 DEF Send, IInv, TypeOK, TargetsAreFlushed, Goto, local
    <2> QED BY <2>1, <2>2, <2>3, <2>4, <2>5 DEF IInv
  <1>6. ASSUME NEW s \in Senders, Complete(s) \/ GiveUp(s) PROVE IInv'
    <2>1. TypeOK'
      BY <1>6 DEF Complete, GiveUp, IInv, TypeOK, Goto, shared, local
    <2>2. \A c \in Cpus : InOrder(c)'
      BY <1>6 DEF Complete, GiveUp, IInv, InOrder, shared
    <2>3. \A q \in Senders : Sender(q)'
      BY <1>6 DEF Complete, GiveUp, IInv, TypeOK, Sender, Goto, local
    <2>4. \A q \in Senders : lock' # q
      BY <1>6 DEF Complete, GiveUp
    <2>5. ASSUME Complete(s) PROVE \A c \in Cpus \ {me[s]} : range[s] \notin stale[c]
      <3>1. lock = s /\ todo[s] = {}
        BY <2>5, OneHolder DEF Complete, IInv, Sender
      <3>2. \A c \in Cpus \ {me[s]} : Asked(s, c) /\ done[c] >= target[s][c]
        BY <2>5, <3>1 DEF Complete, Acknowledged, IInv, AllAsked
      <3> QED BY <3>2 DEF IInv, TypeOK, Asked
    <2>6. TargetsAreFlushed'
      BY <1>6, <2>5 DEF Complete, GiveUp, IInv, TypeOK, TargetsAreFlushed, Goto, local
    <2> QED BY <2>1, <2>2, <2>3, <2>4, <2>6 DEF IInv, AllAsked
  <1>7. ASSUME NEW s \in Senders, Resume(s) PROVE IInv'
    <2>1. TypeOK'
      BY <1>7 DEF Resume, IInv, TypeOK, Goto, shared
    <2>2. \A c \in Cpus : InOrder(c)'
      BY <1>7 DEF Resume, IInv, InOrder, shared
    <2>3. \A q \in Senders : Sender(q)'
      BY <1>7 DEF Resume, IInv, TypeOK, Sender, Goto
    <2>4. AllAsked'
      <3>1. lock # s
        BY <1>7 DEF Resume, IInv, Sender
      <3>2. ASSUME NEW q \in Senders, q # s
            PROVE  me'[q] = me[q] /\ range'[q] = range[q] /\ target'[q] = target[q]
        BY <1>7, <3>2 DEF Resume, IInv, TypeOK
      <3>3. ASSUME NEW q \in Senders, lock' = q, NEW c \in (Cpus \ {me'[q]}) \ todo'[q]
            PROVE  Asked(q, c)'
        <4>1. q # s /\ Asked(q, c)
          BY <1>7, <3>1, <3>2, <3>3 DEF Resume, IInv, AllAsked
        <4> QED BY <1>7, <3>2, <4>1 DEF Resume, Asked, shared
      <3> QED BY <3>3 DEF AllAsked
    <2>5. TargetsAreFlushed'
      BY <1>7 DEF Resume, IInv, TypeOK, TargetsAreFlushed, Goto
    <2> QED BY <2>1, <2>2, <2>3, <2>4, <2>5 DEF IInv
  <1>8. ASSUME NEW s \in Senders, NEW d \in Cpus, Migrate(s, d) PROVE IInv'
    <2>1. TypeOK'
      BY <1>8 DEF Migrate, IInv, TypeOK, shared, local
    <2>2. \A c \in Cpus : InOrder(c)'
      BY <1>8 DEF Migrate, IInv, InOrder, shared
    <2>3. \A q \in Senders : Sender(q)'
      BY <1>8 DEF Migrate, IInv, Sender, local
    <2>4. AllAsked'
      BY <1>8, NothingAskedChanges DEF Migrate, IInv, shared, local
    <2>5. TargetsAreFlushed'
      BY <1>8 DEF Migrate, IInv, TargetsAreFlushed, local
    <2> QED BY <2>1, <2>2, <2>3, <2>4, <2>5 DEF IInv
  <1>9. ASSUME NEW d \in Cpus, Take(d) PROVE IInv'
    <2>1. TypeOK'
      BY <1>9 DEF Take, IInv, TypeOK, local, NoRequest, Requests
    <2>2. \A c \in Cpus : InOrder(c)'
      BY <1>9 DEF Take, IInv, TypeOK, InOrder
    <2>3. \A q \in Senders : Sender(q)'
      BY <1>9 DEF Take, IInv, Sender, local
    <2>4. AllAsked'
      BY <1>9 DEF Take, IInv, TypeOK, AllAsked, Asked, local, NoRequest
    <2>5. TargetsAreFlushed'
      BY <1>9 DEF Take, IInv, TargetsAreFlushed, local
    <2> QED BY <2>1, <2>2, <2>3, <2>4, <2>5 DEF IInv
  <1>10. ASSUME NEW d \in Cpus, FlushAndAck(d) PROVE IInv'
    <2>1. TypeOK'
      BY <1>10 DEF FlushAndAck, IInv, TypeOK, local, NoRequest, Requests
    <2>2. \A c \in Cpus : InOrder(c)'
      BY <1>10 DEF FlushAndAck, IInv, TypeOK, InOrder, Requests
    <2>3. \A q \in Senders : Sender(q)'
      BY <1>10 DEF FlushAndAck, IInv, Sender, local
    <2>4. ASSUME NEW q \in Senders, lock' = q, NEW c \in (Cpus \ {me'[q]}) \ todo'[q]
          PROVE  Asked(q, c)'
      <3>1. Asked(q, c)
        BY <1>10, <2>4 DEF FlushAndAck, IInv, AllAsked, local
      <3>2. CASE c = d
        <4>1. taken[d].seq \in Nat /\ taken[d].seq <= target[q][d]
          BY <1>10, <3>1, <3>2 DEF FlushAndAck, IInv, TypeOK, InOrder, Asked, Requests
        <4>2. /\ done'[d] = taken[d].seq /\ taken'[d].seq = 0
              /\ stale'[d] = stale[d] \ {taken[d].range}
          BY <1>10 DEF FlushAndAck, IInv, TypeOK, NoRequest
        <4>3. range[q] \in stale'[d] => taken[d].seq < target[q][d]
          <5>1. taken[d].seq = target[q][d] => taken[d].range = range[q]
            BY <3>1, <3>2 DEF Asked
          <5>2. target[q][d] \in Nat
            BY DEF IInv, TypeOK
          <5>3. taken[d].seq < target[q][d] \/ taken[d].seq = target[q][d]
            BY <4>1, <5>2
          <5> QED BY <4>2, <5>1, <5>3
        <4> QED BY <1>10, <3>1, <3>2, <4>2, <4>3 DEF FlushAndAck, Asked, local
      <3>3. CASE c # d
        BY <1>10, <3>1, <3>3 DEF FlushAndAck, IInv, TypeOK, Asked, local
      <3> QED BY <3>2, <3>3
    <2>5. TargetsAreFlushed'
      BY <1>10 DEF FlushAndAck, IInv, TypeOK, TargetsAreFlushed, local
    <2> QED BY <2>1, <2>2, <2>3, <2>4, <2>5 DEF IInv, AllAsked
  <1>11. ASSUME NEW d \in Cpus, Kick(d) PROVE IInv'
    <2>1. TypeOK'
      BY <1>11 DEF Kick, IInv, TypeOK, shared, local
    <2>2. (\A c \in Cpus : InOrder(c)') /\ (\A q \in Senders : Sender(q)')
      BY <1>11 DEF Kick, IInv, InOrder, Sender, shared, local
    <2>3. AllAsked'
      BY <1>11, NothingAskedChanges DEF Kick, IInv, shared, local
    <2>4. TargetsAreFlushed'
      BY <1>11 DEF Kick, IInv, TargetsAreFlushed, shared, local
    <2> QED BY <2>1, <2>2, <2>3, <2>4 DEF IInv
  <1>12. CASE UNCHANGED vars
    <2>1. TypeOK' /\ (\A c \in Cpus : InOrder(c)')
      BY <1>12 DEF vars, IInv, TypeOK, InOrder
    <2>2. (\A q \in Senders : Sender(q)') /\ TargetsAreFlushed'
      BY <1>12 DEF vars, IInv, Sender, TargetsAreFlushed
    <2>3. AllAsked'
      BY <1>12, NothingAskedChanges DEF vars, IInv
    <2> QED BY <2>1, <2>2, <2>3 DEF IInv
  <1> QED
    BY <1>1, <1>2, <1>3, <1>4, <1>5, <1>6, <1>7, <1>8, <1>9, <1>10, <1>11, <1>12
    DEF Next, Sending, Handling

\* A broadcast that reports success has flushed every CPU it published to,
\* whatever was left behind by senders that gave up, wherever the scheduler
\* moved the sender and whoever else kicked the CPUs (ipi.rs broadcast_and_wait).
THEOREM SuccessIsFlushed == Spec => []TargetsAreFlushed
  <1>1. IInv => TargetsAreFlushed
    BY DEF IInv
  <1> QED BY <1>1, InitInv, StepInv, PTL DEF Spec

\* An acknowledgement is for a request that was taken, never for one that still
\* waits in its slot or is being handled (ipi.rs on_ipi).
THEOREM AcksMatchRequests == Spec => []AcksAreForTakenRequests
  <1>1. IInv => AcksAreForTakenRequests
    BY DEF IInv, InOrder, AcksAreForTakenRequests
  <1> QED BY <1>1, InitInv, StepInv, PTL DEF Spec
=============================================================================
