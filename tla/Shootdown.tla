------------------------------ MODULE Shootdown ------------------------------
(***************************************************************************)
(* TLB shootdown (kernel/src/arch/x86_64/ipi.rs): flush_shared_range flushes *)
(* the CPU it is on and asks the others through their request slots, one      *)
(* broadcast at a time under BROADCAST_LOCK, until each has acknowledged its  *)
(* own request number or the sender gives up.                                 *)
(*                                                                         *)
(* Senders are kernel threads with interrupts on: the scheduler may move one  *)
(* to another CPU between any two steps of it (Migrate).  `stale[c]'           *)
(* is the set of ranges whose old translation CPU c may still hold.  A CPU     *)
(* whose slot lock is taken by the sender is waited for, so publishing one     *)
(* slot is one step.                                                           *)
(***************************************************************************)
EXTENDS Integers, FiniteSets

CONSTANTS Cpus, Senders,
          Ranges,      \* what the senders change, one each per call
          MAX_REQUESTS, \* bound on the requests published to one CPU
          None

ASSUME ShootdownAssumption ==
    /\ MAX_REQUESTS \in Nat
    /\ None \notin Senders /\ None \notin Ranges

VARIABLES stale,              \* per CPU: ranges it may still translate the old way
          seq, slot, done,    \* PerCpu::ipi_seq, ipi_slot, ipi_done
          raised,             \* CPUs with the IPI vector pending in their APIC
          taken,              \* the request a CPU's handler has taken
          lock,               \* BROADCAST_LOCK
          pc, on, range, me, todo, target \* per sender

shared == <<seq, slot, done>>
local == <<range, me, todo, target>>
vars == <<stale, seq, slot, done, raised, taken, lock, pc, on, range, me, todo, target>>

NoRequest == [seq |-> 0, range |-> None]
Requests == [seq : Nat, range : Ranges \cup {None}]

\* The type invariant: what each variable may hold, however many requests
\* there are.
TypeOK ==
    /\ stale \in [Cpus -> SUBSET Ranges]
    /\ seq \in [Cpus -> Nat]
    /\ slot \in [Cpus -> Requests]
    /\ done \in [Cpus -> Nat]
    /\ raised \subseteq Cpus
    /\ taken \in [Cpus -> Requests]
    /\ lock \in Senders \cup {None}
    /\ pc \in [Senders -> {"idle", "local", "lock", "publish", "wait", "true", "false"}]
    /\ on \in [Senders -> Cpus]
    /\ range \in [Senders -> Ranges \cup {None}]
    /\ me \in [Senders -> Cpus]
    /\ todo \in [Senders -> SUBSET Cpus]
    /\ target \in [Senders -> [Cpus -> Nat]]

Init ==
    /\ stale = [c \in Cpus |-> {}]
    /\ seq = [c \in Cpus |-> 0]
    /\ slot = [c \in Cpus |-> NoRequest]
    /\ done = [c \in Cpus |-> 0]
    /\ raised = {}
    /\ taken = [c \in Cpus |-> NoRequest]
    /\ lock = None
    /\ pc = [s \in Senders |-> "idle"]
    /\ on \in [Senders -> Cpus]
    /\ range = [s \in Senders |-> None]
    /\ me = on
    /\ todo = [s \in Senders |-> {}]
    /\ target = [s \in Senders |-> [c \in Cpus |-> 0]]

Goto(s, label) == pc' = [pc EXCEPT ![s] = label]

\* A sender executes unless its CPU is in the IPI handler.
Runs(s) == taken[on[s]] = NoRequest
-----------------------------------------------------------------------------
(* The sender: flush_shared_range and broadcast_and_wait.                   *)

\* The page tables change: from here on any CPU may hold the old translation.
Change(s, r) ==
    /\ Runs(s)
    /\ pc[s] = "idle"
    /\ \A q \in Senders : range[q] # r
    /\ \A c \in Cpus : seq[c] + Cardinality({q \in Senders : range[q] # None}) < MAX_REQUESTS
    /\ stale' = [c \in Cpus |-> stale[c] \cup {r}]
    /\ range' = [range EXCEPT ![s] = r]
    /\ Goto(s, "local")
    /\ UNCHANGED <<shared, raised, taken, lock, on, me, todo, target>>

\* flush_pages on this CPU.
FlushLocal(s) ==
    /\ Runs(s)
    /\ pc[s] = "local"
    /\ stale' = [stale EXCEPT ![on[s]] = @ \ {range[s]}]
    /\ Goto(s, "lock")
    /\ UNCHANGED <<shared, raised, taken, lock, on, local>>

\* The lock, and which CPU is `me' for the whole of the broadcast.
Lock(s) ==
    /\ Runs(s)
    /\ pc[s] = "lock"
    /\ lock = None
    /\ lock' = s
    /\ me' = [me EXCEPT ![s] = on[s]]
    /\ todo' = [todo EXCEPT ![s] = Cpus \ {on[s]}]
    /\ Goto(s, "publish")
    /\ UNCHANGED <<stale, shared, raised, taken, on, range, target>>

\* A bug to catch: the sender waits for the number before its own.
PublishOld(s, c) ==
    /\ Runs(s)
    /\ pc[s] = "publish" /\ c \in todo[s]
    /\ seq' = [seq EXCEPT ![c] = @ + 1]
    /\ slot' = [slot EXCEPT ![c] = [seq |-> seq[c] + 1, range |-> range[s]]]
    /\ target' = [target EXCEPT ![s][c] = seq[c]]
    /\ todo' = [todo EXCEPT ![s] = @ \ {c}]
    /\ UNCHANGED <<stale, done, raised, taken, lock, pc, on, range, me>>

\* One slot: a number and the request, replacing whatever was there.
Publish(s, c) ==
    /\ Runs(s)
    /\ pc[s] = "publish" /\ c \in todo[s]
    /\ seq' = [seq EXCEPT ![c] = @ + 1]
    /\ slot' = [slot EXCEPT ![c] = [seq |-> seq[c] + 1, range |-> range[s]]]
    /\ target' = [target EXCEPT ![s][c] = seq[c] + 1]
    /\ todo' = [todo EXCEPT ![s] = @ \ {c}]
    /\ UNCHANGED <<stale, done, raised, taken, lock, pc, on, range, me>>

\* The IPI goes to every CPU except the one the sender is on now.
Send(s) ==
    /\ Runs(s)
    /\ pc[s] = "publish" /\ todo[s] = {}
    /\ raised' = raised \cup (Cpus \ {on[s]})
    /\ Goto(s, "wait")
    /\ UNCHANGED <<stale, shared, taken, lock, on, local>>

Acknowledged(s) == \A c \in Cpus \ {me[s]} : done[c] >= target[s][c]

\* A bug to catch: the lock is not released on the way out.
CompleteLocked(s) ==
    /\ Runs(s)
    /\ pc[s] = "wait"
    /\ Acknowledged(s)
    /\ Goto(s, "true")
    /\ UNCHANGED <<stale, shared, raised, taken, lock, on, local>>

\* Every target has reached the number it was given.
Complete(s) ==
    /\ Runs(s)
    /\ pc[s] = "wait"
    /\ Acknowledged(s)
    /\ lock' = None
    /\ Goto(s, "true")
    /\ UNCHANGED <<stale, shared, raised, taken, on, local>>

\* ACK_SPINS are used up: the failure is logged and the caller goes on.
GiveUp(s) ==
    /\ Runs(s)
    /\ pc[s] = "wait"
    /\ ~Acknowledged(s)
    /\ lock' = None
    /\ Goto(s, "false")
    /\ UNCHANGED <<stale, shared, raised, taken, on, local>>

\* The caller uses the range and may later change another; what the call kept
\* on its stack is gone.
Resume(s) ==
    /\ pc[s] \in {"true", "false"}
    /\ range' = [range EXCEPT ![s] = None]
    /\ me' = [me EXCEPT ![s] = on[s]]
    /\ target' = [target EXCEPT ![s] = [c \in Cpus |-> 0]]
    /\ Goto(s, "idle")
    /\ UNCHANGED <<stale, shared, raised, taken, lock, on, todo>>

\* The sender is preempted and continues on another CPU.
Migrate(s, c) ==
    /\ Runs(s)
    /\ pc[s] \notin {"idle", "true", "false"}
    /\ c # on[s]
    /\ on' = [on EXCEPT ![s] = c]
    /\ UNCHANGED <<stale, shared, raised, taken, lock, pc, local>>
-----------------------------------------------------------------------------
(* The receiver: on_ipi.                                                    *)

\* The handler empties its slot; nothing there means a duplicate.
Take(c) ==
    /\ c \in raised
    /\ taken[c] = NoRequest
    /\ raised' = raised \ {c}
    /\ taken' = [taken EXCEPT ![c] = slot[c]]
    /\ slot' = [slot EXCEPT ![c] = NoRequest]
    /\ UNCHANGED <<stale, seq, done, lock, pc, on, local>>

\* A bug to catch: the newest number is acknowledged, not the one taken.
AckNewest(c) ==
    /\ taken[c] # NoRequest
    /\ stale' = [stale EXCEPT ![c] = @ \ {taken[c].range}]
    /\ done' = [done EXCEPT ![c] = seq[c]]
    /\ taken' = [taken EXCEPT ![c] = NoRequest]
    /\ UNCHANGED <<seq, slot, raised, lock, pc, on, local>>

\* It flushes what it took and acknowledges that number.
FlushAndAck(c) ==
    /\ taken[c] # NoRequest
    /\ stale' = [stale EXCEPT ![c] = @ \ {taken[c].range}]
    /\ done' = [done EXCEPT ![c] = taken[c].seq]
    /\ taken' = [taken EXCEPT ![c] = NoRequest]
    /\ UNCHANGED <<seq, slot, raised, lock, pc, on, local>>

\* A kick uses the same vector and can arrive at any time; with the slot empty
\* its handler does nothing here.
Kick(c) ==
    /\ c \notin raised
    /\ slot[c] # NoRequest
    /\ raised' = raised \cup {c}
    /\ UNCHANGED <<stale, shared, taken, lock, pc, on, local>>
-----------------------------------------------------------------------------
Sending(s) ==
    \/ FlushLocal(s) \/ Lock(s) \/ Send(s) \/ Complete(s) \/ GiveUp(s) \/ Resume(s)
    \/ \E c \in Cpus : Publish(s, c)

Handling(c) == Take(c) \/ FlushAndAck(c)

Next ==
    \/ \E s \in Senders :
         \/ Sending(s)
         \/ \E r \in Ranges : Change(s, r)
         \/ \E c \in Cpus : Migrate(s, c)
    \/ \E c \in Cpus : Handling(c) \/ Kick(c)

Spec == Init /\ [][Next]_vars

\* A sender that is given a CPU again and again goes on, and its spinning is
\* bounded by ACK_SPINS; an interrupt that is pending is taken.
FairSpec ==
    /\ Spec
    /\ \A s \in Senders : SF_vars(Sending(s))
    /\ \A c \in Cpus : WF_vars(Handling(c))
-----------------------------------------------------------------------------
(* Properties.                                                              *)

\* What the acknowledgements do give, wherever the scheduler moves the sender
\* and whatever earlier senders gave up on: a broadcast that reports success
\* has flushed every CPU it published to.
TargetsAreFlushed ==
    \A s \in Senders : pc[s] = "true" => \A c \in Cpus \ {me[s]} : range[s] \notin stale[c]

\* An acknowledgement refers to a request that was taken: it is never newer
\* than what was published, and a request still waiting in a slot or in a
\* handler has not been acknowledged.
AcksAreForTakenRequests ==
    \A c \in Cpus :
        /\ done[c] <= seq[c]
        /\ slot[c] # NoRequest => done[c] < slot[c].seq
        /\ taken[c] # NoRequest => done[c] < taken[c].seq

\* A shootdown comes back, with an answer or without: nobody waits for ever on
\* BROADCAST_LOCK, however the requests interleave.
ShootdownReturns == \A s \in Senders : (pc[s] = "local") ~> (pc[s] \in {"true", "false"})
=============================================================================
