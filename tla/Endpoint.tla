------------------------------ MODULE Endpoint ------------------------------
(***************************************************************************)
(* One endpoint (kernel/src/ipc/mod.rs): its bounded queue, the receivers    *)
(* blocked on it, and the inbox through which deliver() hands a message       *)
(* straight to a blocked receiver.  A receiver's steps are the sections of    *)
(* recv() between which another CPU can get in; deliver() is one section,      *)
(* followed by a wake().  A message is its number in the order of acceptance. *)
(***************************************************************************)
EXTENDS Integers, Sequences, FiniteSets, Functions

CONSTANTS Receivers,
          QUEUE_LIMIT,
          MAX_MESSAGES,  \* bound on the messages of a behaviour
          NoMessage

ASSUME EndpointAssumption ==
    /\ QUEUE_LIMIT \in Nat
    /\ MAX_MESSAGES \in Nat
    /\ NoMessage = 0

VARIABLES queue, receivers,  \* EndpointInner
          inbox,             \* Task::ipc_inbox
          doing,             \* where each receiver is in recv()
          waking,            \* receivers popped whose wake() is to come
          accepted,          \* messages accepted so far
          last               \* the newest message each receiver has got

vars == <<queue, receivers, inbox, doing, waking, accepted, last>>

\* The type invariant: what each variable may hold, however many messages
\* there are.
TypeOK ==
    /\ queue \in Seq(Nat) /\ Len(queue) <= QUEUE_LIMIT
    /\ receivers \in Seq(Receivers)
    /\ inbox \in [Receivers -> Nat]
    /\ doing \in [Receivers -> {"idle", "look", "blocked", "woken"}]
    /\ waking \subseteq Receivers
    /\ accepted \in Nat
    /\ last \in [Receivers -> Nat]

Init ==
    /\ queue = <<>>
    /\ receivers = <<>>
    /\ inbox = [r \in Receivers |-> NoMessage]
    /\ doing = [r \in Receivers |-> "idle"]
    /\ waking = {}
    /\ accepted = 0
    /\ last = [r \in Receivers |-> 0]
-----------------------------------------------------------------------------
(* send                                                                     *)

\* A bug to catch: a message is queued behind a blocked receiver's back.
HandOverNever(k) == FALSE

\* The first popped receiver that is still blocked gets the message; the ones
\* before it are dropped from the list.
HandOver(k) ==
    /\ k \in DOMAIN receivers
    /\ doing[receivers[k]] = "blocked"
    /\ \A i \in 1 .. k - 1 : doing[receivers[i]] # "blocked"

\* A bug to catch: the inbox is filled and the receiver is not woken.
DeliverNoWake ==
    /\ accepted < MAX_MESSAGES
    /\ \E k \in 1 .. Len(receivers) :
         /\ HandOver(k)
         /\ inbox' = [inbox EXCEPT ![receivers[k]] = accepted + 1]
         /\ receivers' = SubSeq(receivers, k + 1, Len(receivers))
    /\ accepted' = accepted + 1
    /\ UNCHANGED <<queue, doing, waking, last>>

\* deliver, when a receiver is waiting: its inbox is filled and it is to be
\* woken once the lock is dropped.
DeliverDirect ==
    /\ accepted < MAX_MESSAGES
    /\ \E k \in 1 .. Len(receivers) :
         /\ HandOver(k)
         /\ inbox' = [inbox EXCEPT ![receivers[k]] = accepted + 1]
         /\ receivers' = SubSeq(receivers, k + 1, Len(receivers))
         /\ waking' = waking \cup {receivers[k]}
    /\ accepted' = accepted + 1
    /\ UNCHANGED <<queue, doing, last>>

\* deliver, when nobody is: queued, unless the queue is full.
DeliverQueued ==
    /\ accepted < MAX_MESSAGES
    /\ ~\E k \in 1 .. Len(receivers) : HandOver(k)
    /\ Len(queue) < QUEUE_LIMIT
    /\ receivers' = <<>>
    /\ queue' = Append(queue, accepted + 1)
    /\ accepted' = accepted + 1
    /\ UNCHANGED <<inbox, doing, waking, last>>

\* Err(QueueFull): the stale receivers are popped all the same.
DeliverFull ==
    /\ ~\E k \in 1 .. Len(receivers) : HandOver(k)
    /\ Len(queue) >= QUEUE_LIMIT
    /\ receivers' = <<>>
    /\ UNCHANGED <<queue, inbox, doing, waking, accepted, last>>

\* wake(): the receiver continues after its schedule().
Wake(r) ==
    /\ r \in waking
    /\ waking' = waking \ {r}
    /\ doing' = [doing EXCEPT ![r] = "woken"]
    /\ UNCHANGED <<queue, receivers, inbox, accepted, last>>
-----------------------------------------------------------------------------
(* recv and try_recv                                                        *)

\* A receive begins.
StartRecv(r) ==
    /\ doing[r] = "idle"
    /\ doing' = [doing EXCEPT ![r] = "look"]
    /\ UNCHANGED <<queue, receivers, inbox, waking, accepted, last>>

Got(r, m) ==
    /\ last' = [last EXCEPT ![r] = m]
    /\ doing' = [doing EXCEPT ![r] = "idle"]

\* A bug to catch: the newest message is taken first.
TakeNewest(r) ==
    /\ doing[r] = "look"
    /\ queue # <<>>
    /\ queue' = SubSeq(queue, 1, Len(queue) - 1)
    /\ Got(r, queue[Len(queue)])
    /\ UNCHANGED <<receivers, inbox, waking, accepted>>

\* The queue has a message.
TakeQueued(r) ==
    /\ doing[r] = "look"
    /\ queue # <<>>
    /\ queue' = Tail(queue)
    /\ Got(r, Head(queue))
    /\ UNCHANGED <<receivers, inbox, waking, accepted>>

\* Nothing queued: registered, inbox emptied and blocked in one section.
Register(r) ==
    /\ doing[r] = "look"
    /\ queue = <<>>
    /\ receivers' = Append(receivers, r)
    /\ inbox' = [inbox EXCEPT ![r] = NoMessage]
    /\ doing' = [doing EXCEPT ![r] = "blocked"]
    /\ UNCHANGED <<queue, waking, accepted, last>>

\* Back from schedule(): take the inbox, or go round again.
TakeInbox(r) ==
    /\ doing[r] = "woken"
    /\ inbox' = [inbox EXCEPT ![r] = NoMessage]
    /\ IF inbox[r] # NoMessage
       THEN Got(r, inbox[r])
       ELSE doing' = [doing EXCEPT ![r] = "look"] /\ UNCHANGED last
    /\ UNCHANGED <<queue, receivers, waking, accepted>>

\* try_recv.
TryRecv(r) ==
    /\ doing[r] = "idle"
    /\ queue # <<>>
    /\ queue' = Tail(queue)
    /\ last' = [last EXCEPT ![r] = Head(queue)]
    /\ UNCHANGED <<receivers, inbox, doing, waking, accepted>>
-----------------------------------------------------------------------------
Sending == DeliverDirect \/ DeliverQueued \/ DeliverFull

Receiving(r) == TakeQueued(r) \/ Register(r) \/ TakeInbox(r)

Next ==
    \/ Sending
    \/ \E r \in Receivers : Wake(r) \/ StartRecv(r) \/ Receiving(r) \/ TryRecv(r)

Spec == Init /\ [][Next]_vars

\* A receiver that runs goes on, and a wake() that is due is made.
FairSpec ==
    /\ Spec
    /\ \A r \in Receivers : WF_vars(Wake(r)) /\ WF_vars(Receiving(r))
-----------------------------------------------------------------------------
(* Properties.                                                              *)

\* Accepted and not received: queued, or in some inbox.
InTransit == Range(queue) \cup {inbox[r] : r \in {q \in Receivers : inbox[q] # NoMessage}}

\* What the endpoint promises: every accepted message is received exactly
\* once, and in order at each receiver (Mailbox).
Promise == INSTANCE Mailbox WITH box <- InTransit
KeepsPromise == Promise!MSpec

\* No receiver sleeps beside a queued message (recv: a sender "can never slip a
\* message in between and have its wake-up lost").
NoReceiverSleepsBesideAMessage ==
    queue # <<>> => \A r \in Receivers : doing[r] = "blocked" => r \in waking

\* A message in the inbox belongs to a receiver that is about to be woken or
\* to take it, so recv()'s clearing of the inbox never throws one away; the
\* queue never grows past its limit.
InboxIsExpected ==
    /\ Len(queue) <= QUEUE_LIMIT
    /\ \A r \in Receivers : inbox[r] # NoMessage => r \in waking \/ doing[r] = "woken"

\* An accepted message handed to a receiver is received.
HandedOverIsReceived ==
    \A r \in Receivers : (inbox[r] # NoMessage) ~> (inbox[r] = NoMessage /\ doing[r] = "idle")
=============================================================================
