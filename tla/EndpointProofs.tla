--------------------------- MODULE EndpointProofs ---------------------------
(***************************************************************************)
(* Proofs about Endpoint: it implements Mailbox and loses neither a message  *)
(* nor a wake-up, for any number of receivers and messages and any limit of  *)
(* the queue.                                                                 *)
(***************************************************************************)
EXTENDS Endpoint, SequenceTheorems, TLAPS

\* A sequence of numbers that grow, and one in which nothing occurs twice.
Increasing(s) == \A i, j \in 1 .. Len(s) : i < j => s[i] < s[j]
Once(s) == \A i, j \in 1 .. Len(s) : s[i] = s[j] => i = j

\* The list of receivers: each is asleep and in it once, and the list is empty
\* while a message is queued.
ListOfReceivers ==
    /\ \A i \in 1 .. Len(receivers) : doing[receivers[i]] = "blocked" /\ receivers[i] \notin waking
    /\ Once(receivers)
    /\ queue # <<>> => receivers = <<>>
    /\ \A r \in Receivers :
         doing[r] = "blocked" => r \in waking \/ \E i \in 1 .. Len(receivers) : receivers[i] = r

\* A receiver has a message in its inbox exactly from the hand-over until it
\* takes the message.
Inboxes ==
    /\ \A r \in waking : doing[r] = "blocked"
    /\ \A r \in Receivers : inbox[r] # 0 <=> r \in waking \/ doing[r] = "woken"

\* The order of the messages: the queue is sorted, a message in an inbox is
\* older than those queued, newer than what its receiver got before, and in no
\* other inbox.
Order ==
    /\ Increasing(queue)
    /\ \A i \in 1 .. Len(queue) : 0 < queue[i] /\ queue[i] <= accepted
    /\ \A i \in 1 .. Len(queue), r \in Receivers : last[r] < queue[i] /\ inbox[r] < queue[i]
    /\ \A r \in Receivers : last[r] <= accepted /\ inbox[r] <= accepted
    /\ \A r \in Receivers : inbox[r] # 0 => last[r] < inbox[r]
    /\ \A r, q \in Receivers : r # q /\ inbox[r] # 0 => inbox[r] # inbox[q]

IInv == TypeOK /\ ListOfReceivers /\ Inboxes /\ Order

\* The invariant holds of a new endpoint.
LEMMA InitInv == Init => IInv
  <1> SUFFICES ASSUME Init PROVE IInv
    OBVIOUS
  <1> USE EndpointAssumption DEF Init
  <1>1. TypeOK
    BY DEF TypeOK
  <1>2. ListOfReceivers /\ Inboxes /\ Order
    BY DEF ListOfReceivers, Inboxes, Order, Once, Increasing
  <1> QED BY <1>1, <1>2 DEF IInv

\* A receiver in the list can be handed the message: it is the first one.
LEMMA FirstIsHanded ==
    ASSUME IInv
    PROVE  /\ receivers # <<>> => HandOver(1)
           /\ \A k \in 1 .. Len(receivers) : HandOver(k) => k = 1
BY DEF IInv, TypeOK, ListOfReceivers, HandOver

\* The sequence without its first element.
LEMMA TailFacts ==
    ASSUME NEW S, NEW s \in Seq(S), s # <<>>
    PROVE  /\ Tail(s) \in Seq(S) /\ Len(Tail(s)) = Len(s) - 1 /\ Len(s) \in Nat \ {0}
           /\ \A i \in 1 .. Len(s) - 1 : Tail(s)[i] = s[i + 1] /\ i + 1 \in 1 .. Len(s)
           /\ Head(s) = s[1] /\ s[1] \in S
OBVIOUS

\* An increasing sequence stays one, and loses its smallest element.
LEMMA TailIncreasing ==
    ASSUME NEW s \in Seq(Nat), s # <<>>, Increasing(s)
    PROVE  /\ Increasing(Tail(s))
           /\ \A i \in 1 .. Len(Tail(s)) : s[1] < Tail(s)[i] /\ \E j \in 1 .. Len(s) : Tail(s)[i] = s[j]
  <1>1. /\ Len(Tail(s)) = Len(s) - 1 /\ Len(s) \in Nat \ {0}
        /\ \A i \in 1 .. Len(s) - 1 : Tail(s)[i] = s[i + 1] /\ i + 1 \in 1 .. Len(s)
    OBVIOUS
  <1> DEFINE t == Tail(s)
             n == Len(s)
  <1> HIDE DEF t, n
  <1>2. \A i \in 1 .. n - 1 : t[i] = s[i+1] /\ i + 1 \in 1 .. n
    BY <1>1 DEF t, n
  <1>3. ASSUME NEW i \in 1 .. n - 1, NEW j \in 1 .. n - 1, i < j
        PROVE  t[i] < t[j]
    <2>1. i + 1 \in 1 .. n /\ j + 1 \in 1 .. n /\ i + 1 < j + 1
       BY <1>1, <1>3 DEF n
    <2>2. s[i + 1] < s[j + 1]
      BY <2>1 DEF Increasing, n
    <2> QED BY <2>2, <1>2
  <1>4. \A i \in 1 .. n - 1 : s[1] < t[i] /\ \E j \in 1 .. n : t[i] = s[j]
    BY <1>1, <1>2 DEF Increasing, n
  <1> QED BY <1>1, <1>3, <1>4 DEF Increasing, t, n

\* An increasing sequence stays one when a larger number is added.
LEMMA AppendIncreasing ==
    ASSUME NEW s \in Seq(Nat), NEW x \in Nat, Increasing(s), \A i \in 1 .. Len(s) : s[i] < x
    PROVE  Increasing(Append(s, x))
  <1> DEFINE t == Append(s, x)
             n == Len(s)
  <1>1. /\ Len(t) = n + 1 /\ n \in Nat /\ t[n + 1] = x
        /\ \A i \in 1 .. n : t[i] = s[i]
    OBVIOUS
  <1> HIDE DEF t, n
  <1>2. ASSUME NEW i \in 1 .. n + 1, NEW j \in 1 .. n + 1, i < j
        PROVE  t[i] < t[j]
    <2>1. i \in 1 .. n
      BY <1>1, <1>2
    <2>2. CASE j = n + 1
      BY <1>1, <2>1, <2>2 DEF n
    <2>3. CASE j \in 1 .. n
      BY <1>1, <1>2, <2>1, <2>3 DEF n, Increasing
    <2> QED BY <1>1, <2>2, <2>3
  <1> QED BY <1>1, <1>2 DEF Increasing, t, n
\* A sequence without repetition stays one, and loses its first element only.
LEMMA TailOnce ==
    ASSUME NEW S, NEW s \in Seq(S), s # <<>>, Once(s)
    PROVE  /\ Once(Tail(s))
           /\ \A i \in 1 .. Len(Tail(s)) : Tail(s)[i] # s[1] /\ \E j \in 1 .. Len(s) : Tail(s)[i] = s[j]
           /\ \A j \in 1 .. Len(s) : s[j] # s[1] => \E i \in 1 .. Len(Tail(s)) : Tail(s)[i] = s[j]
  <1> DEFINE t == Tail(s)
             n == Len(s)
  <1>1. /\ Len(t) = n - 1 /\ n \in Nat \ {0}
        /\ \A i \in 1 .. n - 1 : t[i] = s[i + 1] /\ i + 1 \in 1 .. n
    OBVIOUS
  <1> HIDE DEF t, n
  <1>2. \A i \in 1 .. n - 1, j \in 1 .. n - 1 : t[i] = t[j] => i = j
    BY <1>1 DEF Once, n
  <1>3. \A i \in 1 .. n - 1 : t[i] # s[1] /\ \E j \in 1 .. n : t[i] = s[j]
    BY <1>1 DEF Once, n
  <1>4. ASSUME NEW j \in 1 .. n, s[j] # s[1]
        PROVE  \E i \in 1 .. n - 1 : t[i] = s[j]
    <2>1. j - 1 \in 1 .. n - 1 /\ (j - 1) + 1 = j
      BY <1>1, <1>4
    <2>2. t[j - 1] = s[j]
      BY <1>1, <2>1
    <2> QED BY <2>1, <2>2
  <1> QED BY <1>1, <1>2, <1>3, <1>4 DEF Once, t, n

\* What a message accepted now does to the state it is handed over in.
LEMMA DirectInv == IInv /\ DeliverDirect => IInv'
  <1> SUFFICES ASSUME IInv, DeliverDirect PROVE IInv'
    OBVIOUS
  <1> USE EndpointAssumption
  <1> DEFINE r == Head(receivers)
  <1>1. receivers # <<>> /\ r = receivers[1] /\ r \in Receivers
    BY FirstIsHanded DEF DeliverDirect, IInv, TypeOK
  <1>2. /\ inbox' = [inbox EXCEPT ![r] = accepted + 1]
        /\ receivers' = Tail(receivers)
        /\ waking' = waking \cup {r}
        /\ accepted' = accepted + 1
        /\ UNCHANGED <<queue, doing, last>>
    <2>1. PICK k \in 1 .. Len(receivers) :
             /\ HandOver(k)
             /\ inbox' = [inbox EXCEPT ![receivers[k]] = accepted + 1]
             /\ receivers' = SubSeq(receivers, k + 1, Len(receivers))
             /\ waking' = waking \cup {receivers[k]}
      BY DEF DeliverDirect
    <2>2. k = 1
      BY <2>1, FirstIsHanded
    <2>3. SubSeq(receivers, 2, Len(receivers)) = Tail(receivers)
      BY <1>1, TailIsSubSeq DEF IInv, TypeOK
    <2>4. receivers[k] = r /\ k + 1 = 2
      BY <1>1, <2>2
    <2> QED BY <2>1, <2>3, <2>4 DEF DeliverDirect
  <1>3. doing[r] = "blocked" /\ r \notin waking /\ inbox[r] = 0 /\ queue = <<>>
    <2>1. 1 \in 1 .. Len(receivers)
      BY <1>1 DEF IInv, TypeOK
    <2>2. doing[r] = "blocked" /\ r \notin waking /\ queue = <<>>
      BY <1>1, <2>1 DEF IInv, ListOfReceivers
    <2> QED BY <1>1, <2>2 DEF IInv, Inboxes
  <1>4. TypeOK'
    BY <1>1, <1>2 DEF IInv, TypeOK
  <1>5. ListOfReceivers'
    <2> HIDE DEF r
    <2>1. /\ Once(receivers')
          /\ \A i \in 1 .. Len(receivers') :
               receivers'[i] # r /\ \E j \in 1 .. Len(receivers) : receivers'[i] = receivers[j]
          /\ \A j \in 1 .. Len(receivers) :
               receivers[j] # r => \E i \in 1 .. Len(receivers') : receivers'[i] = receivers[j]
      <3>1. receivers \in Seq(Receivers) /\ receivers # <<>> /\ Once(receivers)
        BY <1>1 DEF IInv, TypeOK, ListOfReceivers
      <3>2. receivers' = Tail(receivers) /\ receivers[1] = r
        BY <1>1, <1>2
      <3> DEFINE T == Tail(receivers)
      <3>3. /\ Once(T)
            /\ \A i \in 1 .. Len(T) :
                 T[i] # receivers[1] /\ \E j \in 1 .. Len(receivers) : T[i] = receivers[j]
            /\ \A j \in 1 .. Len(receivers) :
                 receivers[j] # receivers[1] => \E i \in 1 .. Len(T) : T[i] = receivers[j]
        BY <3>1, TailOnce
      <3> QED BY <3>2, <3>3, Zenon
    <2>2. \A i \in 1 .. Len(receivers') :
            doing'[receivers'[i]] = "blocked" /\ receivers'[i] \notin waking'
      <3> SUFFICES ASSUME NEW i \in 1 .. Len(receivers')
                   PROVE  doing'[receivers'[i]] = "blocked" /\ receivers'[i] \notin waking'
        OBVIOUS
      <3>1. PICK j \in 1 .. Len(receivers) : receivers'[i] = receivers[j]
        BY <2>1
      <3>2. doing[receivers[j]] = "blocked" /\ receivers[j] \notin waking /\ receivers[j] # r
        BY <2>1, <3>1 DEF IInv, ListOfReceivers
      <3> QED BY <1>2, <3>1, <3>2
    <2>3. \A q \in Receivers :
            doing'[q] = "blocked" => q \in waking' \/ \E i \in 1 .. Len(receivers') : receivers'[i] = q
      <3> SUFFICES ASSUME NEW q \in Receivers, doing'[q] = "blocked", q \notin waking'
                   PROVE  \E i \in 1 .. Len(receivers') : receivers'[i] = q
        OBVIOUS
      <3>1. q # r /\ q \notin waking /\ doing[q] = "blocked"
        BY <1>2
      <3>2. PICK j \in 1 .. Len(receivers) : receivers[j] = q
        BY <3>1 DEF IInv, ListOfReceivers
      <3> QED BY <2>1, <3>1, <3>2
    <2> QED BY <1>2, <1>3, <2>1, <2>2, <2>3 DEF ListOfReceivers
  <1>6. Inboxes'
    BY <1>1, <1>2, <1>3 DEF IInv, TypeOK, Inboxes
  <1>7. Order'
    <2> HIDE DEF r
    <2>1. \A q \in Receivers : inbox'[q] = IF q = r THEN accepted + 1 ELSE inbox[q]
      BY <1>1, <1>2 DEF IInv, TypeOK
    <2>2. \A q \in Receivers : inbox[q] < accepted + 1 /\ last[q] < accepted + 1
      BY DEF IInv, TypeOK, Order
    <2>3. \A q \in Receivers : last'[q] <= accepted' /\ inbox'[q] <= accepted'
      BY <1>2, <2>1, <2>2 DEF IInv, TypeOK
    <2>4. \A q \in Receivers : inbox'[q] # 0 => last'[q] < inbox'[q]
      BY <1>2, <2>1, <2>2 DEF IInv, Order
    <2>5. \A p, q \in Receivers : p # q /\ inbox'[p] # 0 => inbox'[p] # inbox'[q]
      <3>1. \A q \in Receivers : inbox[q] # accepted + 1
        BY <2>2 DEF IInv, TypeOK
      <3>2. \A p, q \in Receivers : p # q /\ inbox[p] # 0 => inbox[p] # inbox[q]
        BY DEF IInv, Order
      <3> QED BY <2>1, <3>1, <3>2
    <2>6. Increasing(queue') /\ Len(queue') = 0
      BY <1>2, <1>3 DEF Increasing
    <2> QED BY <2>3, <2>4, <2>5, <2>6 DEF Order
  <1> QED BY <1>4, <1>5, <1>6, <1>7 DEF IInv

\* A message is queued only when nobody waits, and it is the newest.
LEMMA QueuedInv == IInv /\ DeliverQueued => IInv'
  <1> SUFFICES ASSUME IInv, DeliverQueued PROVE IInv'
    OBVIOUS
  <1> USE EndpointAssumption
  <1>1. receivers = <<>>
    BY FirstIsHanded DEF DeliverQueued, IInv, TypeOK
  <1>2. /\ queue' \in Seq(Nat) /\ Len(queue') = Len(queue) + 1
        /\ queue'[Len(queue) + 1] = accepted + 1
        /\ \A i \in 1 .. Len(queue) : queue'[i] = queue[i]
    BY DEF DeliverQueued, IInv, TypeOK
  <1>3. TypeOK'
    BY <1>1, <1>2 DEF DeliverQueued, IInv, TypeOK
  <1>4. ListOfReceivers' /\ Inboxes'
    BY <1>1 DEF DeliverQueued, IInv, ListOfReceivers, Inboxes
  <1>5. Order'
    <2>1. \A i \in 1 .. Len(queue) : queue[i] \in Nat /\ queue[i] < accepted + 1
      BY DEF IInv, TypeOK, Order
    <2>2. Increasing(queue')
      <3>1. queue' = Append(queue, accepted + 1)
        BY DEF DeliverQueued
      <3>2. queue \in Seq(Nat) /\ accepted + 1 \in Nat /\ Increasing(queue)
        BY DEF IInv, TypeOK, Order
      <3>3. Increasing(Append(queue, accepted + 1))
        BY <2>1, <3>2, AppendIncreasing
      <3> QED BY <3>1, <3>3
    <2>3. \A i \in 1 .. Len(queue') :
            queue'[i] = accepted + 1 \/ \E j \in 1 .. Len(queue) : queue'[i] = queue[j]
      <3>1. \A i \in 1 .. Len(queue') : i = Len(queue) + 1 \/ i \in 1 .. Len(queue)
        BY <1>2 DEF IInv, TypeOK
      <3> QED BY <1>2, <3>1
    <2>4. \A i \in 1 .. Len(queue') : 0 < queue'[i] /\ queue'[i] <= accepted + 1
      <3>1. 0 < accepted + 1 /\ accepted + 1 <= accepted + 1
        BY DEF IInv, TypeOK
      <3>2. \A j \in 1 .. Len(queue) : 0 < queue[j] /\ queue[j] <= accepted + 1
        BY <2>1 DEF IInv, TypeOK, Order
      <3> QED BY <2>3, <3>1, <3>2
    <2>5. \A r \in Receivers : last[r] < accepted + 1 /\ inbox[r] < accepted + 1
      BY DEF IInv, TypeOK, Order
    <2>6. \A i \in 1 .. Len(queue'), r \in Receivers : last[r] < queue'[i] /\ inbox[r] < queue'[i]
      BY <2>3, <2>5 DEF IInv, Order
    <2>7. accepted' = accepted + 1 /\ UNCHANGED <<last, inbox>>
      BY DEF DeliverQueued
    <2>8. \A r \in Receivers : last'[r] <= accepted' /\ inbox'[r] <= accepted'
      BY <2>5, <2>7 DEF IInv, TypeOK
    <2> QED BY <2>2, <2>4, <2>6, <2>7, <2>8 DEF IInv, Order
  <1> QED BY <1>3, <1>4, <1>5 DEF IInv

\* Who is refused leaves the queue as it was, and nobody was waiting.
LEMMA FullInv == IInv /\ DeliverFull => IInv' /\ UNCHANGED <<queue, inbox, receivers>>
  <1> SUFFICES ASSUME IInv, DeliverFull PROVE IInv' /\ UNCHANGED <<queue, inbox, receivers>>
    OBVIOUS
  <1>1. receivers = <<>>
    BY FirstIsHanded DEF DeliverFull, IInv, TypeOK
  <1> QED BY <1>1 DEF DeliverFull, IInv, TypeOK, ListOfReceivers, Inboxes, Order

\* The oldest queued message goes to a receiver that has an empty inbox.
LEMMA TakeInv ==
    ASSUME IInv, NEW r \in Receivers, TakeQueued(r) \/ TryRecv(r)
    PROVE  IInv'
  <1> USE EndpointAssumption
  <1>1. queue # <<>> /\ queue' = Tail(queue) /\ receivers = <<>> /\ inbox[r] = 0
    BY DEF TakeQueued, TryRecv, IInv, TypeOK, ListOfReceivers, Inboxes
  <1>2. /\ Len(queue') = Len(queue) - 1 /\ queue' \in Seq(Nat)
        /\ \A i \in 1 .. Len(queue) - 1 : queue'[i] = queue[i + 1]
        /\ Head(queue) = queue[1] /\ 1 \in 1 .. Len(queue)
    BY <1>1, TailFacts DEF IInv, TypeOK
  <1>3. /\ last' = [last EXCEPT ![r] = queue[1]]
        /\ doing' = [doing EXCEPT ![r] = "idle"]
        /\ UNCHANGED <<receivers, inbox, waking, accepted>>
        /\ doing[r] \in {"look", "idle"}
    BY <1>2 DEF TakeQueued, TryRecv, Got, IInv, TypeOK
  <1>4. TypeOK'
    BY <1>2, <1>3 DEF IInv, TypeOK
  <1>5. ListOfReceivers'
    BY <1>1, <1>3 DEF IInv, TypeOK, ListOfReceivers
  <1>6. Inboxes'
    BY <1>3 DEF IInv, TypeOK, Inboxes
  <1>7. Order'
    <2>2. Increasing(queue')
      BY <1>1, TailIncreasing DEF IInv, TypeOK, Order
    <2>3. \A i \in 1 .. Len(queue') :
            queue[1] < queue'[i] /\ \E j \in 1 .. Len(queue) : queue'[i] = queue[j]
      BY <1>1, TailIncreasing DEF IInv, TypeOK, Order
    <2>4. \A i \in 1 .. Len(queue') : 0 < queue'[i] /\ queue'[i] <= accepted'
      BY <1>3, <2>3 DEF IInv, Order
    <2>5. \A i \in 1 .. Len(queue'), q \in Receivers :
            last'[q] < queue'[i] /\ inbox'[q] < queue'[i]
      BY <1>3, <2>3 DEF IInv, TypeOK, Order
    <2>6. \A q \in Receivers : last'[q] <= accepted' /\ inbox'[q] <= accepted'
      BY <1>2, <1>3 DEF IInv, TypeOK, Order
    <2>7. \A q \in Receivers : inbox'[q] # 0 => last'[q] < inbox'[q]
      BY <1>1, <1>3 DEF IInv, TypeOK, Order
    <2> QED BY <1>2, <1>3, <2>2, <2>4, <2>5, <2>6, <2>7 DEF IInv, Order
  <1> QED BY <1>4, <1>5, <1>6, <1>7 DEF IInv
\* Every other step preserves the invariant, and so does every step.
LEMMA StepInv == IInv /\ [Next]_vars => IInv'
  <1> SUFFICES ASSUME IInv, [Next]_vars PROVE IInv'
    OBVIOUS
  <1> USE EndpointAssumption
  <1>1. CASE Sending
    BY <1>1, DirectInv, QueuedInv, FullInv DEF Sending
  <1>2. ASSUME NEW r \in Receivers, Wake(r) PROVE IInv'
    <2>1. TypeOK' /\ Order'
      BY <1>2 DEF Wake, IInv, TypeOK, Order
    <2>2. ListOfReceivers'
      BY <1>2 DEF Wake, IInv, TypeOK, ListOfReceivers
    <2>3. Inboxes'
      BY <1>2 DEF Wake, IInv, TypeOK, Inboxes
    <2> QED BY <2>1, <2>2, <2>3 DEF IInv
  <1>3. ASSUME NEW r \in Receivers, StartRecv(r) PROVE IInv'
    <2>1. TypeOK' /\ Order'
      BY <1>3 DEF StartRecv, IInv, TypeOK, Order
    <2>2. ListOfReceivers'
      BY <1>3 DEF StartRecv, IInv, TypeOK, ListOfReceivers
    <2>3. Inboxes'
      BY <1>3 DEF StartRecv, IInv, TypeOK, Inboxes
    <2> QED BY <2>1, <2>2, <2>3 DEF IInv
  <1>4. ASSUME NEW r \in Receivers, Register(r) PROVE IInv'
    <2>1. inbox' = inbox
      BY <1>4 DEF Register, IInv, TypeOK, Inboxes
    <2>2. TypeOK' /\ Order' /\ Inboxes'
      BY <1>4, <2>1 DEF Register, IInv, TypeOK, Order, Inboxes
    <2>3. ListOfReceivers'
      <3> DEFINE n == Len(receivers)
      <3>1. /\ Len(receivers') = n + 1 /\ n \in Nat /\ receivers'[n + 1] = r
            /\ \A i \in 1 .. n : receivers'[i] = receivers[i] /\ receivers[i] \in Receivers
        BY <1>4 DEF Register, IInv, TypeOK
      <3>2. doing' = [doing EXCEPT ![r] = "blocked"] /\ doing[r] = "look" /\ r \notin waking
        BY <1>4 DEF Register, IInv, Inboxes
      <3>3. \A i \in 1 .. n : receivers[i] # r
        BY <3>2 DEF IInv, ListOfReceivers
      <3> HIDE DEF n
      <3>4. \A i \in 1 .. n + 1 : i = n + 1 \/ i \in 1 .. n
        BY <3>1
      <3>5. Once(receivers')
        <4>1. \A i, j \in 1 .. n : receivers[i] = receivers[j] => i = j
          BY DEF IInv, ListOfReceivers, Once, n
        <4> QED BY <3>1, <3>3, <3>4, <4>1 DEF Once
      <3>6. \A i \in 1 .. n + 1 : doing'[receivers'[i]] = "blocked" /\ receivers'[i] \notin waking
        <4>1. \A i \in 1 .. n : doing[receivers[i]] = "blocked" /\ receivers[i] \notin waking
          BY DEF IInv, ListOfReceivers, n
        <4> QED BY <3>1, <3>2, <3>4, <4>1 DEF IInv, TypeOK
      <3>7. \A q \in Receivers : doing'[q] = "blocked" =>
              q \in waking \/ \E i \in 1 .. n + 1 : receivers'[i] = q
        <4>1. \A q \in Receivers : doing[q] = "blocked" =>
                q \in waking \/ \E i \in 1 .. n : receivers[i] = q
          BY DEF IInv, ListOfReceivers, n
        <4>2. \A i \in 1 .. n : i \in 1 .. n + 1
          BY <3>1
        <4>3. n + 1 \in 1 .. n + 1
          BY <3>1
        <4>4. ASSUME NEW q \in Receivers, q # r, doing'[q] = "blocked"
              PROVE  q \in waking \/ \E i \in 1 .. n + 1 : receivers'[i] = q
          <5>1. doing[q] = "blocked"
            BY <3>2, <4>4 DEF IInv, TypeOK
          <5> QED BY <3>1, <4>1, <4>2, <5>1
        <4> QED BY <3>1, <4>3, <4>4
      <3> QED BY <1>4, <3>1, <3>5, <3>6, <3>7 DEF Register, ListOfReceivers
    <2> QED BY <2>2, <2>3 DEF IInv
  <1>5. ASSUME NEW r \in Receivers, TakeInbox(r) PROVE IInv'
    <2>1. /\ inbox[r] # 0 /\ r \notin waking
          /\ inbox' = [inbox EXCEPT ![r] = 0]
          /\ last' = [last EXCEPT ![r] = inbox[r]]
          /\ doing' = [doing EXCEPT ![r] = "idle"]
          /\ UNCHANGED <<queue, receivers, waking, accepted>>
      BY <1>5 DEF TakeInbox, Got, IInv, TypeOK, Inboxes
    <2>2. TypeOK' /\ Inboxes'
      BY <2>1 DEF IInv, TypeOK, Inboxes
    <2>3. ListOfReceivers'
      <3>1. doing[r] # "blocked" /\ \A q \in Receivers : q # r => doing'[q] = doing[q]
        BY <1>5, <2>1 DEF TakeInbox, IInv, TypeOK
      <3>2. \A i \in 1 .. Len(receivers) : receivers[i] \in Receivers \ {r}
        <4>1. \A i \in 1 .. Len(receivers) : receivers[i] \in Receivers
          BY DEF IInv, TypeOK
        <4> QED BY <3>1, <4>1 DEF IInv, ListOfReceivers
      <3>3. doing'[r] # "blocked"
        BY <2>1 DEF IInv, TypeOK
      <3> QED BY <2>1, <3>1, <3>2, <3>3 DEF IInv, ListOfReceivers
    <2>4. Order'
      BY <2>1 DEF IInv, TypeOK, Order
    <2> QED BY <2>2, <2>3, <2>4 DEF IInv
  <1>6. CASE UNCHANGED vars
    BY <1>6 DEF vars, IInv, TypeOK, ListOfReceivers, Inboxes, Order
  <1> QED BY <1>1, <1>2, <1>3, <1>4, <1>5, <1>6, TakeInv DEF Next, Receiving

\* No receiver sleeps beside a queued message: recv() registers and blocks in
\* the section in which it finds the queue empty.
THEOREM WakeupsAreKept == Spec => []NoReceiverSleepsBesideAMessage
  <1>1. IInv => NoReceiverSleepsBesideAMessage
    BY DEF IInv, ListOfReceivers, NoReceiverSleepsBesideAMessage
  <1> QED BY <1>1, InitInv, StepInv, PTL DEF Spec

\* recv()'s clearing of the inbox never throws a message away, and the queue
\* keeps its limit.
THEOREM InboxesAreExpected == Spec => []InboxIsExpected
  <1>1. IInv => InboxIsExpected
    BY EndpointAssumption DEF IInv, TypeOK, Inboxes, InboxIsExpected
  <1> QED BY <1>1, InitInv, StepInv, PTL DEF Spec

\* The elements of a sequence.
LEMMA RangeElements ==
    ASSUME NEW S, NEW s \in Seq(S)
    PROVE  \A x : x \in Range(s) <=> \E i \in 1 .. Len(s) : s[i] = x
  <1>1. DOMAIN s = 1 .. Len(s)
    OBVIOUS
  <1> QED BY <1>1, Zenon DEF Range

\* What a receive takes out of the messages in transit: the oldest queued one ...
LEMMA TakeRefines ==
    ASSUME IInv, NEW r \in Receivers, TakeQueued(r) \/ TryRecv(r)
    PROVE  Promise!Receive(r)
  <1> USE EndpointAssumption
  <1> DEFINE m == queue[1]
  <1>1. queue # <<>> /\ queue' = Tail(queue) /\ UNCHANGED <<inbox, accepted>>
    BY DEF TakeQueued, TryRecv
  <1>2. Head(queue) = m /\ Len(queue) \in Nat \ {0} /\ m \in Nat
    BY <1>1, TailFacts DEF IInv, TypeOK
  <1>3. last' = [last EXCEPT ![r] = m]
    BY <1>2 DEF TakeQueued, TryRecv, Got
  <1>4. m > last[r]
    BY <1>2 DEF IInv, TypeOK, Order
  <1>5. Range(queue') = Range(queue) \ {m}
    <2>1. /\ \A i \in 1 .. Len(queue') :
               m < queue'[i] /\ \E j \in 1 .. Len(queue) : queue'[i] = queue[j]
          /\ Len(queue') = Len(queue) - 1 /\ queue' \in Seq(Nat)
          /\ \A i \in 1 .. Len(queue) - 1 : queue'[i] = queue[i + 1]
      BY <1>1, TailIncreasing, TailFacts DEF IInv, TypeOK, Order
    <2>2. \A i \in 1 .. Len(queue') : queue'[i] # m
      BY <1>2, <2>1
    <2>3. \A j \in 1 .. Len(queue) : j = 1 \/ j - 1 \in 1 .. Len(queue) - 1
      BY <1>2
    <2>4. \A j \in 1 .. Len(queue) : queue[j] = m \/ \E i \in 1 .. Len(queue') : queue'[i] = queue[j]
      <3> SUFFICES ASSUME NEW j \in 1 .. Len(queue), j # 1
                   PROVE  \E i \in 1 .. Len(queue') : queue'[i] = queue[j]
        OBVIOUS
      <3>1. j - 1 \in 1 .. Len(queue') /\ (j - 1) + 1 = j
        BY <1>2, <2>1, <2>3
      <3>2. queue'[j - 1] = queue[j]
        BY <2>1, <3>1
      <3> QED BY <3>1, <3>2
    <2> HIDE DEF m
    <2>5. /\ \A x : x \in Range(queue') <=> \E i \in 1 .. Len(queue') : queue'[i] = x
          /\ \A x : x \in Range(queue) <=> \E i \in 1 .. Len(queue) : queue[i] = x
      <3>1. queue \in Seq(Nat) /\ queue' \in Seq(Nat)
        BY <2>1 DEF IInv, TypeOK
      <3> QED BY <3>1, RangeElements, Zenon
    <2>6. \A x : x \in Range(queue') <=> x \in Range(queue) /\ x # m
      <3>1. \A x : x \in Range(queue') => x \in Range(queue) /\ x # m
        BY <2>1, <2>2, <2>5
      <3>2. \A x : x \in Range(queue) /\ x # m => x \in Range(queue')
        BY <2>4, <2>5
      <3> QED BY <3>1, <3>2
    <2> QED BY <2>6
  <1>6. \A q \in Receivers : inbox[q] # m
    <2>1. 1 \in 1 .. Len(queue)
      BY <1>2
    <2>2. \A q \in Receivers : inbox[q] < m
      BY <2>1 DEF IInv, Order
    <2>3. \A q \in Receivers : inbox[q] \in Nat
      BY DEF IInv, TypeOK
    <2> QED BY <1>2, <2>2, <2>3
  <1>7. m \in Range(queue)
    BY <1>2 DEF Range, IInv, TypeOK
  <1> HIDE DEF m
  <1>8. m \in InTransit /\ InTransit' = InTransit \ {m}
    BY <1>1, <1>5, <1>6, <1>7 DEF InTransit
  <1> QED BY <1>1, <1>3, <1>4, <1>8 DEF Promise!Receive

\* ... or the one in the receiver's inbox.
LEMMA InboxRefines ==
    ASSUME IInv, NEW r \in Receivers, TakeInbox(r)
    PROVE  Promise!Receive(r)
  <1> USE EndpointAssumption
  <1>1. /\ inbox[r] # 0 /\ inbox' = [inbox EXCEPT ![r] = 0]
        /\ last' = [last EXCEPT ![r] = inbox[r]]
        /\ UNCHANGED <<queue, accepted>>
    BY DEF TakeInbox, Got, IInv, TypeOK, Inboxes
  <1>2. inbox[r] > last[r]
    BY <1>1 DEF IInv, TypeOK, Order
  <1>3. inbox[r] \notin Range(queue)
    <2>1. \A i \in 1 .. Len(queue) : queue[i] # inbox[r]
      <3>1. \A i \in 1 .. Len(queue) : inbox[r] < queue[i] /\ inbox[r] \in Nat
        BY DEF IInv, TypeOK, Order
      <3> QED BY <3>1
    <2> QED BY <2>1, RangeElements DEF IInv, TypeOK
  <1>4. /\ \A q \in Receivers \ {r} : inbox'[q] = inbox[q] /\ inbox[q] # inbox[r]
        /\ inbox'[r] = 0
    BY <1>1 DEF IInv, TypeOK, Order
  <1>5. inbox[r] \in InTransit /\ InTransit' = InTransit \ {inbox[r]}
    BY <1>1, <1>3, <1>4 DEF InTransit
  <1> QED BY <1>1, <1>2, <1>5 DEF Promise!Receive

\* An accepted message is in transit, handed over ...
LEMMA DirectRefines == IInv /\ DeliverDirect => Promise!Accept
  <1> SUFFICES ASSUME IInv, DeliverDirect PROVE Promise!Accept
    OBVIOUS
  <1> USE EndpointAssumption
  <1>1. PICK k \in 1 .. Len(receivers) :
           HandOver(k) /\ inbox' = [inbox EXCEPT ![receivers[k]] = accepted + 1]
    BY DEF DeliverDirect
  <1>2. receivers[k] \in Receivers /\ inbox[receivers[k]] = 0
    <2>1. receivers[k] \in Receivers
      BY DEF IInv, TypeOK
    <2>2. doing[receivers[k]] = "blocked" /\ receivers[k] \notin waking
      BY DEF IInv, ListOfReceivers
    <2> QED BY <2>1, <2>2 DEF IInv, Inboxes
  <1>3. accepted + 1 # 0 /\ accepted' = accepted + 1 /\ UNCHANGED <<queue, last>>
    BY DEF DeliverDirect, IInv, TypeOK
  <1>4. \A q \in Receivers : inbox'[q] = IF q = receivers[k] THEN accepted + 1 ELSE inbox[q]
    BY <1>1 DEF IInv, TypeOK
  <1>5. InTransit' = InTransit \cup {accepted'}
    BY <1>2, <1>3, <1>4 DEF InTransit
  <1> QED BY <1>3, <1>5 DEF Promise!Accept

\* ... or queued.
LEMMA QueuedRefines == IInv /\ DeliverQueued => Promise!Accept
  <1> SUFFICES ASSUME IInv, DeliverQueued PROVE Promise!Accept
    OBVIOUS
  <1>1. Range(queue') = Range(queue) \cup {accepted'}
    <2>1. /\ queue' = Append(queue, accepted') /\ queue \in Seq(Nat) /\ accepted' \in Nat
      BY DEF DeliverQueued, IInv, TypeOK
    <2>2. /\ Len(queue') = Len(queue) + 1 /\ queue' \in Seq(Nat)
          /\ queue'[Len(queue) + 1] = accepted' /\ Len(queue) \in Nat
          /\ \A i \in 1 .. Len(queue) : queue'[i] = queue[i]
      BY <2>1
    <2>3. \A i : i \in 1 .. Len(queue') <=> i = Len(queue) + 1 \/ i \in 1 .. Len(queue)
      BY <2>2
    <2>4. /\ \A x : x \in Range(queue') <=> \E i \in 1 .. Len(queue') : queue'[i] = x
          /\ \A x : x \in Range(queue) <=> \E i \in 1 .. Len(queue) : queue[i] = x
      <3>1. queue \in Seq(Nat) /\ queue' \in Seq(Nat)
        BY <2>1, <2>2
      <3> QED BY <3>1, RangeElements, Zenon
    <2>5. \A x : x \in Range(queue') <=> x \in Range(queue) \/ x = accepted'
      <3>1. \A x : x \in Range(queue') => x \in Range(queue) \/ x = accepted'
        BY <2>2, <2>3, <2>4
      <3>2. \A x : x \in Range(queue) => x \in Range(queue')
        BY <2>2, <2>3, <2>4
      <3>3. accepted' \in Range(queue')
        BY <2>2, <2>3, <2>4
      <3> QED BY <3>1, <3>2, <3>3
    <2> QED BY <2>5
  <1> QED BY <1>1 DEF DeliverQueued, InTransit, Promise!Accept

\* An endpoint implements the mailbox: every accepted message is received
\* exactly once, and each receiver gets its messages in the order in which
\* send() accepted them, whether through the queue or through the inbox.
THEOREM EndpointKeepsItsPromise == Spec => KeepsPromise
  <1> USE EndpointAssumption
  <1>1. Init => Promise!MInit
    BY DEF Init, Promise!MInit, InTransit, Range
  <1>2. IInv /\ [Next]_vars => [Promise!MNext]_(Promise!mvars)
    <2> SUFFICES ASSUME IInv, [Next]_vars PROVE [Promise!MNext]_(Promise!mvars)
      OBVIOUS
    <2>1. CASE DeliverDirect \/ DeliverQueued
      BY <2>1, DirectRefines, QueuedRefines DEF Promise!MNext
    <2>2. ASSUME NEW r \in Receivers, TakeQueued(r) \/ TryRecv(r) \/ TakeInbox(r)
          PROVE  Promise!MNext
      BY <2>2, TakeRefines, InboxRefines DEF Promise!MNext
    <2>3. ASSUME NEW r \in Receivers, Register(r) PROVE UNCHANGED inbox
      BY <2>3 DEF Register, IInv, TypeOK, Inboxes
    <2>4. ASSUME NEW r \in Receivers, Wake(r) \/ StartRecv(r) \/ Register(r)
          PROVE  UNCHANGED Promise!mvars
      BY <2>3, <2>4 DEF Wake, StartRecv, Register, Promise!mvars, InTransit
    <2>5. CASE DeliverFull \/ UNCHANGED vars
      BY <2>5 DEF DeliverFull, vars, Promise!mvars, InTransit
    <2> QED BY <2>1, <2>2, <2>4, <2>5 DEF Next, Sending, Receiving
  <1> QED BY <1>1, <1>2, InitInv, StepInv, PTL DEF Spec, KeepsPromise, Promise!MSpec
=============================================================================
