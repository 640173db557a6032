-------------------------- MODULE SupervisorProofs --------------------------
(***************************************************************************)
(* Proofs about the services and their supervisor, for any number of        *)
(* services, task ids and restarts.                                         *)
(***************************************************************************)
EXTENDS Supervisor, TLAPS

States == {"live", "exiting", "dead"}
Labels == {"idle", "reap", "sleep", "backoff", "build", "publish", "record"}
Idling == {"idle", "reap", "sleep"}
Known == 1 .. Len(services)
Entry == [task : Nat, restarts : Nat, last_exit : {"none"} \cup Codes]
TaskOfService(S) == [service : S, state : States, code : {"none"} \cup Codes]

TypeOK ==
    /\ Len(services) \in Nat /\ services \in [Known -> Entry] /\ services \in Seq(Entry)
    /\ BUILTIN <= Len(services)
    /\ tasks \in [Ids -> TaskOfService(Known)]
    /\ next_id \in Nat \ {0}
    /\ Ids \subseteq 1 .. next_id - 1
    /\ reap \in Seq(Nat)
    /\ at \in [Spawners -> Labels]
    /\ idx \in [Spawners -> Nat]
    /\ id \in [Spawners -> Nat]

\* A spawner that has a service in its hands and no task published for it.
Working(c) == at[c] \in {"backoff", "build", "publish"}

\* A service that has no task and did not finish.
Vacant(i) == services[i].last_exit # "clean" /\ \A t \in Ids : tasks[t].service # i

\* What a spawner has in its hands.  A task that is published and not yet recorded
\* is still there, or it was overtaken.
Hand(c) ==
    /\ at[c] \in Idling => idx[c] = 0
    /\ at[c] \notin Idling => idx[c] \in Known
    /\ at[c] \notin {"publish", "record"} => id[c] = NO_TASK
    /\ at[c] \in {"publish", "record"} => id[c] \in 1 .. next_id - 1
    /\ at[c] = "publish" => id[c] \notin Ids
    /\ at[c] = "record" => \/ id[c] \notin Ids /\ idx[c] \in overtaken
                           \/ id[c] \in Ids /\ tasks[id[c]].service = idx[c]
    /\ c = "boot" => idx[c] <= BUILTIN
    /\ Working(c) => Vacant(idx[c])

\* Two spawners build different tasks, and for different services.
Apart(c, d) ==
    /\ id[c] = id[d] => (c = d \/ id[c] = NO_TASK)
    /\ (Working(c) /\ Working(d) /\ idx[c] = idx[d]) => c = d

SpawnInv == \A c \in Spawners : Hand(c) /\ \A d \in Spawners : Apart(c, d)

\* A service that the boot thread has yet to come to is nobody else's.
Ahead(i) == Vacant(i) /\ services[i].task = NO_TASK /\ \A c \in Spawners : idx[c] # i

BootInv == at["boot"] # "idle" => \A i \in idx["boot"] + 1 .. BUILTIN : Ahead(i)

OneInv ==
    \A t \in Ids :
        /\ services[tasks[t].service].last_exit # "clean"
        /\ \A u \in Ids : tasks[t].service = tasks[u].service => t = u

\* A task is on the reap list once, from its exit until it is taken.
ReapInv ==
    /\ \A k \in 1 .. Len(reap) : reap[k] \in Ids /\ tasks[reap[k]].state # "live"
    /\ \A j, k \in 1 .. Len(reap) : reap[j] = reap[k] => j = k

Named(i) ==
    /\ services[i].task # NO_TASK => services[i].task \in Ids /\ tasks[services[i].task].service = i
    /\ \A t \in Ids : tasks[t].service = i =>
          (services[i].task = t \/ \E c \in Spawners : idx[c] = i /\ id[c] = t)

NameInv == \A i \in Known \ overtaken : Named(i)

IInv == TypeOK /\ SpawnInv /\ BootInv /\ OneInv /\ ReapInv /\ NameInv
-----------------------------------------------------------------------------
(* Small facts                                                              *)

\* Leaving a service, a spawner lets go of it; the boot thread takes the next one.
LEMMA DoneLemma ==
    ASSUME TypeOK, NEW c \in Spawners, Done(c), idx[c] \in Known
    PROVE  /\ at' \in [Spawners -> Labels] /\ idx' \in [Spawners -> Nat]
           /\ \A d \in Spawners : d # c => at'[d] = at[d] /\ idx'[d] = idx[d]
           /\ \/ at'[c] = "idle" /\ idx'[c] = 0 /\ c # "sup"
              \/ at'[c] = "reap" /\ idx'[c] = 0 /\ c = "sup"
              \/ /\ c = "boot" /\ at'[c] = "build" /\ idx'[c] = idx[c] + 1
                 /\ idx[c] < BUILTIN
<1>1. at \in [Spawners -> Labels] /\ idx \in [Spawners -> Nat]
      BY Zenon DEF TypeOK
<1>2. CASE c = "boot" /\ idx[c] < BUILTIN
      BY <1>1, <1>2 DEF Done, Goto, Labels
<1>3. CASE ~(c = "boot" /\ idx[c] < BUILTIN)
      BY Zenon, <1>1, <1>3 DEF Done, Goto, Labels
<1> QED
    BY Zenon, <1>2, <1>3

LEMMA RangeLemma ==
    ASSUME NEW m \in Nat, NEW n \in Nat, m <= n
    PROVE  \A t \in 1 .. m - 1 : t \in 1 .. n - 1
OBVIOUS

LEMMA SameLengthLemma ==
    ASSUME NEW S, NEW s \in Seq(S), NEW f \in [1 .. Len(s) -> S]
    PROVE  f \in Seq(S) /\ Len(f) = Len(s)
OBVIOUS

\* A new id was given to nobody.
LEMMA NewIdLemma ==
    ASSUME IInv
    PROVE  /\ next_id \notin Ids /\ next_id # NO_TASK /\ next_id + 1 \in Nat \ {0}
           /\ \A c \in Spawners : id[c] # next_id
           /\ \A t \in 1 .. next_id - 1 : t \in 1 .. (next_id + 1) - 1
           /\ next_id \in 1 .. (next_id + 1) - 1
<1>1. next_id \in Nat \ {0} /\ Ids \subseteq 1 .. next_id - 1
      BY Zenon DEF IInv, TypeOK
<1>2. next_id \notin 1 .. next_id - 1 /\ next_id # NO_TASK
      BY <1>1, SupervisorAssumption
<1>3. ASSUME NEW c \in Spawners
      PROVE  id[c] # next_id
      BY Zenon, <1>2 DEF IInv, SpawnInv, Hand
<1>4. /\ next_id + 1 \in Nat \ {0} /\ next_id \in 1 .. (next_id + 1) - 1
      /\ \A t \in 1 .. next_id - 1 : t \in 1 .. (next_id + 1) - 1
      BY <1>1
<1> QED
    BY Zenon, <1>1, <1>2, <1>3, <1>4
-----------------------------------------------------------------------------
(* Every step keeps the invariant                                           *)

LEMMA BuildStep ==
    ASSUME IInv, NEW c \in Spawners, Build(c)
    PROVE  IInv'
<1>0. /\ at \in [Spawners -> Labels] /\ id \in [Spawners -> Nat] /\ next_id \in Nat
      /\ Ids \subseteq 1 .. next_id - 1 /\ at[c] = "build"
      BY Zenon DEF IInv, TypeOK, Build
<1>1. /\ at' = [at EXCEPT ![c] = "publish"] /\ id' = [id EXCEPT ![c] = next_id]
      /\ next_id' = next_id + 1 /\ services' = services /\ tasks' = tasks /\ reap' = reap
      /\ idx' = idx /\ overtaken' = overtaken /\ Ids' = Ids
      BY Zenon DEF Build, Goto, Ids
<1>2. /\ at'[c] = "publish" /\ id'[c] = next_id
      /\ \A d \in Spawners : d # c => at'[d] = at[d] /\ id'[d] = id[d]
      BY Zenon, <1>0, <1>1
<1>3. TypeOK'
  <2>1. at' \in [Spawners -> Labels] /\ id' \in [Spawners -> Nat]
        BY Zenon, <1>0, <1>1 DEF Labels
  <2>2. next_id' \in Nat \ {0} /\ Ids' \subseteq 1 .. next_id' - 1
        BY Zenon, <1>0, <1>1, NewIdLemma
  <2> QED
      BY Zenon, <1>1, <2>1, <2>2 DEF IInv, TypeOK, Known, Ids
<1>4. \A i : (Vacant(i)' <=> Vacant(i)) /\ (Ahead(i)' <=> Ahead(i))
      BY Zenon, <1>1 DEF Vacant, Ahead
<1>5. ASSUME NEW d \in Spawners
      PROVE  Hand(d)'
  <2>1. Hand(d)
        BY Zenon DEF IInv, SpawnInv
  <2>2. CASE d = c
        BY Zenon, <1>0, <1>1, <1>2, <1>4, <2>1, <2>2, NewIdLemma DEF Hand, Working, Idling, Known
  <2>3. CASE d # c
        BY <1>1, <1>2, <1>4, <2>1, <2>3, NewIdLemma DEF Hand, Working, Known
  <2> QED
      BY Zenon, <2>2, <2>3
<1>6. ASSUME NEW d \in Spawners, NEW e \in Spawners
      PROVE  Apart(d, e)'
  <2>1. Apart(d, e)
        BY Zenon DEF IInv, SpawnInv
  <2>2. \A f \in Spawners : Working(f)' <=> Working(f)
        BY Zenon, <1>0, <1>2 DEF Working
  <2>3. id'[d] = id'[e] => (d = e \/ id'[d] = NO_TASK)
        BY Zenon, <1>2, <2>1, NewIdLemma DEF Apart
  <2> QED
      BY Zenon, <1>1, <2>1, <2>2, <2>3 DEF Apart
<1>7. BootInv'
      BY Zenon, <1>0, <1>1, <1>2, <1>4 DEF IInv, BootInv, Spawners
<1>8. OneInv' /\ ReapInv'
      BY <1>1 DEF IInv, OneInv, ReapInv
<1>9. NameInv'
  <2> SUFFICES ASSUME NEW i \in Known \ overtaken
               PROVE  Named(i)'
      BY Zenon, <1>1 DEF NameInv, Known
  <2>1. Named(i)
        BY Zenon DEF IInv, NameInv
  <2>2. ASSUME NEW t \in Ids, tasks[t].service = i, NEW d \in Spawners, idx[d] = i, id[d] = t
        PROVE  id'[d] = t
        BY Zenon, <1>0, <1>2, <2>2 DEF IInv, SpawnInv, Hand, Working, Vacant
  <2> QED
      BY Zenon, <1>1, <2>1, <2>2 DEF Named
<1> QED
    BY Zenon, <1>3, <1>5, <1>6, <1>7, <1>8, <1>9 DEF IInv, SpawnInv

\* A spawner that leaves its service behind keeps what the others rely on, if the
\* services and tasks stay as they are but for the service's own name of its task.
LEMMA LeaveLemma ==
    ASSUME IInv, NEW c \in Spawners, Done(c), at[c] \in {"build", "record"},
           Ids' = Ids, tasks' = tasks, overtaken' = overtaken, Known' = Known,
           next_id' \in Nat, next_id <= next_id',
           \A i \in Known : services'[i].last_exit = services[i].last_exit,
           \A i \in Known : i # idx[c] => services'[i].task = services[i].task,
           id'[c] = NO_TASK, \A d \in Spawners : d # c => id'[d] = id[d]
    PROVE  SpawnInv' /\ BootInv'
<1>0. /\ Hand(c) /\ idx[c] \in Known /\ next_id \in Nat /\ BUILTIN \in Nat
      /\ BUILTIN <= Len(services) /\ Len(services) \in Nat /\ idx[c] \in Nat
      /\ idx["boot"] \in Nat
  <2>1. Hand(c) /\ TypeOK
        BY Zenon DEF IInv, SpawnInv
  <2>2. idx[c] \in Known
        BY Zenon, <2>1 DEF Hand, Idling
  <2>3. idx[c] \in Nat /\ idx["boot"] \in Nat
        BY Zenon, <2>1 DEF TypeOK, Spawners
  <2>4. next_id \in Nat /\ BUILTIN <= Len(services) /\ Len(services) \in Nat
        BY Zenon, <2>1 DEF TypeOK
  <2>5. BUILTIN \in Nat
        BY SupervisorAssumption
  <2> QED
      BY Zenon, <2>1, <2>2, <2>3, <2>4, <2>5
<1>1. /\ \A d \in Spawners : d # c => at'[d] = at[d] /\ idx'[d] = idx[d]
      /\ \/ at'[c] = "idle" /\ idx'[c] = 0 /\ c # "sup"
         \/ at'[c] = "reap" /\ idx'[c] = 0 /\ c = "sup"
         \/ /\ c = "boot" /\ at'[c] = "build" /\ idx'[c] = idx[c] + 1
            /\ idx[c] < BUILTIN
      BY Zenon, <1>0, DoneLemma DEF IInv
<1>2. \A i \in Known : Vacant(i) <=> Vacant(i)'
      BY Zenon DEF Vacant
<1>3. \A t \in 1 .. next_id - 1 : t \in 1 .. next_id' - 1
      BY Zenon, <1>0, RangeLemma
<1>4. c = "boot" /\ idx[c] < BUILTIN =>
          /\ Ahead(idx[c] + 1) /\ idx[c] + 1 \in Known /\ idx[c] + 1 <= BUILTIN
  <2> SUFFICES ASSUME c = "boot", idx[c] < BUILTIN
               PROVE  Ahead(idx[c] + 1) /\ idx[c] + 1 \in Known /\ idx[c] + 1 <= BUILTIN
      BY Zenon
  <2>1. idx[c] + 1 \in idx[c] + 1 .. BUILTIN /\ idx[c] + 1 \in Known
        BY <1>0 DEF Known
  <2> QED
      BY <1>0, <2>1 DEF IInv, BootInv
<1>5. ASSUME NEW d \in Spawners
      PROVE  Hand(d)'
  <2>1. Hand(d)
        BY Zenon DEF IInv, SpawnInv
  <2>2. CASE d # c
        BY Zenon, <1>1, <1>2, <1>3, <2>1, <2>2 DEF Hand, Working, Idling
  <2>3. CASE d = c /\ at'[c] \in {"idle", "reap"} /\ idx'[c] = 0
        BY <1>0, <2>3 DEF Hand, Working, Idling
  <2>4. CASE d = c /\ c = "boot" /\ at'[c] = "build" /\ idx'[c] = idx[c] + 1 /\ idx[c] < BUILTIN
        BY Zenon, <1>2, <1>4, <2>4 DEF Hand, Working, Idling, Ahead
  <2> QED
      BY Zenon, <1>1, <2>2, <2>3, <2>4
<1>6. ASSUME NEW d \in Spawners, NEW e \in Spawners
      PROVE  Apart(d, e)'
  <2>1. Apart(d, e)
        BY Zenon DEF IInv, SpawnInv
  <2>2. ASSUME NEW f \in Spawners, f # c, Working(c)'
        PROVE  idx'[f] # idx'[c]
        BY Zenon, <1>1, <1>4, <2>2 DEF Working, Ahead
  <2>3. \A f \in Spawners : f # c => (Working(f)' <=> Working(f))
        BY Zenon, <1>1 DEF Working
  <2>4. id'[d] = id'[e] => (d = e \/ id'[d] = NO_TASK)
        BY Zenon, <2>1 DEF Apart
  <2>5. (Working(d)' /\ Working(e)' /\ idx'[d] = idx'[e]) => d = e
        BY Zenon, <1>1, <2>1, <2>2, <2>3 DEF Apart
  <2> QED
      BY Zenon, <2>4, <2>5 DEF Apart
<1>7. BootInv'
  <2> SUFFICES ASSUME at'["boot"] # "idle", NEW i \in idx'["boot"] + 1 .. BUILTIN
               PROVE  Ahead(i)'
      BY Zenon DEF BootInv
  <2>1. /\ at["boot"] # "idle" /\ i \in idx["boot"] + 1 .. BUILTIN
        /\ i # idx'["boot"] /\ i # 0 /\ i \in Known
    <3>1. CASE c = "boot"
          BY <1>0, <1>1, <3>1 DEF Known
    <3>2. CASE c # "boot"
          BY <1>0, <1>1, <3>2 DEF Known, Spawners
    <3> QED
        BY Zenon, <3>1, <3>2
  <2>2. Ahead(i) /\ i # idx[c]
        BY Zenon, <2>1 DEF IInv, BootInv, Ahead
  <2>3. ASSUME NEW d \in Spawners
        PROVE  idx'[d] # i
        BY Zenon, <1>1, <2>1, <2>2 DEF Ahead
  <2> QED
      BY Zenon, <1>2, <2>1, <2>2, <2>3 DEF Ahead
<1> QED
    BY Zenon, <1>5, <1>6, <1>7 DEF SpawnInv

LEMMA BuildFailsStep ==
    ASSUME IInv, NEW c \in Spawners, BuildFails(c)
    PROVE  IInv'
<1>1. /\ at[c] = "build" /\ next_id' = next_id + 1 /\ services' = services /\ tasks' = tasks
      /\ reap' = reap /\ id' = id /\ overtaken' = overtaken /\ Ids' = Ids /\ Known' = Known
      /\ Done(c)
      BY Zenon DEF BuildFails, Ids, Known
<1>2. /\ Hand(c) /\ idx[c] \in Known /\ id[c] = NO_TASK /\ Vacant(idx[c])
      /\ next_id \in Nat
      BY Zenon, <1>1 DEF IInv, SpawnInv, Hand, Idling, Working, TypeOK
<1>3. /\ at' \in [Spawners -> Labels] /\ idx' \in [Spawners -> Nat]
      /\ \A d \in Spawners : d # c => idx'[d] = idx[d]
      BY <1>1, <1>2, DoneLemma DEF IInv
<1>4. TypeOK'
  <2>1. next_id' \in Nat \ {0} /\ Ids' \subseteq 1 .. next_id' - 1
        BY Zenon, <1>1, NewIdLemma DEF IInv, TypeOK
  <2> QED
      BY Zenon, <1>1, <1>3, <2>1 DEF IInv, TypeOK, Known, Ids
<1>5. SpawnInv' /\ BootInv'
  <2>1. next_id' \in Nat /\ next_id <= next_id'
        BY <1>1, <1>2
  <2> QED
      BY Zenon, <1>1, <1>2, <2>1, LeaveLemma
<1>6. OneInv' /\ ReapInv'
      BY Zenon, <1>1 DEF IInv, OneInv, ReapInv
<1>7. NameInv'
  <2> SUFFICES ASSUME NEW i \in Known \ overtaken
               PROVE  Named(i)'
      BY Zenon, <1>1 DEF NameInv, Known
  <2>1. Named(i)
        BY Zenon DEF IInv, NameInv
  <2>2. ASSUME NEW t \in Ids, tasks[t].service = i, NEW d \in Spawners, idx[d] = i
        PROVE  idx'[d] = i
        BY Zenon, <1>2, <1>3, <2>2 DEF Vacant
  <2> QED
      BY Zenon, <1>1, <2>1, <2>2 DEF Named
<1> QED
    BY Zenon, <1>4, <1>5, <1>6, <1>7 DEF IInv

LEMMA RecordStep ==
    ASSUME IInv, NEW c \in Spawners, Record(c)
    PROVE  IInv'
<1>1. /\ at[c] = "record" /\ next_id' = next_id /\ tasks' = tasks /\ reap' = reap
      /\ overtaken' = overtaken /\ Ids' = Ids /\ Done(c)
      /\ id' = [id EXCEPT ![c] = NO_TASK]
      /\ services' = [services EXCEPT ![idx[c]].task = id[c]]
      BY Zenon DEF Record, Ids
<1>2. /\ Hand(c) /\ idx[c] \in Known /\ next_id \in Nat /\ id \in [Spawners -> Nat]
      /\ services \in [Known -> Entry] /\ services \in Seq(Entry) /\ Len(services) \in Nat
      BY Zenon, <1>1 DEF IInv, SpawnInv, Hand, Idling, TypeOK
<1>3. /\ at' \in [Spawners -> Labels] /\ idx' \in [Spawners -> Nat]
      /\ \A d \in Spawners : d # c => idx'[d] = idx[d]
      BY <1>1, <1>2, DoneLemma DEF IInv
<1>4. id' \in [Spawners -> Nat] /\ id'[c] = NO_TASK /\ \A d \in Spawners : d # c => id'[d] = id[d]
      BY Zenon, <1>1, <1>2, SupervisorAssumption
<1>5. /\ services' \in [Known -> Entry] /\ services'[idx[c]].task = id[c]
      /\ \A i \in Known : services'[i].last_exit = services[i].last_exit
      /\ \A i \in Known : i # idx[c] => services'[i].task = services[i].task
  <2>1. id[c] \in Nat
        BY Zenon, <1>2
  <2> QED
      BY Zenon, <1>1, <1>2, <2>1 DEF Entry
<1>6. Len(services') = Len(services) /\ services' \in Seq(Entry) /\ Known' = Known
  <2>1. id[c] \in Nat
        BY Zenon, <1>2
  <2>2. services' \in Seq(Entry) /\ Len(services') = Len(services)
        BY Zenon, <1>2, <1>5, SameLengthLemma DEF Known
  <2> QED
      BY Zenon, <2>2 DEF Known
<1>7. TypeOK'
      BY Zenon, <1>1, <1>3, <1>4, <1>5, <1>6 DEF IInv, TypeOK, Ids
<1>8. SpawnInv' /\ BootInv'
  <2>1. next_id' \in Nat /\ next_id <= next_id'
        BY <1>1, <1>2
  <2> QED
      BY Zenon, <1>1, <1>4, <1>5, <1>6, <2>1, LeaveLemma
<1>9. OneInv' /\ ReapInv'
      BY <1>1, <1>5 DEF IInv, OneInv, ReapInv, TypeOK, TaskOfService
<1>10. NameInv'
  <2> SUFFICES ASSUME NEW i \in Known \ overtaken
               PROVE  Named(i)'
      BY Zenon, <1>1, <1>6 DEF NameInv
  <2>1. Named(i)
        BY Zenon DEF IInv, NameInv
  <2>2. CASE i = idx[c]
    <3>1. id[c] \in Ids /\ tasks[id[c]].service = i
          BY Zenon, <1>1, <1>2, <2>2 DEF Hand
    <3>2. \A t \in Ids : tasks[t].service = i => t = id[c]
          BY Zenon, <3>1 DEF IInv, OneInv
    <3> QED
        BY <1>1, <1>5, <2>2, <3>1, <3>2 DEF Named
  <2>3. CASE i # idx[c]
        BY <1>1, <1>3, <1>4, <1>5, <2>1, <2>3 DEF Named
  <2> QED
      BY Zenon, <2>2, <2>3
<1> QED
    BY Zenon, <1>7, <1>8, <1>9, <1>10 DEF IInv

LEMMA PublishStep ==
    ASSUME IInv, NEW c \in Spawners, Publish(c)
    PROVE  IInv'
<1>0. /\ at \in [Spawners -> Labels] /\ at[c] = "publish" /\ Hand(c)
      BY Zenon DEF IInv, SpawnInv, TypeOK, Publish
<1>1. /\ at' = [at EXCEPT ![c] = "record"] /\ Ids' = Ids \cup {id[c]}
      /\ tasks' = [t \in Ids \cup {id[c]} |->
                     IF t = id[c] THEN [service |-> idx[c], state |-> "live", code |-> "none"]
                     ELSE tasks[t]]
      /\ next_id' = next_id /\ services' = services /\ reap' = reap /\ Known' = Known
      /\ idx' = idx /\ id' = id /\ overtaken' = overtaken
      BY Zenon DEF Publish, Goto, Ids, Known
<1>2. /\ at'[c] = "record" /\ at' \in [Spawners -> Labels]
      /\ \A d \in Spawners : d # c => at'[d] = at[d]
      BY Zenon, <1>0, <1>1 DEF Labels
<1>3. /\ id[c] \notin Ids /\ id[c] \in 1 .. next_id - 1 /\ idx[c] \in Known
      /\ Vacant(idx[c]) /\ id[c] # NO_TASK
  <2>1. id[c] \notin Ids /\ id[c] \in 1 .. next_id - 1 /\ idx[c] \in Known /\ Vacant(idx[c])
        BY Zenon, <1>0 DEF Hand, Idling, Working
  <2> QED
      BY <2>1, SupervisorAssumption
<1>4. /\ tasks'[id[c]].service = idx[c] /\ tasks'[id[c]].state = "live"
      /\ \A t \in Ids : t # id[c] /\ tasks'[t] = tasks[t]
      BY Zenon, <1>1, <1>3
<1>5. TypeOK'
  <2>1. tasks' \in [Ids' -> TaskOfService(Known)]
    <3>1. [service |-> idx[c], state |-> "live", code |-> "none"] \in TaskOfService(Known)
          BY Zenon, <1>3 DEF TaskOfService, States
    <3>2. \A t \in Ids : tasks[t] \in TaskOfService(Known)
          BY Zenon DEF IInv, TypeOK
    <3> QED
        BY Zenon, <1>1, <3>1, <3>2
  <2> QED
      BY Zenon, <1>1, <1>2, <1>3, <2>1 DEF IInv, TypeOK
<1>6. \A i : i # idx[c] /\ Vacant(i) => Vacant(i)'
      BY Zenon, <1>1, <1>4 DEF Vacant
<1>7. ASSUME NEW d \in Spawners
      PROVE  Hand(d)'
  <2>1. Hand(d) /\ Apart(d, c)
        BY Zenon DEF IInv, SpawnInv
  <2>2. CASE d = c
        BY Zenon, <1>0, <1>1, <1>2, <1>3, <1>4, <2>1, <2>2 DEF Hand, Idling, Working
  <2>3. CASE d # c
    <3>1. at[d] \in {"publish", "record"} => id[d] # id[c]
          BY Zenon, <1>3, <2>1, <2>3 DEF Apart
    <3>2. Working(d) => idx[d] # idx[c]
          BY Zenon, <1>0, <2>1, <2>3 DEF Apart, Working
    <3>3. /\ at'[d] = "publish" => id'[d] \notin Ids'
          /\ Working(d)' => Vacant(idx[d])'
          BY Zenon, <1>1, <1>2, <1>6, <2>1, <2>3, <3>1, <3>2 DEF Hand, Working
    <3>4. at'[d] = "record" => \/ id'[d] \notin Ids' /\ idx'[d] \in overtaken'
                               \/ id'[d] \in Ids' /\ tasks'[id'[d]].service = idx'[d]
          BY Zenon, <1>1, <1>2, <1>4, <2>1, <2>3, <3>1 DEF Hand
    <3> QED
        BY Zenon, <1>1, <1>2, <2>1, <2>3, <3>3, <3>4 DEF Hand
  <2> QED
      BY Zenon, <2>2, <2>3
<1>8. ASSUME NEW d \in Spawners, NEW e \in Spawners
      PROVE  Apart(d, e)'
  <2>1. Apart(d, e)
        BY Zenon DEF IInv, SpawnInv
  <2>2. \A f \in Spawners : Working(f)' => Working(f)
        BY Zenon, <1>2 DEF Working
  <2> QED
      BY Zenon, <1>1, <2>1, <2>2 DEF Apart
<1>9. BootInv'
  <2> SUFFICES ASSUME at'["boot"] # "idle", NEW i \in idx["boot"] + 1 .. BUILTIN
               PROVE  Ahead(i)'
      BY Zenon, <1>1 DEF BootInv
  <2>1. Ahead(i)
        BY Zenon, <1>0, <1>2 DEF IInv, BootInv, Spawners
  <2> QED
      BY Zenon, <1>1, <1>6, <2>1 DEF Ahead
<1>10. OneInv'
  <2>1. services[idx[c]].last_exit # "clean" /\ \A t \in Ids : tasks[t].service # idx[c]
        BY Zenon, <1>3 DEF Vacant
  <2> QED
      BY <1>1, <1>4, <2>1 DEF IInv, OneInv
<1>11. ReapInv'
      BY Zenon, <1>1, <1>4 DEF IInv, ReapInv
<1>12. NameInv'
  <2> SUFFICES ASSUME NEW i \in Known \ overtaken
               PROVE  Named(i)'
      BY Zenon, <1>1 DEF NameInv
  <2>1. Named(i)
        BY Zenon DEF IInv, NameInv
  <2>2. services'[i].task # NO_TASK => services'[i].task \in Ids' /\ tasks'[services'[i].task].service = i
        BY Zenon, <1>1, <1>4, <2>1 DEF Named
  <2>3. ASSUME NEW t \in Ids', tasks'[t].service = i
        PROVE  services'[i].task = t \/ \E d \in Spawners : idx'[d] = i /\ id'[d] = t
        BY Zenon, <1>1, <1>4, <2>1, <2>3 DEF Named
  <2> QED
      BY Zenon, <2>2, <2>3 DEF Named
<1> QED
    BY Zenon, <1>5, <1>7, <1>8, <1>9, <1>10, <1>11, <1>12 DEF IInv, SpawnInv

LEMMA RegisterStep ==
    ASSUME IInv, Register
    PROVE  IInv'
<1>n. PICK n : n = Len(services) + 1
      BY Zenon
<1>0. /\ at \in [Spawners -> Labels] /\ idx \in [Spawners -> Nat] /\ at["call"] = "idle"
      /\ services \in Seq(Entry) /\ Len(services) \in Nat /\ services \in [Known -> Entry]
      BY Zenon DEF IInv, TypeOK, Register
<1>1. /\ at' = [at EXCEPT !["call"] = "build"] /\ idx' = [idx EXCEPT !["call"] = n]
      /\ services' = Append(services, Fresh) /\ tasks' = tasks /\ next_id' = next_id
      /\ reap' = reap /\ id' = id /\ overtaken' = overtaken /\ Ids' = Ids
      BY Zenon, <1>n DEF Register, Goto, Ids
<1>2. /\ at'["call"] = "build" /\ idx'["call"] = n
      /\ \A d \in Spawners : d # "call" => at'[d] = at[d] /\ idx'[d] = idx[d]
      /\ at' \in [Spawners -> Labels] /\ idx' \in [Spawners -> Nat]
  <2>1. n \in Nat /\ "call" \in Spawners
        BY <1>0, <1>n DEF Spawners
  <2> QED
      BY Zenon, <1>0, <1>1, <2>1 DEF Labels
<1>3. /\ Fresh \in Entry /\ Fresh.task = NO_TASK /\ Fresh.last_exit # "clean"
      BY Zenon, SupervisorAssumption DEF Fresh, Entry
<1>4. /\ Known' = Known \cup {n} /\ n \notin Known /\ n # 0 /\ Len(services') = n
      /\ services' \in Seq(Entry)
      /\ services'[n] = Fresh /\ \A i \in Known : services'[i] = services[i]
      BY <1>n, <1>0, <1>1, <1>3 DEF Known
<1>5. /\ \A t \in Ids : tasks[t].service \in Known
      /\ Hand("call") /\ id["call"] = NO_TASK /\ idx["call"] = 0
      BY Zenon, <1>0 DEF IInv, TypeOK, TaskOfService, SpawnInv, Hand, Spawners, Idling
<1>6. TypeOK'
  <2>1. services' \in [Known' -> Entry] /\ Len(services') \in Nat
        BY <1>n, <1>4, <1>0 DEF Known
  <2>2. BUILTIN <= Len(services')
        BY <1>n, <1>0, <1>4, SupervisorAssumption DEF IInv, TypeOK
  <2>3. tasks' \in [Ids' -> TaskOfService(Known')]
        BY Zenon, <1>1, <1>4 DEF IInv, TypeOK, TaskOfService
  <2> QED
      BY Zenon, <1>1, <1>2, <1>4, <2>1, <2>2, <2>3 DEF IInv, TypeOK
<1>7. Vacant(n)' /\ \A i \in Known : Vacant(i) <=> Vacant(i)'
      BY Zenon, <1>1, <1>3, <1>4, <1>5 DEF Vacant
<1>8. ASSUME NEW d \in Spawners
      PROVE  Hand(d)'
  <2>1. Hand(d)
        BY Zenon DEF IInv, SpawnInv
  <2>2. CASE d = "call"
        BY Zenon, <1>1, <1>2, <1>4, <1>5, <1>7, <2>2 DEF Hand, Working, Idling
  <2>3. CASE d # "call"
        BY Zenon, <1>1, <1>2, <1>4, <1>7, <2>1, <2>3 DEF Hand, Working, Idling
  <2> QED
      BY Zenon, <2>2, <2>3
<1>9. ASSUME NEW d \in Spawners
      PROVE  idx[d] # n
      BY Zenon, <1>4 DEF IInv, SpawnInv, Hand
<1>10. ASSUME NEW d \in Spawners, NEW e \in Spawners
      PROVE  Apart(d, e)'
  <2>1. Apart(d, e)
        BY Zenon DEF IInv, SpawnInv
  <2>2. \A f \in Spawners : f # "call" => (Working(f)' <=> Working(f)) /\ idx'[f] # n
        BY Zenon, <1>2, <1>9 DEF Working
  <2>3. id'[d] = id'[e] => (d = e \/ id'[d] = NO_TASK)
        BY Zenon, <1>1, <2>1 DEF Apart
  <2>4. (Working(d)' /\ Working(e)' /\ idx'[d] = idx'[e]) => d = e
        BY Zenon, <1>2, <2>1, <2>2 DEF Apart
  <2> QED
      BY Zenon, <2>3, <2>4 DEF Apart
<1>11. BootInv'
  <2> SUFFICES ASSUME at["boot"] # "idle", NEW i \in idx["boot"] + 1 .. BUILTIN
               PROVE  Ahead(i)'
      BY Zenon, <1>2 DEF BootInv, Spawners
  <2>1. Ahead(i)
        BY Zenon DEF IInv, BootInv
  <2>2. i \in Known
        BY <1>0, SupervisorAssumption DEF IInv, TypeOK, Known, Spawners
  <2> QED
      BY Zenon, <1>1, <1>2, <1>4, <1>7, <2>1, <2>2 DEF Ahead
<1>12. OneInv'
      BY Zenon, <1>1, <1>4, <1>5 DEF IInv, OneInv
<1>14. ReapInv'
      BY Zenon, <1>1 DEF IInv, ReapInv
<1>13. NameInv'
  <2> SUFFICES ASSUME NEW i \in Known' \ overtaken
               PROVE  Named(i)'
      BY Zenon, <1>1 DEF NameInv
  <2>1. CASE i = n
        BY Zenon, <1>1, <1>3, <1>4, <1>5, <2>1 DEF Named
  <2>2. CASE i # n
    <3>1. i \in Known /\ Named(i) /\ i # 0
          BY <1>4, <2>2 DEF IInv, NameInv, Known
    <3>2. \A d \in Spawners : idx[d] = i => idx'[d] = i
          BY Zenon, <1>2, <1>5, <3>1
    <3> QED
        BY Zenon, <1>1, <1>4, <3>1, <3>2 DEF Named
  <2> QED
      BY Zenon, <2>1, <2>2
<1> QED
    BY Zenon, <1>6, <1>8, <1>10, <1>11, <1>12, <1>13, <1>14 DEF IInv, SpawnInv

\* A step of a task or of the reap list, which leaves every task with its service.
LEMMA SameServices ==
    ASSUME IInv, Ids' = Ids, \A t \in Ids : tasks'[t].service = tasks[t].service,
           services' = services, next_id' = next_id, at' = at, idx' = idx, id' = id,
           overtaken' = overtaken
    PROVE  SpawnInv' /\ BootInv' /\ OneInv' /\ NameInv'
<1>1. Known' = Known /\ \A i : (Vacant(i)' <=> Vacant(i)) /\ (Ahead(i)' <=> Ahead(i))
      BY Zenon DEF Known, Vacant, Ahead
<1>2. ASSUME NEW c \in Spawners
      PROVE  Hand(c)' /\ \A d \in Spawners : Apart(c, d)'
  <2>1. Hand(c) /\ \A d \in Spawners : Apart(c, d)
        BY Zenon DEF IInv, SpawnInv
  <2>2. Hand(c)'
        BY Zenon, <1>1, <2>1 DEF Hand, Working
  <2>3. \A d \in Spawners : Apart(c, d)'
        BY Zenon, <2>1 DEF Apart, Working
  <2> QED
      BY Zenon, <2>2, <2>3
<1>3. BootInv'
      BY Zenon, <1>1 DEF IInv, BootInv
<1>4. OneInv'
      BY DEF IInv, OneInv
<1>5. NameInv'
      BY <1>1 DEF IInv, NameInv, Named
<1> QED
    BY Zenon, <1>2, <1>3, <1>4, <1>5 DEF SpawnInv

LEMMA ExitStep ==
    ASSUME IInv, NEW t \in Ids, NEW code \in Codes, Exit(t, code)
    PROVE  IInv'
<1>0. /\ tasks \in [Ids -> TaskOfService(Known)] /\ reap \in Seq(Nat) /\ t \in Nat
      /\ tasks[t].state = "live" /\ code \in {"none"} \cup Codes
  <2>1. Ids \subseteq 1 .. next_id - 1 /\ next_id \in Nat
        BY Zenon DEF IInv, TypeOK
  <2>2. t \in Nat
        BY <2>1
  <2> QED
      BY Zenon, <2>2 DEF IInv, TypeOK, Exit
<1>1. /\ tasks' = [tasks EXCEPT ![t].state = "exiting", ![t].code = code]
      /\ reap' = Append(reap, t) /\ next_id' = next_id /\ services' = services
      /\ at' = at /\ idx' = idx /\ id' = id /\ overtaken' = overtaken
      BY Zenon DEF Exit
<1>2. /\ Ids' = Ids /\ Known' = Known
      /\ tasks' \in [Ids -> TaskOfService(Known)]
      /\ tasks'[t].state = "exiting" /\ \A u \in Ids : u # t => tasks'[u] = tasks[u]
      /\ \A u \in Ids : tasks'[u].service = tasks[u].service
      BY Zenon, <1>0, <1>1 DEF Ids, Known, TaskOfService, States
<1>3. /\ Len(reap') = Len(reap) + 1 /\ Len(reap) \in Nat /\ reap' \in Seq(Nat)
      /\ reap'[Len(reap) + 1] = t /\ \A k \in 1 .. Len(reap) : reap'[k] = reap[k]
      BY <1>0, <1>1
<1>4. TypeOK'
      BY Zenon, <1>1, <1>2, <1>3 DEF IInv, TypeOK
<1>5. ASSUME NEW k \in 1 .. Len(reap)
      PROVE  /\ reap'[k] # t /\ reap'[k] \in Ids' /\ tasks'[reap'[k]].state # "live"
             /\ \A j \in 1 .. Len(reap) : reap'[j] = reap'[k] => j = k
  <2>1. /\ reap[k] \in Ids /\ tasks[reap[k]].state # "live"
        /\ \A j \in 1 .. Len(reap) : reap[j] = reap[k] => j = k
        BY Zenon DEF IInv, ReapInv
  <2>2. reap[k] # t /\ reap'[k] = reap[k]
        BY Zenon, <1>0, <1>3, <2>1
  <2> QED
      BY Zenon, <1>2, <1>3, <2>1, <2>2
<1>6. \A k \in 1 .. Len(reap') : k \in 1 .. Len(reap) \/ k = Len(reap) + 1
      BY <1>3
<1>7. ReapInv'
      BY Zenon, <1>2, <1>3, <1>5, <1>6 DEF ReapInv
<1> QED
    BY Zenon, <1>1, <1>2, <1>4, <1>7, SameServices DEF IInv

LEMMA OffCpuStep ==
    ASSUME IInv, NEW t \in Ids, OffCpu(t)
    PROVE  IInv'
<1>1. /\ tasks' = [tasks EXCEPT ![t].state = "dead"] /\ reap' = reap /\ next_id' = next_id
      /\ services' = services /\ at' = at /\ idx' = idx /\ id' = id /\ overtaken' = overtaken
      BY Zenon DEF OffCpu
<1>2. /\ Ids' = Ids /\ Known' = Known
      /\ tasks' \in [Ids -> TaskOfService(Known)]
      /\ tasks'[t].state = "dead" /\ \A u \in Ids : u # t => tasks'[u] = tasks[u]
      /\ \A u \in Ids : tasks'[u].service = tasks[u].service
  <2>1. tasks \in [Ids -> TaskOfService(Known)]
        BY Zenon DEF IInv, TypeOK
  <2> QED
      BY Zenon, <1>1, <2>1 DEF Ids, Known, TaskOfService, States
<1>3. TypeOK'
      BY Zenon, <1>1, <1>2 DEF IInv, TypeOK
<1>4. ReapInv'
      BY <1>1, <1>2 DEF IInv, ReapInv
<1> QED
    BY Zenon, <1>1, <1>2, <1>3, <1>4, SameServices DEF IInv

\* The supervisor goes to sleep, wakes up, or ends a back-off.
LEMMA SupervisorMoves ==
    ASSUME IInv, Rest \/ Awake
    PROVE  IInv'
<1>0. at \in [Spawners -> Labels] /\ Hand("sup") /\ "sup" \in Spawners
      BY Zenon DEF IInv, TypeOK, SpawnInv, Spawners
<1>1. /\ tasks' = tasks /\ reap' = reap /\ next_id' = next_id /\ Ids' = Ids /\ Known' = Known
      /\ services' = services /\ idx' = idx /\ id' = id /\ overtaken' = overtaken
      BY Zenon DEF Rest, Awake, Ids, Known
<1>2. \/ at["sup"] \in Idling /\ \E l \in Idling : at' = [at EXCEPT !["sup"] = l]
      \/ at["sup"] = "backoff" /\ at' = [at EXCEPT !["sup"] = "build"]
      BY Zenon DEF Rest, Awake, Goto, Idling
<1>3. /\ at' \in [Spawners -> Labels]
      /\ \A d \in Spawners : d # "sup" => at'[d] = at[d]
      /\ \/ at["sup"] \in Idling /\ at'["sup"] \in Idling
         \/ at["sup"] = "backoff" /\ at'["sup"] = "build"
      BY Zenon, <1>0, <1>2 DEF Labels, Idling
<1>4. TypeOK'
      BY Zenon, <1>1, <1>3 DEF IInv, TypeOK
<1>5. \A i : (Vacant(i)' <=> Vacant(i)) /\ (Ahead(i)' <=> Ahead(i))
      BY Zenon, <1>1 DEF Vacant, Ahead
<1>6. \A d \in Spawners : Working(d)' <=> Working(d)
      BY Zenon, <1>3 DEF Working, Idling
<1>7. ASSUME NEW d \in Spawners
      PROVE  Hand(d)'
  <2>1. Hand(d)
        BY Zenon DEF IInv, SpawnInv
  <2>2. CASE d = "sup"
        BY Zenon, <1>1, <1>3, <1>5, <1>6, <2>1, <2>2 DEF Hand, Idling
  <2>3. CASE d # "sup"
        BY Zenon, <1>1, <1>3, <1>5, <1>6, <2>1, <2>3 DEF Hand
  <2> QED
      BY Zenon, <2>2, <2>3
<1>8. ASSUME NEW d \in Spawners, NEW e \in Spawners
      PROVE  Apart(d, e)'
  <2>1. Apart(d, e)
        BY Zenon DEF IInv, SpawnInv
  <2> QED
      BY Zenon, <1>1, <1>6, <2>1 DEF Apart
<1>9. BootInv'
      BY Zenon, <1>1, <1>3, <1>5 DEF IInv, BootInv, Spawners
<1>10. OneInv' /\ ReapInv'
      BY Zenon, <1>1 DEF IInv, OneInv, ReapInv
<1>11. NameInv'
      BY <1>1 DEF IInv, NameInv, Named
<1> QED
    BY Zenon, <1>4, <1>7, <1>8, <1>9, <1>10, <1>11 DEF IInv, SpawnInv

\* Sequences put together and cut, as operators the provers keep folded.
Joined(a, b) == a \o b
Piece(s, m, n) == SubSeq(s, m, n)
Both(r, a, b) ==
    /\ Len(r) = Len(a) + Len(b)
    /\ \A i \in 1 .. Len(a) : r[i] = a[i]
    /\ \A i \in 1 .. Len(b) : r[Len(a) + i] = b[i]

LEMMA LenLemma ==
    ASSUME NEW S, NEW a \in Seq(S)
    PROVE  Len(a) \in Nat
OBVIOUS

LEMMA JoinedLemma ==
    ASSUME NEW S, NEW a \in Seq(S), NEW b \in Seq(S)
    PROVE  Joined(a, b) \in Seq(S) /\ Both(Joined(a, b), a, b)
BY DEF Joined, Both

LEMMA PieceLemma ==
    ASSUME NEW S, NEW s \in Seq(S), NEW k \in 1 .. Len(s)
    PROVE  /\ Piece(s, 1, k - 1) \in Seq(S) /\ Len(Piece(s, 1, k - 1)) = k - 1
           /\ \A i \in 1 .. k - 1 : Piece(s, 1, k - 1)[i] = s[i]
           /\ Piece(s, k + 1, Len(s)) \in Seq(S) /\ Len(Piece(s, k + 1, Len(s))) = Len(s) - k
           /\ \A i \in 1 .. Len(s) - k : Piece(s, k + 1, Len(s))[i] = s[k + i]
BY DEF Piece

\* The two sides of entry k of the sequence s of length n.
Sides(a, b, s, n, k) ==
    /\ Len(a) = k - 1 /\ \A i \in 1 .. k - 1 : a[i] = s[i]
    /\ Len(b) = n - k /\ \A i \in 1 .. n - k : b[i] = s[k + i]

\* Every entry of r is another entry of s than k.
Others(r, s, n, k) ==
    \A i \in 1 .. n - 1 :
        \E j \in 1 .. n : j # k /\ r[i] = s[j] /\ j = IF i < k THEN i ELSE i + 1

LEMMA SidesLemma ==
    ASSUME NEW S, NEW n \in Nat, NEW k \in 1 .. n, NEW s, NEW a \in Seq(S), NEW b \in Seq(S),
           Sides(a, b, s, n, k)
    PROVE  /\ Joined(a, b) \in Seq(S) /\ Len(Joined(a, b)) = n - 1
           /\ Others(Joined(a, b), s, n, k)
<1>0. Joined(a, b) \in Seq(S) /\ Both(Joined(a, b), a, b)
      BY Zenon, JoinedLemma
<1>1. PICK r : r = Joined(a, b)
      BY Zenon
<1>2. /\ r \in Seq(S) /\ Len(r) = Len(a) + Len(b)
      /\ \A i \in 1 .. Len(a) : r[i] = a[i]
      /\ \A i \in 1 .. Len(b) : r[Len(a) + i] = b[i]
      BY Zenon, <1>0, <1>1 DEF Both
<1>3. PICK la, lb : la = k - 1 /\ lb = n - k
      BY Zenon
<1>4. /\ Len(r) = la + lb /\ \A i \in 1 .. la : r[i] = s[i]
      /\ \A i \in 1 .. lb : r[la + i] = s[k + i]
      BY Zenon, <1>2, <1>3 DEF Sides
<1>5. la + lb = n - 1
      BY <1>3
<1>6. ASSUME NEW i \in 1 .. n - 1
      PROVE  \E j \in 1 .. n : j # k /\ r[i] = s[j] /\ j = IF i < k THEN i ELSE i + 1
  <2>1. CASE i < k
    <3>1. i \in 1 .. la /\ i \in 1 .. n /\ i # k
          BY <1>3, <2>1
    <3> QED
        BY Zenon, <1>4, <2>1, <3>1
  <2>2. CASE ~(i < k)
    <3>1. PICK h : h = i - (k - 1)
          BY Zenon
    <3>2. /\ h \in 1 .. lb /\ la + h = i /\ k + h = i + 1 /\ i + 1 \in 1 .. n /\ i + 1 # k
          BY <1>3, <2>2, <3>1
    <3>3. r[i] = s[i + 1]
          BY Zenon, <1>4, <3>2
    <3> QED
        BY Zenon, <2>2, <3>2, <3>3
  <2> QED
      BY Zenon, <2>1, <2>2
<1> QED
    BY Zenon, <1>1, <1>2, <1>4, <1>5, <1>6 DEF Others

\* A sequence without one of its entries: take_dead() removes from the reap list.
LEMMA CutLemma ==
    ASSUME NEW S, NEW s \in Seq(S), NEW k \in 1 .. Len(s),
           NEW r, r = SubSeq(s, 1, k - 1) \o SubSeq(s, k + 1, Len(s))
    PROVE  r \in Seq(S) /\ Len(r) = Len(s) - 1 /\ Others(r, s, Len(s), k)
<1>1. Len(s) \in Nat
      BY Zenon, LenLemma
<1>2. r = Joined(Piece(s, 1, k - 1), Piece(s, k + 1, Len(s)))
      BY Zenon DEF Joined, Piece
<1>3. PICK a, b : a = Piece(s, 1, k - 1) /\ b = Piece(s, k + 1, Len(s))
      BY Zenon
<1>4. a \in Seq(S) /\ b \in Seq(S) /\ Sides(a, b, s, Len(s), k)
      BY Zenon, <1>3, PieceLemma DEF Sides
<1>5. /\ Joined(a, b) \in Seq(S) /\ Len(Joined(a, b)) = Len(s) - 1
      /\ Others(Joined(a, b), s, Len(s), k)
      BY Zenon, <1>1, <1>4, SidesLemma
<1> QED
    BY Zenon, <1>2, <1>3, <1>5

LEMMA TakeDeadStep ==
    ASSUME IInv, NEW k \in DOMAIN reap, TakeDead(k)
    PROVE  IInv'
<1>0. /\ at \in [Spawners -> Labels] /\ idx \in [Spawners -> Nat] /\ at["sup"] = "reap"
      /\ "sup" \in Spawners /\ Hand("sup") /\ reap \in Seq(Nat) /\ k \in 1 .. Len(reap)
      /\ services \in [Known -> Entry] /\ services \in Seq(Entry) /\ Len(services) \in Nat
      /\ tasks \in [Ids -> TaskOfService(Known)]
  <2>1. TypeOK /\ "sup" \in Spawners /\ Hand("sup")
        BY Zenon DEF IInv, SpawnInv, Spawners
  <2>2. at["sup"] = "reap"
        BY Zenon DEF TakeDead
  <2>3. reap \in Seq(Nat)
        BY Zenon, <2>1 DEF TypeOK
  <2>4. k \in 1 .. Len(reap)
        BY <2>3
  <2> QED
      BY Zenon, <2>1, <2>2, <2>3, <2>4 DEF TypeOK
<1>1. PICK t : t = reap[k]
      BY Zenon
<1>2. t \in Ids
      BY Zenon, <1>0, <1>1 DEF IInv, ReapInv
<1>3. PICK i, code : i = tasks[t].service /\ code = tasks[t].code
      BY Zenon
<1>4. i \in Known /\ code \in {"none"} \cup Codes
      BY Zenon, <1>0, <1>2, <1>3 DEF TaskOfService
<1>5. /\ reap' = SubSeq(reap, 1, k - 1) \o SubSeq(reap, k + 1, Len(reap))
      /\ tasks' = [u \in Ids \ {t} |-> tasks[u]] /\ services' = Account(i, code)
      /\ next_id' = next_id /\ id' = id
      /\ \/ /\ code # "clean" /\ idx' = [idx EXCEPT !["sup"] = i]
            /\ \E l \in {"backoff", "build"} : at' = [at EXCEPT !["sup"] = l]
         \/ code = "clean" /\ at' = at /\ idx' = idx
      BY Zenon, <1>1, <1>3 DEF TakeDead, Without, Restarts, Goto
<1>6. /\ overtaken \subseteq overtaken'
      /\ \A c \in Spawners : at[c] = "record" /\ id[c] = t => i \in overtaken'
      BY Zenon, <1>1, <1>3 DEF TakeDead
<1>7. /\ Ids' = Ids \ {t} /\ \A u \in Ids' : u \in Ids /\ u # t /\ tasks'[u] = tasks[u]
      /\ tasks' \in [Ids' -> TaskOfService(Known)]
      BY Zenon, <1>0, <1>5 DEF Ids
<1>8. /\ services' \in [Known -> Entry] /\ services'[i].task = NO_TASK
      /\ services'[i].last_exit = code
      /\ \A j \in Known : j # i => services'[j] = services[j]
  <2>1. PICK r : r = IF code = "clean" THEN services[i].restarts ELSE services[i].restarts + 1
        BY Zenon
  <2>2. services[i].restarts \in Nat
        BY Zenon, <1>0, <1>4 DEF Entry
  <2>3. r \in Nat /\ NO_TASK \in Nat
        BY <2>1, <2>2, SupervisorAssumption
  <2>4. services' = [services EXCEPT ![i] = [task |-> NO_TASK, last_exit |-> code, restarts |-> r]]
        BY Zenon, <1>5, <2>1 DEF Account
  <2> QED
      BY Zenon, <1>0, <1>4, <2>3, <2>4 DEF Entry
<1>9. Len(services') = Len(services) /\ services' \in Seq(Entry) /\ Known' = Known
  <2>1. services' \in Seq(Entry) /\ Len(services') = Len(services)
        BY Zenon, <1>0, <1>8, SameLengthLemma DEF Known
  <2> QED
      BY Zenon, <2>1 DEF Known
<1>10. /\ at' \in [Spawners -> Labels] /\ idx' \in [Spawners -> Nat]
       /\ \A d \in Spawners : d # "sup" => at'[d] = at[d] /\ idx'[d] = idx[d]
       /\ \/ code # "clean" /\ idx'["sup"] = i /\ at'["sup"] \in {"backoff", "build"}
          \/ idx'["sup"] = idx["sup"] /\ at'["sup"] = "reap"
  <2>1. i \in Nat
        BY <1>4, <1>0 DEF Known
  <2>2. CASE code = "clean"
        BY Zenon, <1>0, <1>5, <2>2
  <2>3. ASSUME NEW l \in {"backoff", "build"}, code # "clean",
               at' = [at EXCEPT !["sup"] = l], idx' = [idx EXCEPT !["sup"] = i]
        PROVE  /\ at' \in [Spawners -> Labels] /\ idx' \in [Spawners -> Nat]
               /\ \A d \in Spawners : d # "sup" => at'[d] = at[d] /\ idx'[d] = idx[d]
               /\ idx'["sup"] = i /\ at'["sup"] \in {"backoff", "build"}
        BY Zenon, <1>0, <2>1, <2>3 DEF Labels
  <2> QED
      BY Zenon, <1>5, <2>2, <2>3
<1>11. reap' \in Seq(Nat) /\ ReapInv'
  <2>1. /\ reap' \in Seq(Nat) /\ Len(reap') = Len(reap) - 1 /\ Len(reap) \in Nat
        /\ \A a \in 1 .. Len(reap') :
              \E j \in 1 .. Len(reap) : j # k /\ reap'[a] = reap[j] /\ j = IF a < k THEN a ELSE a + 1
    <3>1. reap' \in Seq(Nat) /\ Len(reap') = Len(reap) - 1 /\ Others(reap', reap, Len(reap), k)
          BY <1>0, <1>5, CutLemma
    <3> QED
        BY Zenon, <1>0, <3>1, LenLemma DEF Others
  <2>2. ASSUME NEW a \in 1 .. Len(reap')
        PROVE  /\ reap'[a] \in Ids' /\ tasks'[reap'[a]].state # "live"
               /\ \A b \in 1 .. Len(reap') : reap'[b] = reap'[a] => b = a
    <3>1. PICK j \in 1 .. Len(reap) : j # k /\ reap'[a] = reap[j] /\ j = IF a < k THEN a ELSE a + 1
          BY Zenon, <2>1
    <3>2. reap[j] \in Ids /\ tasks[reap[j]].state # "live" /\ reap[j] # t
          BY Zenon, <1>0, <1>1, <3>1 DEF IInv, ReapInv
    <3>3. ASSUME NEW b \in 1 .. Len(reap'), reap'[b] = reap'[a]
          PROVE  b = a
      <4>1. PICK h \in 1 .. Len(reap) : h # k /\ reap'[b] = reap[h] /\ h = IF b < k THEN b ELSE b + 1
            BY Zenon, <2>1
      <4>2. h = j
            BY Zenon, <3>1, <3>3, <4>1 DEF IInv, ReapInv
      <4>3. a \in Nat /\ b \in Nat /\ k \in Nat
            BY <1>0, <2>1
      <4> QED
          BY <3>1, <4>1, <4>2, <4>3
    <3> QED
        BY Zenon, <1>7, <3>1, <3>2, <3>3
  <2> QED
      BY Zenon, <2>1, <2>2 DEF ReapInv
<1>12. TypeOK'
      BY Zenon, <1>5, <1>7, <1>8, <1>9, <1>10, <1>11 DEF IInv, TypeOK
<1>13. \A u \in Ids' : tasks'[u].service # i
      BY Zenon, <1>2, <1>3, <1>7 DEF IInv, OneInv
<1>14. \A c \in Spawners : Working(c) => idx[c] # i
      BY Zenon, <1>2, <1>3 DEF IInv, SpawnInv, Hand, Vacant
<1>15. \A j \in Known : j # i /\ Vacant(j) => Vacant(j)'
      BY Zenon, <1>7, <1>8 DEF Vacant
<1>16. code # "clean" => Vacant(i)'
      BY Zenon, <1>8, <1>13 DEF Vacant
<1>17. ASSUME NEW d \in Spawners
       PROVE  Hand(d)'
  <2>1. Hand(d)
        BY Zenon DEF IInv, SpawnInv
  <2>2. CASE d = "sup"
        BY Zenon, <1>0, <1>4, <1>5, <1>9, <1>10, <1>16, <2>1, <2>2 DEF Hand, Working, Idling
  <2>3. CASE d # "sup"
    <3>1. at'[d] = at[d] /\ idx'[d] = idx[d] /\ id'[d] = id[d]
          BY Zenon, <1>5, <1>10, <2>3
    <3>2. Working(d)' => Vacant(idx[d])'
      <4>1. Working(d)' => Working(d) /\ idx'[d] \in Known /\ idx'[d] # i /\ Vacant(idx[d])
            BY Zenon, <1>14, <2>1, <3>1 DEF Hand, Working, Idling
      <4> QED
          BY Zenon, <1>15, <3>1, <4>1
    <3>3. at'[d] = "record" => \/ id'[d] \notin Ids' /\ idx'[d] \in overtaken'
                               \/ id'[d] \in Ids' /\ tasks'[id'[d]].service = idx'[d]
          BY Zenon, <1>3, <1>6, <1>7, <2>1, <3>1 DEF Hand
    <3> QED
        BY Zenon, <1>5, <1>7, <1>9, <2>1, <3>1, <3>2, <3>3 DEF Hand
  <2> QED
      BY Zenon, <2>2, <2>3
<1>18. ASSUME NEW d \in Spawners, NEW e \in Spawners
       PROVE  Apart(d, e)'
  <2>1. Apart(d, e)
        BY Zenon DEF IInv, SpawnInv
  <2>2. \A f \in Spawners : f # "sup" => (Working(f)' <=> Working(f)) /\ (Working(f) => idx'[f] # i)
        BY Zenon, <1>10, <1>14 DEF Working
  <2>3. Working("sup")' => idx'["sup"] = i
        BY Zenon, <1>10 DEF Working
  <2>4. (Working(d)' /\ Working(e)' /\ idx'[d] = idx'[e]) => d = e
        BY Zenon, <1>10, <2>1, <2>2, <2>3 DEF Apart
  <2> QED
      BY Zenon, <1>5, <2>1, <2>4 DEF Apart
<1>19. BootInv'
  <2> SUFFICES ASSUME at["boot"] # "idle", NEW j \in idx["boot"] + 1 .. BUILTIN
               PROVE  Ahead(j)'
      BY Zenon, <1>10 DEF BootInv, Spawners
  <2>1. Ahead(j)
        BY Zenon DEF IInv, BootInv
  <2>2. j # i
        BY Zenon, <1>2, <1>3, <2>1 DEF Ahead, Vacant
  <2>3. j \in Known
        BY <1>0, SupervisorAssumption DEF IInv, TypeOK, Known, Spawners
  <2> QED
      BY Zenon, <1>8, <1>10, <1>15, <2>1, <2>2, <2>3 DEF Ahead
<1>20. OneInv'
  <2>1. \A u \in Ids' : tasks[u].service \in Known
        BY Zenon, <1>0, <1>7 DEF TaskOfService
  <2> QED
      BY <1>7, <1>8, <1>13, <2>1 DEF IInv, OneInv
<1>21. NameInv'
  <2> SUFFICES ASSUME NEW j \in Known \ overtaken'
               PROVE  Named(j)'
      BY Zenon, <1>9 DEF NameInv
  <2>1. CASE j = i
        BY Zenon, <1>8, <1>13, <2>1 DEF Named
  <2>2. CASE j # i
    <3>1. Named(j) /\ services'[j] = services[j] /\ j # 0
          BY <1>6, <1>8, <2>2 DEF IInv, NameInv, Known
    <3>2. idx["sup"] = 0
          BY Zenon, <1>0 DEF Hand, Idling
    <3>3. \A d \in Spawners : idx[d] = j => idx'[d] = j
          BY Zenon, <1>10, <3>1, <3>2
    <3>4. services'[j].task # NO_TASK => services'[j].task \in Ids' /\ tasks'[services'[j].task].service = j
          BY Zenon, <1>3, <1>7, <2>2, <3>1 DEF Named
    <3>5. ASSUME NEW u \in Ids', tasks'[u].service = j
          PROVE  services'[j].task = u \/ \E d \in Spawners : idx'[d] = j /\ id'[d] = u
          BY <1>5, <1>7, <3>1, <3>3, <3>5 DEF Named
    <3> QED
        BY Zenon, <3>4, <3>5 DEF Named
  <2> QED
      BY Zenon, <2>1, <2>2
<1> QED
    BY Zenon, <1>11, <1>12, <1>17, <1>18, <1>19, <1>20, <1>21 DEF IInv, SpawnInv
-----------------------------------------------------------------------------
LEMMA InitInv == Init => IInv
<1> SUFFICES ASSUME Init
             PROVE  IInv
    BY Zenon
<1>1. /\ services = [i \in 1 .. BUILTIN |-> Fresh] /\ tasks = <<>> /\ next_id = 1
      /\ reap = <<>> /\ overtaken = {}
      BY Zenon DEF Init
<1>2. /\ at["boot"] = "build" /\ at["call"] = "idle" /\ at["sup"] = "reap"
      /\ idx["boot"] = 1 /\ idx["call"] = 0 /\ idx["sup"] = 0
      /\ \A c \in Spawners : id[c] = NO_TASK
      /\ at \in [Spawners -> Labels] /\ idx \in [Spawners -> Nat] /\ id \in [Spawners -> Nat]
      BY SupervisorAssumption DEF Init, Spawners, Labels
<1>3. Ids = {} /\ Len(reap) = 0
      BY <1>1 DEF Ids
<1>4. /\ BUILTIN \in Nat /\ 1 <= BUILTIN /\ Fresh \in Entry
      /\ Fresh.task = NO_TASK /\ Fresh.last_exit = "none"
      BY SupervisorAssumption DEF Fresh, Entry
<1>5. Len(services) = BUILTIN /\ services \in Seq(Entry) /\ Known = 1 .. BUILTIN
      BY <1>1, <1>4 DEF Known
<1>6. \A i \in Known : services[i] = Fresh /\ Vacant(i)
      BY Zenon, <1>1, <1>3, <1>4, <1>5 DEF Vacant
<1>7. TypeOK
  <2>1. services \in [Known -> Entry]
        BY Zenon, <1>1, <1>4, <1>5
  <2>2. Len(services) \in Nat /\ BUILTIN <= Len(services)
        BY <1>4, <1>5
  <2>3. tasks \in [Ids -> TaskOfService(Known)] /\ Ids \subseteq 1 .. next_id - 1
        BY <1>1, <1>3 DEF Ids
  <2>4. next_id \in Nat \ {0} /\ reap \in Seq(Nat)
        BY <1>1
  <2> QED
      BY Zenon, <1>2, <1>5, <2>1, <2>2, <2>3, <2>4 DEF TypeOK
<1>8. 1 \in Known /\ 1 <= BUILTIN /\ 0 <= BUILTIN
      BY <1>4, <1>5
<1>9. ASSUME NEW c \in Spawners
      PROVE  Hand(c) /\ \A d \in Spawners : Apart(c, d)
  <2>1. Hand(c)
        BY Zenon, <1>2, <1>6, <1>8 DEF Hand, Working, Idling, Spawners
  <2>2. \A d \in Spawners : Apart(c, d)
        BY Zenon, <1>2 DEF Apart, Working, Spawners
  <2> QED
      BY Zenon, <2>1, <2>2
<1>10. BootInv
  <2> SUFFICES ASSUME NEW i \in 2 .. BUILTIN
               PROVE  Ahead(i)
      BY <1>2 DEF BootInv
  <2>1. i \in Known /\ i # 0 /\ i # 1
        BY <1>4, <1>5
  <2> QED
      BY Zenon, <1>2, <1>4, <1>6, <2>1 DEF Ahead, Spawners
<1>11. OneInv /\ ReapInv
      BY <1>3 DEF OneInv, ReapInv
<1>12. NameInv
      BY Zenon, <1>3, <1>4, <1>6 DEF NameInv, Named
<1> QED
    BY Zenon, <1>7, <1>9, <1>10, <1>11, <1>12 DEF IInv, SpawnInv

LEMMA StepInv == IInv /\ [Next]_vars => IInv'
<1> SUFFICES ASSUME IInv, [Next]_vars
             PROVE  IInv'
    BY Zenon
<1>1. CASE UNCHANGED vars
  <2>1. /\ services' = services /\ tasks' = tasks /\ next_id' = next_id /\ reap' = reap
        /\ at' = at /\ idx' = idx /\ id' = id /\ overtaken' = overtaken /\ Ids' = Ids
        /\ Known' = Known
        BY Zenon, <1>1 DEF vars, Ids, Known
  <2>2. TypeOK' /\ ReapInv'
        BY Zenon, <2>1 DEF IInv, TypeOK, ReapInv
  <2> QED
      BY Zenon, <2>1, <2>2, SameServices DEF IInv
<1>2. CASE Register
      BY Zenon, <1>2, RegisterStep
<1>3. CASE Rest \/ Awake
      BY Zenon, <1>3, SupervisorMoves
<1>4. ASSUME NEW c \in Spawners, Build(c) \/ BuildFails(c) \/ Publish(c) \/ Record(c)
      PROVE  IInv'
      BY Zenon, <1>4, BuildStep, BuildFailsStep, PublishStep, RecordStep
<1>5. ASSUME NEW t \in Ids, OffCpu(t) \/ \E code \in Codes : Exit(t, code)
      PROVE  IInv'
      BY Zenon, <1>5, OffCpuStep, ExitStep
<1>6. ASSUME NEW k \in DOMAIN reap, TakeDead(k)
      PROVE  IInv'
      BY Zenon, <1>6, TakeDeadStep
<1> QED
    BY Zenon, <1>1, <1>2, <1>3, <1>4, <1>5, <1>6 DEF Next

LEMMA Invariance == Spec => []IInv
BY InitInv, StepInv, PTL DEF Spec

\* For any number of services and tasks, and whatever exits and fails when: a
\* service never has two tasks in the scheduler's table, and one that finished
\* cleanly has none again - spawn() and the supervisor's restart never build for
\* the same service, and a task is torn down before its successor is built.
THEOREM ServicesHaveOneTask == Spec => []OneTaskPerService
<1>1. ASSUME IInv
      PROVE  OneTaskPerService
  <2> SUFFICES ASSUME NEW i \in DOMAIN services
               PROVE  /\ \A t, u \in TasksOf(i) : t = u
                      /\ services[i].last_exit = "clean" => TasksOf(i) = {}
      BY Zenon DEF OneTaskPerService
  <2>1. \A t, u \in TasksOf(i) : t = u
        BY Zenon, <1>1 DEF IInv, OneInv, TasksOf
  <2>2. services[i].last_exit = "clean" => TasksOf(i) = {}
        BY <1>1 DEF IInv, OneInv, TasksOf
  <2> QED
      BY <2>1, <2>2
<1> QED
    BY <1>1, Invariance, PTL

\* Likewise, what SERVICES says a service runs as is a task of that service that
\* is in the scheduler's table, and its only task unless a spawn has yet to record
\* it: task_of() never names a task that was reaped, or another service's - but
\* for a service whose task was reaped before spawn() could record it.
THEOREM TableIsRight == Spec => []TableNamesTheTask
<1>1. ASSUME IInv
      PROVE  TableNamesTheTask
  <2>1. DOMAIN services = Known
        BY Zenon, <1>1 DEF IInv, TypeOK
  <2> SUFFICES ASSUME NEW i \in Known \ overtaken
               PROVE  /\ services[i].task # NO_TASK => services[i].task \in TasksOf(i)
                      /\ \A t \in TasksOf(i) \ {id[c] : c \in {d \in Spawners : idx[d] = i}} :
                            services[i].task = t
      BY Zenon, <2>1 DEF TableNamesTheTask
  <2>2. Named(i)
        BY Zenon, <1>1 DEF IInv, NameInv
  <2> QED
      BY Zenon, <2>2 DEF Named, TasksOf
<1> QED
    BY <1>1, Invariance, PTL
=============================================================================
