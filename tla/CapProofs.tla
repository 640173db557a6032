------------------------------ MODULE CapProofs ------------------------------
(***************************************************************************)
(* What the capability system promises for any number of tasks, slots,      *)
(* objects and messages.  The lemmas say what each table operation keeps;   *)
(* the inductive invariant is the type invariant with TableShape, without   *)
(* which an insert at the end of the vector could land on a tombstone.      *)
(***************************************************************************)
EXTENDS Capabilities, TLAPS

\* The part of TableShape that speaks of one table.
Shaped(tab) ==
    \A i \in Slots :
        /\ tab.slots[i] # Empty => i < tab.len
        /\ tab.revoked[i] => i < tab.len /\ tab.slots[i] = Empty

\* What a step may do to one table: every slot keeps its meaning.
Keeps(old, new) ==
    \A i \in Slots :
        /\ Get(old, i) # Empty => Get(new, i) \in {Get(old, i), Empty}
        /\ old.revoked[i] => new.revoked[i] /\ Get(new, i) = Empty

\* Functions on 1 .. n are sequences; a sequence's elements, first and rest.
LEMMA SeqLemma ==
    ASSUME NEW S
    PROVE  /\ \A n \in Nat : \A f \in [1 .. n -> S] : f \in Seq(S)
           /\ \A s \in Seq(S) : \A k \in 1 .. Len(s) : s[k] \in S
           /\ \A s \in Seq(S) : s # <<>> => Head(s) \in S /\ Tail(s) \in Seq(S)
<1>1. \A n \in Nat : \A f \in [1 .. n -> S] : f \in Seq(S)
  OBVIOUS
<1>2. \A s \in Seq(S) : \A k \in 1 .. Len(s) : s[k] \in S
  OBVIOUS
<1>3. \A s \in Seq(S) : s # <<>> => Head(s) \in S /\ Tail(s) \in Seq(S)
  OBVIOUS
<1> QED BY Zenon, <1>1, <1>2, <1>3

\* insert() on a well-formed table fills an empty slot that was never revoked.
LEMMA PutLemma ==
    ASSUME NEW tab \in CapTables, Shaped(tab), NEW i \in Slots, InsertsAt(tab, i),
           NEW cap \in Capability
    PROVE  /\ Put(tab, i, cap) \in CapTables
           /\ Shaped(Put(tab, i, cap))
           /\ Keeps(tab, Put(tab, i, cap))
<1>1. tab.slots[i] = Empty /\ ~tab.revoked[i] /\ i <= tab.len /\ tab.len \in 0 .. MAX_SLOTS
  BY MaxSlotsAssumption DEF InsertsAt, FirstUsable, Usable, NoUsable, Shaped, CapTables, Slots
<1>2. IF i < tab.len THEN TRUE ELSE tab.len < MAX_SLOTS
  BY <1>1, MaxSlotsAssumption DEF Slots
<1>3. Put(tab, i, cap) \in CapTables
  BY <1>1, <1>2, MaxSlotsAssumption DEF Put, CapTables, Slots
<1>4. Shaped(Put(tab, i, cap))
  BY <1>1, <1>2, MaxSlotsAssumption DEF Put, CapTables, Shaped, Slots
<1>5. Keeps(tab, Put(tab, i, cap))
  BY Zenon, <1>1 DEF Put, CapTables, Keeps, Get, Shaped
<1> QED BY Zenon, <1>3, <1>4, <1>5

\* revoke() empties one slot and marks it.
LEMMA RevokeLemma ==
    ASSUME NEW tab \in CapTables, Shaped(tab), NEW i \in Slots, Revocable(tab, i)
    PROVE  /\ Revoke(tab, i) \in CapTables
           /\ Shaped(Revoke(tab, i))
           /\ Keeps(tab, Revoke(tab, i))
BY Zenon DEF Revoke, Revocable, CapTables, Shaped, Keeps, Get

\* remove() empties one slot and marks nothing.
LEMMA RemoveLemma ==
    ASSUME NEW tab \in CapTables, Shaped(tab), NEW i \in Slots
    PROVE  /\ Remove(tab, i) \in CapTables
           /\ Shaped(Remove(tab, i))
           /\ Keeps(tab, Remove(tab, i))
BY Zenon DEF Remove, CapTables, Shaped, Keeps, Get

\* A fresh table, and one filled with a service's grants, is well formed.
LEMMA FreshLemma ==
    /\ NewTable \in CapTables /\ Shaped(NewTable)
    /\ \A grants \in Seq(Capability) :
         TableOf(grants) \in CapTables /\ Shaped(TableOf(grants))
BY MaxSlotsAssumption DEF NewTable, TableOf, CapTables, Shaped, Slots

\* derive() on a slot with GRANT yields a capability with no more rights.
LEMMA DeriveLemma ==
    ASSUME NEW tab \in CapTables, NEW i \in Slots, Derivable(tab, i), NEW mask \in Masks
    PROVE  /\ Get(tab, i) \in Capability
           /\ Derive(tab, i, mask) \in Capability
           /\ Derive(tab, i, mask).object = Get(tab, i).object
           /\ Derive(tab, i, mask).rights \subseteq Get(tab, i).rights
BY Zenon DEF Derivable, Lookup, Get, Derive, CapTables, Capability
-----------------------------------------------------------------------------
IInv == TypeOK /\ TableShape

\* What a call under way has cloned is well typed.
LEMMA CallLemma ==
    ASSUME TypeOK, NEW t \in Tasks
    PROVE  /\ call[t].op = "send" => /\ call[t].ep \in Endpoints
                                     /\ call[t].cap \in Capability \cup {Empty}
           /\ call[t].op = "recv" => call[t].ep \in Endpoints
           /\ call[t].op = "revoke" => call[t].victim \in Tasks
           /\ call[t].op = "spawn" => call[t].grants \in Seq(Capability)
           /\ call[t].op = "receipt" => call[t].child \in Tasks /\ call[t].n \in Nat
<1> call[t] \in Calls
  BY Zenon DEF TypeOK
<1> QED
  BY DEF Calls, Idle, SendCalls, RecvCalls, RecvdCalls, RevokeCalls, SpawnCalls,
         ReceiptCalls, ReceiptedCalls

\* Changing one table by an operation that keeps it well formed keeps them all
\* well formed.
LEMMA OneTable ==
    ASSUME IInv, NEW t \in Tasks, NEW tab \in CapTables, Shaped(tab),
           table' = [table EXCEPT ![t] = tab]
    PROVE  table' \in [Tasks -> CapTables] /\ TableShape'
BY Zenon DEF IInv, TypeOK, TableShape, Shaped

LEMMA SameTable ==
    ASSUME IInv, table' = table
    PROVE  table' \in [Tasks -> CapTables] /\ TableShape'
BY Zenon DEF IInv, TypeOK, TableShape

LEMMA ShapedTables ==
    ASSUME IInv, NEW t \in Tasks
    PROVE  table[t] \in CapTables /\ Shaped(table[t])
BY Zenon DEF IInv, TypeOK, TableShape, Shaped

\* The grants a caller asks for are a sequence of slots and masks.
LEMMA WantedLemma ==
    ASSUME NEW wanted \in Wanted
    PROVE  wanted \in Seq([slot : Slots, mask : Masks])
<1> DEFINE S == [slot : Slots, mask : Masks]
<1>1. PICK n \in Nat : wanted \in [1 .. n -> S]
  BY ObjectsAssumption DEF Wanted
<1> HIDE DEF S
<1>2. wanted \in Seq(S)
  BY Zenon, <1>1, SeqLemma
<1> QED BY Zenon, <1>2 DEF S

LEMMA InitInv == Init => IInv
<1> SUFFICES ASSUME Init PROVE IInv
  BY Zenon
<1>1. \A t \in Tasks : table[t] \in CapTables /\ Shaped(table[t])
  BY Zenon, FreshLemma, BootAssumption DEF Init
<1>2. TypeOK
  <2>1. table \in [Tasks -> CapTables]
    BY Zenon, <1>1 DEF Init
  <2>2. life \in [Tasks -> Lives] /\ made \subseteq Objects
    BY Zenon DEF Init, Lives
  <2>3. queue \in [Endpoints -> Seq(Capability \cup {Empty})]
    BY DEF Init
  <2>4. call \in [Tasks -> Calls]
    BY Zenon DEF Init, Calls
  <2>5. spec \in [Tasks -> Seq(Capability)]
    BY BootAssumption DEF Init
  <2> QED BY Zenon, <2>1, <2>2, <2>3, <2>4, <2>5 DEF TypeOK
<1> QED BY Zenon, <1>1, <1>2 DEF IInv, TableShape, Shaped

\* Every step keeps the inductive invariant, and every slot of a task that
\* stays alive keeps its meaning.
LEMMA StepInv ==
    ASSUME IInv, [Next]_vars
    PROVE  /\ IInv'
           /\ \A u \in Tasks : life[u] = "live" /\ life'[u] = "live" =>
                                 Keeps(table[u], table'[u])
<1> USE DEF IInv
<1> DEFINE Meaning == \A u \in Tasks : life[u] = "live" /\ life'[u] = "live" =>
                                         Keeps(table[u], table'[u])
<1>0. \A tab : Shaped(tab) => Keeps(tab, tab)
  BY Zenon DEF Keeps, Get, Shaped
<1>a. ASSUME UNCHANGED table PROVE table' \in [Tasks -> CapTables] /\ TableShape' /\ Meaning
  BY Zenon, <1>a, <1>0, SameTable, ShapedTables
<1>b. ASSUME NEW t \in Tasks, NEW tab \in CapTables, Shaped(tab), Keeps(table[t], tab),
             table' = [table EXCEPT ![t] = tab]
      PROVE  table' \in [Tasks -> CapTables] /\ TableShape' /\ Meaning
  <2>1. table \in [Tasks -> CapTables]
    BY Zenon DEF TypeOK
  <2> QED BY Zenon, <1>b, <1>0, <2>1, OneTable, ShapedTables
<1>1. ASSUME NEW t \in Tasks, NEW o \in Objects, Create(t, o) PROVE IInv' /\ Meaning
  <2>1. PICK i \in Slots :
          /\ InsertsAt(table[t], i)
          /\ table' = [table EXCEPT ![t] = Put(@, i, [object |-> o, rights |-> BirthRights(o)])]
    BY Zenon, <1>1 DEF Create
  <2>2. [object |-> o, rights |-> BirthRights(o)] \in Capability
    BY Zenon, ObjectsAssumption DEF Capability
  <2>3. table' \in [Tasks -> CapTables] /\ TableShape' /\ Meaning
    BY Zenon, <1>b, <2>1, <2>2, PutLemma, ShapedTables
  <2> QED BY Zenon, <1>1, <2>3 DEF Create, TypeOK
<1>2. ASSUME NEW t \in Tasks, NEW i \in Slots, CapDrop(t, i) PROVE IInv' /\ Meaning
  <2>1. table' \in [Tasks -> CapTables] /\ TableShape' /\ Meaning
    BY Zenon, <1>2, <1>b, RemoveLemma, ShapedTables DEF CapDrop
  <2> QED BY Zenon, <1>2, <2>1 DEF CapDrop, TypeOK
<1>3. ASSUME NEW t \in Tasks, NEW i \in Slots, Send(t, i) PROVE IInv' /\ Meaning
  <2>1. [op |-> "send", ep |-> Get(table[t], i).object, cap |-> Empty] \in Calls
    BY Zenon, <1>3 DEF Send, LooksUp, Calls, SendCalls
  <2> QED BY Zenon, <1>3, <2>1, <1>a DEF Send, TypeOK
<1>4. ASSUME NEW t \in Tasks, NEW i \in Slots, Recv(t, i) PROVE IInv' /\ Meaning
  <2>1. [op |-> "recv", ep |-> Get(table[t], i).object] \in Calls
    BY Zenon, <1>4 DEF Recv, LooksUp, Calls, RecvCalls
  <2> QED BY Zenon, <1>4, <2>1, <1>a DEF Recv, TypeOK
<1>5. ASSUME NEW t \in Tasks, NEW es \in Slots, NEW cs \in Slots, NEW mask \in Masks,
             SendCap(t, es, cs, mask)
      PROVE  IInv' /\ Meaning
  <2>1. Derive(table[t], cs, mask) \in Capability
    BY Zenon, <1>5, DeriveLemma, ShapedTables DEF SendCap
  <2>2. [op |-> "send", ep |-> Get(table[t], es).object,
         cap |-> Derive(table[t], cs, mask)] \in Calls
    BY Zenon, <1>5, <2>1 DEF SendCap, LooksUp, Calls, SendCalls
  <2> QED BY Zenon, <1>5, <2>2, <1>a DEF SendCap, TypeOK
<1>6. ASSUME NEW t \in Tasks, Deliver(t) PROVE IInv' /\ Meaning
  <2>1. call[t].ep \in Endpoints /\ call[t].cap \in Capability \cup {Empty}
    BY Zenon, <1>6, CallLemma DEF Deliver
  <2>2. queue' \in [Endpoints -> Seq(Capability \cup {Empty})]
    BY <1>6, <2>1 DEF Deliver, TypeOK
  <2> QED BY Zenon, <1>6, <2>2, <1>a DEF Deliver, TypeOK, Calls
<1>7. ASSUME NEW t \in Tasks, TakeMessage(t) PROVE IInv' /\ Meaning
  <2> DEFINE cap == Head(queue[call[t].ep])
  <2>1. call[t].ep \in Endpoints
    BY Zenon, <1>7, CallLemma DEF TakeMessage
  <2>2. cap \in Capability \cup {Empty} /\ queue' \in [Endpoints -> Seq(Capability \cup {Empty})]
    <3> DEFINE M == Capability \cup {Empty}
    <3>1. queue \in [Endpoints -> Seq(M)] /\ queue[call[t].ep] # <<>>
      BY Zenon, <1>7 DEF TakeMessage, TypeOK
    <3>2. queue' = [queue EXCEPT ![call[t].ep] = Tail(queue[call[t].ep])]
      BY Zenon, <1>7 DEF TakeMessage
    <3> HIDE DEF M
    <3>3. cap \in M /\ Tail(queue[call[t].ep]) \in Seq(M)
      BY Zenon, <2>1, <3>1, SeqLemma
    <3> QED BY Zenon, <2>1, <3>1, <3>2, <3>3 DEF M
  <2>3. ASSUME NEW slot \in Slots \cup {NO_CAP},
               call' = [call EXCEPT ![t] = [op |-> "recvd", cap |-> cap, slot |-> slot]]
        PROVE  call' \in [Tasks -> Calls]
    BY Zenon, <2>2, <2>3 DEF TypeOK, Calls, RecvdCalls
  <2>4. CASE cap # Empty /\ \E i \in Slots :
               /\ InsertsAt(table[t], i)
               /\ table' = [table EXCEPT ![t] = Put(@, i, cap)]
               /\ call' = [call EXCEPT ![t] = [op |-> "recvd", cap |-> cap, slot |-> i]]
    <3>1. PICK i \in Slots :
               /\ InsertsAt(table[t], i)
               /\ table' = [table EXCEPT ![t] = Put(@, i, cap)]
               /\ call' = [call EXCEPT ![t] = [op |-> "recvd", cap |-> cap, slot |-> i]]
      BY Zenon, <2>4
    <3>2. table' \in [Tasks -> CapTables] /\ TableShape' /\ Meaning
      BY <1>b, <2>2, <2>4, <3>1, PutLemma, ShapedTables
    <3>3. call' \in [Tasks -> Calls]
      BY Zenon, <2>3, <3>1
    <3> QED BY Zenon, <1>7, <2>2, <3>2, <3>3 DEF TakeMessage, TypeOK
  <2>5. CASE /\ UNCHANGED table
             /\ call' = [call EXCEPT ![t] = [op |-> "recvd", cap |-> cap, slot |-> NO_CAP]]
    <3>1. call' \in [Tasks -> Calls]
      BY Zenon, <2>3, <2>5
    <3> QED BY Zenon, <1>7, <2>2, <2>5, <3>1, <1>a DEF TakeMessage, TypeOK
  <2> QED BY Zenon, <1>7, <2>4, <2>5 DEF TakeMessage
<1>8. ASSUME NEW t \in Tasks, Return(t) PROVE IInv' /\ Meaning
  BY Zenon, <1>8, <1>a DEF Return, TypeOK, Calls
<1>9. ASSUME NEW t \in Tasks, NEW v \in Tasks, CapRevoke(t, v) PROVE IInv' /\ Meaning
  BY Zenon, <1>9, <1>a DEF CapRevoke, TypeOK, Calls, RevokeCalls
<1>10. ASSUME NEW t \in Tasks, NEW i \in Slots, RevokeCap(t, i) PROVE IInv' /\ Meaning
  <2>1. call[t].victim \in Tasks
    BY Zenon, <1>10, CallLemma DEF RevokeCap
  <2>2. table' \in [Tasks -> CapTables] /\ TableShape' /\ Meaning
    <3>1. CASE InTable(call[t].victim) /\ Revocable(table[call[t].victim], i)
      BY Zenon, <1>10, <2>1, <3>1, <1>b, RevokeLemma, ShapedTables DEF RevokeCap
    <3>2. CASE ~(InTable(call[t].victim) /\ Revocable(table[call[t].victim], i))
      BY Zenon, <1>10, <3>2, <1>a DEF RevokeCap
    <3> QED BY Zenon, <3>1, <3>2
  <2> QED BY Zenon, <1>10, <2>2 DEF RevokeCap, TypeOK, Calls
<1>11. ASSUME NEW t \in Tasks, NEW ctl \in Slots, NEW mem \in Slots, NEW wanted \in Wanted,
              SpawnDesc(t, ctl, mem, wanted)
       PROVE  IInv' /\ Meaning
  <2> DEFINE grants == [k \in 1 .. Len(wanted) |->
                          Derive(table[t], wanted[k].slot, wanted[k].mask)]
  <2>1. wanted \in Seq([slot : Slots, mask : Masks])
    BY Zenon, WantedLemma
  <2>2. \A k \in 1 .. Len(wanted) :
          Derive(table[t], wanted[k].slot, wanted[k].mask) \in Capability
    <3> TAKE k \in 1 .. Len(wanted)
    <3>1. wanted[k] \in [slot : Slots, mask : Masks]
      BY Zenon, <2>1, SeqLemma
    <3>2. Derivable(table[t], wanted[k].slot)
      BY Zenon, <1>11 DEF SpawnDesc
    <3> QED BY Zenon, <3>1, <3>2, DeriveLemma, ShapedTables
  <2>3. grants \in Seq(Capability)
    <3> Len(wanted) \in Nat
      BY <2>1
    <3> QED BY <2>2
  <2>4. [op |-> "spawn", grants |-> grants] \in Calls
    BY Zenon, <2>3 DEF Calls, SpawnCalls
  <2> QED BY Zenon, <1>11, <2>4, <1>a DEF SpawnDesc, TypeOK
<1>12. ASSUME NEW t \in Tasks, NEW child \in Tasks, Publish(t, child) PROVE IInv' /\ Meaning
  <2>1. call[t].grants \in Seq(Capability)
    BY Zenon, <1>12, CallLemma DEF Publish
  <2>2. table' \in [Tasks -> CapTables] /\ TableShape'
    BY Zenon, <1>12, <2>1, FreshLemma, OneTable DEF Publish
  <2>3. Meaning
    <3>1. \A u \in Tasks : life[u] = "live" => table'[u] = table[u]
      BY Zenon, <1>12 DEF Publish, TypeOK
    <3> QED BY Zenon, <3>1, <1>0, ShapedTables
  <2>4. [op |-> "receipt", child |-> child, n |-> Len(call[t].grants)] \in Calls
    BY <2>1 DEF Calls, ReceiptCalls
  <2> QED BY Zenon, <1>12, <2>1, <2>2, <2>3, <2>4 DEF Publish, TypeOK, Lives
<1>13. ASSUME NEW t \in Tasks, WriteReceipt(t) PROVE IInv' /\ Meaning
  <2> DEFINE words == [k \in 1 .. call[t].n |-> ReceiptWord(call[t].child, k - 1)]
  <2>1. call[t].n \in Nat
    BY Zenon, <1>13, CallLemma DEF WriteReceipt
  <2>2. \A child, k : ReceiptWord(child, k) \in Slots \cup {NO_CAP}
    BY Zenon DEF ReceiptWord
  <2>3. words \in Seq(Slots \cup {NO_CAP})
    BY <2>1, <2>2
  <2>4. [op |-> "receipted", words |-> words] \in Calls
    BY Zenon, <2>3 DEF Calls, ReceiptedCalls
  <2> QED BY Zenon, <1>13, <2>4, <1>a DEF WriteReceipt, TypeOK
<1>14. ASSUME NEW t \in Tasks, NEW how \in {"finished", "crashed"}, Exit(t, how)
       PROVE  IInv' /\ Meaning
  BY Zenon, <1>14, <1>a DEF Exit, TypeOK, Lives
<1>15. ASSUME NEW t \in Tasks, Reap(t) PROVE IInv' /\ Meaning
  <2>1. table' \in [Tasks -> CapTables] /\ TableShape'
    BY Zenon, <1>15, FreshLemma, OneTable DEF Reap
  <2>2. Meaning
    <3>1. \A u \in Tasks : life[u] = "live" => table'[u] = table[u]
      BY Zenon, <1>15 DEF Reap, TypeOK
    <3> QED BY Zenon, <3>1, <1>0, ShapedTables
  <2> QED BY Zenon, <1>15, <2>1, <2>2 DEF Reap, TypeOK, Lives
<1>16. ASSUME NEW t \in Tasks, NEW u \in Tasks, Restart(t, u) PROVE IInv' /\ Meaning
  <2>1. spec[t] \in Seq(Capability)
    BY Zenon DEF TypeOK
  <2>2. table' \in [Tasks -> CapTables] /\ TableShape'
    BY Zenon, <1>16, <2>1, FreshLemma, OneTable DEF Restart
  <2>3. Meaning
    <3>1. \A v \in Tasks : life[v] = "live" => table'[v] = table[v]
      BY Zenon, <1>16 DEF Restart, TypeOK
    <3> QED BY Zenon, <3>1, <1>0, ShapedTables
  <2> QED BY Zenon, <1>16, <2>1, <2>2, <2>3 DEF Restart, TypeOK, Lives
<1>17. CASE UNCHANGED vars
  BY Zenon, <1>17, <1>a DEF vars, TypeOK
<1> QED
  BY Zenon, <1>1, <1>2, <1>3, <1>4, <1>5, <1>6, <1>7, <1>8, <1>9, <1>10, <1>11, <1>12, <1>13,
     <1>14, <1>15, <1>16, <1>17
  DEF Next, TaskStep, Supervise
-----------------------------------------------------------------------------
\* Types are respected and every table is a prefix of used slots whose
\* tombstones are empty (obj/mod.rs CapTable), whatever the system calls do.
THEOREM TablesWellFormed == Spec => [](TypeOK /\ TableShape)
<1>1. Init => IInv
  BY Zenon, InitInv
<1>2. IInv /\ [Next]_vars => IInv'
  BY Zenon, StepInv
<1> QED BY <1>1, <1>2, PTL DEF Spec, IInv

\* A slot number never comes to name another capability and a revoked number
\* is dead for good (obj/mod.rs CapTable::insert, revoke, remove), for any
\* number of tasks and slots.
THEOREM SlotNumbersAreStable == Spec => SlotsKeepTheirMeaning
<1>1. Init => IInv
  BY Zenon, InitInv
<1>2. IInv /\ [Next]_vars => IInv'
  BY Zenon, StepInv
<1>3. IInv /\ [Next]_vars =>
        [\A t \in Tasks, i \in Slots :
           life[t] = "live" /\ life'[t] = "live" => SlotKeepsMeaning(t, i)]_vars
  BY Zenon, StepInv DEF Keeps, SlotKeepsMeaning
<1> QED BY <1>1, <1>2, <1>3, PTL DEF Spec, SlotsKeepTheirMeaning
-----------------------------------------------------------------------------
(* No operation adds a right.  NoAmplification speaks of the set of all     *)
(* copies; the invariant speaks of each place a copy can be in.             *)

Bounded(cap) == cap # Empty => cap.rights \subseteq BirthRights(cap.object)
AllBounded(seq) == \A k \in 1 .. Len(seq) : Bounded(seq[k])
TableBounded(tab) == \A i \in Slots : Bounded(tab.slots[i])
CallBounded(c) ==
    /\ c.op = "send" => Bounded(c.cap)
    /\ c.op = "spawn" => AllBounded(c.grants)

AmpInv ==
    /\ \A t \in Tasks : TableBounded(table[t])
    /\ \A e \in Endpoints : AllBounded(queue[e])
    /\ \A t \in Tasks : AllBounded(spec[t])
    /\ \A t \in Tasks : CallBounded(call[t])

\* A call that is neither sending nor spawning holds no capability.
LEMMA QuietCalls ==
    /\ CallBounded(Idle)
    /\ \A ep : CallBounded([op |-> "recv", ep |-> ep])
    /\ \A cap, slot : CallBounded([op |-> "recvd", cap |-> cap, slot |-> slot])
    /\ \A v : CallBounded([op |-> "revoke", victim |-> v])
    /\ \A u, n : CallBounded([op |-> "receipt", child |-> u, n |-> n])
    /\ \A words : CallBounded([op |-> "receipted", words |-> words])
BY Zenon DEF CallBounded, Idle

LEMMA BoundedTables ==
    /\ TableBounded(NewTable)
    /\ \A grants \in Seq(Capability) : AllBounded(grants) => TableBounded(TableOf(grants))
BY MaxSlotsAssumption DEF TableBounded, Bounded, AllBounded, NewTable, TableOf, Slots

LEMMA AmpInit == Init => AmpInv
<1> SUFFICES ASSUME Init PROVE AmpInv
  BY Zenon
<1>1. \A t \in DOMAIN Boot : Boot[t] \in Seq(Capability) /\ AllBounded(Boot[t])
  BY Zenon, BootAssumption DEF AllBounded, Bounded
<1>2. \A t \in Tasks : TableBounded(table[t])
  BY Zenon, <1>1, BoundedTables DEF Init
<1>3. \A e \in Endpoints : AllBounded(queue[e])
  BY DEF Init, AllBounded
<1>4. \A t \in Tasks : AllBounded(spec[t])
  BY <1>1 DEF Init, AllBounded
<1>5. \A t \in Tasks : CallBounded(call[t])
  BY Zenon, QuietCalls DEF Init
<1> QED BY Zenon, <1>2, <1>3, <1>4, <1>5 DEF AmpInv

\* Replacing one table, one call or one record by a bounded one.
LEMMA AmpTable ==
    ASSUME TypeOK, AmpInv, NEW t \in Tasks, NEW tab, TableBounded(tab),
           table' = [table EXCEPT ![t] = tab]
    PROVE  \A u \in Tasks : TableBounded(table'[u])
BY Zenon DEF AmpInv, TypeOK

LEMMA AmpCall ==
    ASSUME TypeOK, AmpInv, NEW t \in Tasks, NEW c, CallBounded(c),
           call' = [call EXCEPT ![t] = c]
    PROVE  \A u \in Tasks : CallBounded(call'[u])
BY Zenon DEF AmpInv, TypeOK

LEMMA AmpStep ==
    ASSUME IInv, AmpInv, [Next]_vars
    PROVE  AmpInv'
<1> USE DEF IInv
<1>1. ASSUME NEW t \in Tasks, NEW o \in Objects, Create(t, o) PROVE AmpInv'
  <2>1. PICK i \in Slots :
          table' = [table EXCEPT ![t] = Put(@, i, [object |-> o, rights |-> BirthRights(o)])]
    BY Zenon, <1>1 DEF Create
  <2>2. TableBounded(Put(table[t], i, [object |-> o, rights |-> BirthRights(o)]))
    BY Zenon, ShapedTables DEF AmpInv, TableBounded, Bounded, Put, CapTables
  <2>3. \A u \in Tasks : TableBounded(table'[u])
    BY Zenon, <2>1, <2>2, AmpTable
  <2> QED BY Zenon, <1>1, <2>3 DEF Create, AmpInv
<1>2. ASSUME NEW t \in Tasks, NEW i \in Slots, CapDrop(t, i) PROVE AmpInv'
  <2>1. TableBounded(Remove(table[t], i))
    BY Zenon, ShapedTables DEF AmpInv, TableBounded, Bounded, Remove, CapTables
  <2>2. \A u \in Tasks : TableBounded(table'[u])
    BY Zenon, <1>2, <2>1, AmpTable DEF CapDrop
  <2> QED BY Zenon, <1>2, <2>2 DEF CapDrop, AmpInv
<1>3. ASSUME NEW t \in Tasks, NEW i \in Slots, Send(t, i) PROVE AmpInv'
  <2>1. CallBounded([op |-> "send", ep |-> Get(table[t], i).object, cap |-> Empty])
    BY Zenon DEF CallBounded, Bounded
  <2>2. \A u \in Tasks : CallBounded(call'[u])
    BY Zenon, <1>3, <2>1, AmpCall DEF Send
  <2> QED BY Zenon, <1>3, <2>2 DEF Send, AmpInv
<1>4. ASSUME NEW t \in Tasks, NEW i \in Slots, Recv(t, i) PROVE AmpInv'
  <2>1. \A u \in Tasks : CallBounded(call'[u])
    BY Zenon, <1>4, QuietCalls, AmpCall DEF Recv
  <2> QED BY Zenon, <1>4, <2>1 DEF Recv, AmpInv
<1>5. ASSUME NEW t \in Tasks, NEW es \in Slots, NEW cs \in Slots, NEW mask \in Masks,
             SendCap(t, es, cs, mask)
      PROVE  AmpInv'
  <2>1. Bounded(Derive(table[t], cs, mask))
    <3>1. Derivable(table[t], cs) /\ Bounded(Get(table[t], cs)) /\ Get(table[t], cs) # Empty
      BY Zenon, <1>5 DEF SendCap, AmpInv, TableBounded, Get, Derivable, Lookup
    <3> QED BY Zenon, <3>1, DeriveLemma, ShapedTables DEF Bounded
  <2>2. CallBounded([op |-> "send", ep |-> Get(table[t], es).object,
                     cap |-> Derive(table[t], cs, mask)])
    BY Zenon, <2>1 DEF CallBounded
  <2>3. \A u \in Tasks : CallBounded(call'[u])
    BY Zenon, <1>5, <2>2, AmpCall DEF SendCap
  <2> QED BY Zenon, <1>5, <2>3 DEF SendCap, AmpInv
<1>6. ASSUME NEW t \in Tasks, Deliver(t) PROVE AmpInv'
  <2>1. call[t].ep \in Endpoints /\ call[t].cap \in Capability \cup {Empty} /\ Bounded(call[t].cap)
    BY Zenon, <1>6, CallLemma DEF Deliver, AmpInv, CallBounded
  <2>2. \A e \in Endpoints : AllBounded(queue'[e])
    <3>1. \A seq \in Seq(Capability \cup {Empty}) :
            AllBounded(seq) => AllBounded(Append(seq, call[t].cap))
      BY <2>1 DEF AllBounded
    <3> QED BY Zenon, <1>6, <2>1, <3>1 DEF Deliver, AmpInv, TypeOK
  <2>3. \A u \in Tasks : CallBounded(call'[u])
    BY Zenon, <1>6, QuietCalls, AmpCall DEF Deliver
  <2> QED BY Zenon, <1>6, <2>2, <2>3 DEF Deliver, AmpInv
<1>7. ASSUME NEW t \in Tasks, TakeMessage(t) PROVE AmpInv'
  <2> DEFINE cap == Head(queue[call[t].ep])
  <2>1. call[t].ep \in Endpoints
    BY Zenon, <1>7, CallLemma DEF TakeMessage
  <2>2. queue[call[t].ep] \in Seq(Capability \cup {Empty}) /\ queue[call[t].ep] # <<>>
    BY Zenon, <1>7, <2>1 DEF TakeMessage, TypeOK
  <2>3. Bounded(cap)
    BY <2>1, <2>2 DEF AmpInv, AllBounded
  <2>4. \A e \in Endpoints : AllBounded(queue'[e])
    <3>1. \A seq \in Seq(Capability \cup {Empty}) :
            seq # <<>> /\ AllBounded(seq) => AllBounded(Tail(seq))
      BY DEF AllBounded
    <3> QED BY Zenon, <1>7, <2>1, <2>2, <3>1 DEF TakeMessage, AmpInv, TypeOK
  <2>5. \A u \in Tasks : CallBounded(call'[u])
    <3>1. PICK slot : call' = [call EXCEPT ![t] = [op |-> "recvd", cap |-> cap, slot |-> slot]]
      BY Zenon, <1>7 DEF TakeMessage
    <3> QED BY Zenon, <3>1, QuietCalls, AmpCall
  <2>6. \A u \in Tasks : TableBounded(table'[u])
    <3>1. CASE UNCHANGED table
      BY Zenon, <3>1 DEF AmpInv
    <3>2. CASE \E i \in Slots : table' = [table EXCEPT ![t] = Put(@, i, cap)]
      <4>1. PICK i \in Slots : table' = [table EXCEPT ![t] = Put(@, i, cap)]
        BY Zenon, <3>2
      <4>2. TableBounded(Put(table[t], i, cap))
        BY Zenon, <2>3, ShapedTables DEF AmpInv, TableBounded, Put, CapTables
      <4> QED BY Zenon, <4>1, <4>2, AmpTable
    <3> QED BY Zenon, <1>7, <3>1, <3>2 DEF TakeMessage
  <2> QED BY Zenon, <1>7, <2>4, <2>5, <2>6 DEF TakeMessage, AmpInv
<1>8. ASSUME NEW t \in Tasks, Return(t) PROVE AmpInv'
  <2>1. \A u \in Tasks : CallBounded(call'[u])
    BY Zenon, <1>8, QuietCalls, AmpCall DEF Return
  <2> QED BY Zenon, <1>8, <2>1 DEF Return, AmpInv
<1>9. ASSUME NEW t \in Tasks, NEW v \in Tasks, CapRevoke(t, v) PROVE AmpInv'
  <2>1. \A u \in Tasks : CallBounded(call'[u])
    BY Zenon, <1>9, QuietCalls, AmpCall DEF CapRevoke
  <2> QED BY Zenon, <1>9, <2>1 DEF CapRevoke, AmpInv
<1>10. ASSUME NEW t \in Tasks, NEW i \in Slots, RevokeCap(t, i) PROVE AmpInv'
  <2>1. call[t].victim \in Tasks
    BY Zenon, <1>10, CallLemma DEF RevokeCap
  <2>2. TableBounded(Revoke(table[call[t].victim], i))
    BY Zenon, <2>1, ShapedTables DEF AmpInv, TableBounded, Bounded, Revoke, CapTables
  <2>3. \A u \in Tasks : TableBounded(table'[u])
    <3>1. CASE table' = table
      BY Zenon, <3>1 DEF AmpInv
    <3>2. CASE table' = [table EXCEPT ![call[t].victim] = Revoke(@, i)]
      BY Zenon, <2>1, <2>2, <3>2, AmpTable
    <3> QED BY Zenon, <1>10, <3>1, <3>2 DEF RevokeCap
  <2>4. \A u \in Tasks : CallBounded(call'[u])
    BY Zenon, <1>10, QuietCalls, AmpCall DEF RevokeCap
  <2> QED BY Zenon, <1>10, <2>3, <2>4 DEF RevokeCap, AmpInv
<1>11. ASSUME NEW t \in Tasks, NEW ctl \in Slots, NEW mem \in Slots, NEW wanted \in Wanted,
              SpawnDesc(t, ctl, mem, wanted)
       PROVE  AmpInv'
  <2> DEFINE grants == [k \in 1 .. Len(wanted) |->
                          Derive(table[t], wanted[k].slot, wanted[k].mask)]
  <2>2. wanted \in Seq([slot : Slots, mask : Masks])
    BY Zenon, WantedLemma
  <2>3. \A k \in 1 .. Len(wanted) : Bounded(grants[k])
    <3> TAKE k \in 1 .. Len(wanted)
    <3>1. wanted[k] \in [slot : Slots, mask : Masks]
      BY Zenon, <2>2, SeqLemma
    <3>2. Derivable(table[t], wanted[k].slot)
      BY Zenon, <1>11 DEF SpawnDesc
    <3>3. Bounded(Get(table[t], wanted[k].slot)) /\ Get(table[t], wanted[k].slot) # Empty
      BY Zenon, <3>1, <3>2 DEF AmpInv, TableBounded, Get, Derivable, Lookup
    <3> QED BY Zenon, <3>1, <3>2, <3>3, DeriveLemma, ShapedTables DEF Bounded
  <2>4. Len(grants) = Len(wanted)
    <3> Len(wanted) \in Nat
      BY <2>2
    <3> QED OBVIOUS
  <2>5. CallBounded([op |-> "spawn", grants |-> grants])
    <3> HIDE DEF grants
    <3> QED BY Zenon, <2>3, <2>4 DEF CallBounded, AllBounded
  <2>6. \A u \in Tasks : CallBounded(call'[u])
    BY Zenon, <1>11, <2>5, AmpCall DEF SpawnDesc
  <2> QED BY Zenon, <1>11, <2>6 DEF SpawnDesc, AmpInv
<1>12. ASSUME NEW t \in Tasks, NEW child \in Tasks, Publish(t, child) PROVE AmpInv'
  <2>1. call[t].grants \in Seq(Capability) /\ AllBounded(call[t].grants)
    BY Zenon, <1>12, CallLemma DEF Publish, AmpInv, CallBounded
  <2>2. \A u \in Tasks : TableBounded(table'[u])
    BY Zenon, <1>12, <2>1, BoundedTables, AmpTable DEF Publish
  <2>3. \A u \in Tasks : CallBounded(call'[u])
    BY Zenon, <1>12, QuietCalls, AmpCall DEF Publish
  <2>4. \A u \in Tasks : AllBounded(spec'[u])
    BY Zenon, <1>12, <2>1 DEF Publish, AmpInv, TypeOK
  <2> QED BY Zenon, <1>12, <2>2, <2>3, <2>4 DEF Publish, AmpInv
<1>13. ASSUME NEW t \in Tasks, WriteReceipt(t) PROVE AmpInv'
  <2>1. \A u \in Tasks : CallBounded(call'[u])
    BY Zenon, <1>13, QuietCalls, AmpCall DEF WriteReceipt
  <2> QED BY Zenon, <1>13, <2>1 DEF WriteReceipt, AmpInv
<1>14. ASSUME NEW t \in Tasks, NEW how \in {"finished", "crashed"}, Exit(t, how) PROVE AmpInv'
  BY Zenon, <1>14 DEF Exit, AmpInv
<1>15. ASSUME NEW t \in Tasks, Reap(t) PROVE AmpInv'
  <2>1. \A u \in Tasks : TableBounded(table'[u])
    BY Zenon, <1>15, BoundedTables, AmpTable DEF Reap
  <2> QED BY Zenon, <1>15, <2>1 DEF Reap, AmpInv
<1>16. ASSUME NEW t \in Tasks, NEW u \in Tasks, Restart(t, u) PROVE AmpInv'
  <2>1. spec[t] \in Seq(Capability) /\ AllBounded(spec[t])
    BY Zenon DEF TypeOK, AmpInv
  <2>2. \A v \in Tasks : TableBounded(table'[v])
    BY Zenon, <1>16, <2>1, BoundedTables, AmpTable DEF Restart
  <2>3. \A v \in Tasks : AllBounded(spec'[v])
    BY Zenon, <1>16, <2>1 DEF Restart, AmpInv, TypeOK
  <2> QED BY Zenon, <1>16, <2>2, <2>3 DEF Restart, AmpInv
<1>17. CASE UNCHANGED vars
  BY Zenon, <1>17 DEF vars, AmpInv
<1> QED
  BY Zenon, <1>1, <1>2, <1>3, <1>4, <1>5, <1>6, <1>7, <1>8, <1>9, <1>10, <1>11, <1>12, <1>13,
     <1>14, <1>15, <1>16, <1>17
  DEF Next, TaskStep, Supervise

\* What is in a bounded sequence is bounded.
LEMMA RangeLemma ==
    ASSUME NEW S, NEW seq \in Seq(S), AllBounded(seq), NEW cap \in Range(seq)
    PROVE  Bounded(cap)
<1>1. PICK k \in 1 .. Len(seq) : cap = seq[k]
  BY DEF Range
<1> QED BY Zenon, <1>1 DEF AllBounded

\* The places AmpInv names are all the places Everywhere collects.
LEMMA AmpEverywhere == IInv /\ AmpInv => NoAmplification
<1> SUFFICES ASSUME IInv, AmpInv, NEW cap \in Everywhere, cap # Empty PROVE Bounded(cap)
  BY Zenon DEF NoAmplification, Bounded
<1>1. CASE \E t \in Tasks : cap \in Held(table[t])
  BY Zenon, <1>1 DEF AmpInv, TableBounded, Held, LiveSlots, Get
<1>2. CASE \E e \in Endpoints : cap \in Range(queue[e])
  BY Zenon, <1>2, RangeLemma DEF AmpInv, IInv, TypeOK
<1>3. CASE \E t \in Tasks : cap \in Range(spec[t])
  BY Zenon, <1>3, RangeLemma DEF AmpInv, IInv, TypeOK
<1>4. CASE \E t \in Tasks : call[t].op = "send" /\ cap = call[t].cap
  BY Zenon, <1>4 DEF AmpInv, CallBounded
<1>5. CASE \E t \in Tasks : call[t].op = "spawn" /\ cap \in Range(call[t].grants)
  BY Zenon, <1>5, CallLemma, RangeLemma DEF AmpInv, CallBounded, IInv
<1> QED BY Zenon, <1>1, <1>2, <1>3, <1>4, <1>5 DEF Everywhere, InTransit

\* No chain of sends, spawns and restarts adds a right to a capability
\* (obj/mod.rs CapTable::derive), for any tasks, objects and masks.
THEOREM AuthorityNeverGrows == Spec => []NoAmplification
<1>1. Init => IInv /\ AmpInv
  BY Zenon, InitInv, AmpInit
<1>2. IInv /\ AmpInv /\ [Next]_vars => IInv' /\ AmpInv'
  BY Zenon, StepInv, AmpStep
<1>3. IInv /\ AmpInv => NoAmplification
  BY Zenon, AmpEverywhere
<1> QED BY <1>1, <1>2, <1>3, PTL DEF Spec
-----------------------------------------------------------------------------
(* A task that has left the task table holds nothing.  The invariant adds    *)
(* that only a live task is inside a system call, so that none can receive   *)
(* or create once it is torn down.                                           *)

HoldInv ==
    \A t \in Tasks :
        /\ call[t] # Idle => life[t] = "live"
        /\ life[t] \in {"restarting", "gone"} => \A i \in Slots : table[t].slots[i] = Empty

LEMMA HoldInit == Init => HoldInv
BY Zenon DEF Init, HoldInv

LEMMA HoldStep ==
    ASSUME IInv, HoldInv, [Next]_vars
    PROVE  HoldInv'
<1> USE DEF IInv, TypeOK, HoldInv
<1>0. \A t \in Tasks : call[t].op # "idle" => life[t] = "live"
  BY DEF Idle
<1>1. ASSUME NEW t \in Tasks, NEW o \in Objects, Create(t, o) PROVE HoldInv'
  BY Zenon, <1>1 DEF Create, InUserMode
<1>2. ASSUME NEW t \in Tasks, NEW i \in Slots, CapDrop(t, i) PROVE HoldInv'
  BY Zenon, <1>2 DEF CapDrop, InUserMode
<1>3. ASSUME NEW t \in Tasks, NEW i \in Slots, Send(t, i) PROVE HoldInv'
  BY Zenon, <1>3 DEF Send, InUserMode
<1>4. ASSUME NEW t \in Tasks, NEW i \in Slots, Recv(t, i) PROVE HoldInv'
  BY Zenon, <1>4 DEF Recv, InUserMode
<1>5. ASSUME NEW t \in Tasks, NEW es \in Slots, NEW cs \in Slots, NEW mask \in Masks,
             SendCap(t, es, cs, mask)
      PROVE  HoldInv'
  BY Zenon, <1>5 DEF SendCap, InUserMode
<1>6. ASSUME NEW t \in Tasks, Deliver(t) PROVE HoldInv'
  BY Zenon, <1>6 DEF Deliver
<1>7. ASSUME NEW t \in Tasks, TakeMessage(t) PROVE HoldInv'
  <2>1. life[t] = "live"
    BY Zenon, <1>0, <1>7 DEF TakeMessage
  <2>2. \A u \in Tasks : u # t => table'[u] = table[u] /\ call'[u] = call[u]
    BY Zenon, <1>7 DEF TakeMessage
  <2>3. life' = life
    BY Zenon, <1>7 DEF TakeMessage
  <2> QED BY Zenon, <2>1, <2>2, <2>3
<1>8. ASSUME NEW t \in Tasks, Return(t) PROVE HoldInv'
  BY Zenon, <1>8 DEF Return
<1>9. ASSUME NEW t \in Tasks, NEW v \in Tasks, CapRevoke(t, v) PROVE HoldInv'
  BY Zenon, <1>9 DEF CapRevoke, InUserMode
<1>10. ASSUME NEW t \in Tasks, NEW i \in Slots, RevokeCap(t, i) PROVE HoldInv'
  <2>1. ASSUME NEW u \in Tasks, \A j \in Slots : table[u].slots[j] = Empty
        PROVE  \A j \in Slots : table'[u].slots[j] = Empty
    BY Zenon, <1>10, <2>1 DEF RevokeCap, Revocable
  <2>2. life' = life /\ \A u \in Tasks : call'[u] = call[u] \/ call'[u] = Idle
    BY Zenon, <1>10 DEF RevokeCap
  <2> QED BY Zenon, <2>1, <2>2
<1>11. ASSUME NEW t \in Tasks, NEW ctl \in Slots, NEW mem \in Slots, NEW wanted \in Wanted,
              SpawnDesc(t, ctl, mem, wanted)
       PROVE  HoldInv'
  BY Zenon, <1>11 DEF SpawnDesc, InUserMode
<1>12. ASSUME NEW t \in Tasks, NEW child \in Tasks, Publish(t, child) PROVE HoldInv'
  <2>1. life[t] = "live" /\ child # t
    BY Zenon, <1>0, <1>12 DEF Publish
  <2> QED BY Zenon, <1>12, <2>1 DEF Publish
<1>13. ASSUME NEW t \in Tasks, WriteReceipt(t) PROVE HoldInv'
  <2>1. life[t] = "live"
    BY Zenon, <1>0, <1>13 DEF WriteReceipt
  <2> QED BY Zenon, <1>13, <2>1 DEF WriteReceipt
<1>14. ASSUME NEW t \in Tasks, NEW how \in {"finished", "crashed"}, Exit(t, how) PROVE HoldInv'
  BY Zenon, <1>14 DEF Exit, InUserMode
<1>15. ASSUME NEW t \in Tasks, Reap(t) PROVE HoldInv'
  BY Zenon, <1>15 DEF Reap, NewTable
<1>16. ASSUME NEW t \in Tasks, NEW u \in Tasks, Restart(t, u) PROVE HoldInv'
  BY Zenon, <1>16 DEF Restart
<1>17. CASE UNCHANGED vars
  BY Zenon, <1>17 DEF vars
<1> QED
  BY Zenon, <1>1, <1>2, <1>3, <1>4, <1>5, <1>6, <1>7, <1>8, <1>9, <1>10, <1>11, <1>12, <1>13,
     <1>14, <1>15, <1>16, <1>17
  DEF Next, TaskStep, Supervise

\* A task that was torn down holds nothing, whatever messages still name its
\* endpoints and whoever restarts its service (sched/mod.rs take_dead), for any
\* tasks and slots.
THEOREM TheDeadAreStripped == Spec => []DeadHoldNothing
<1>1. Init => IInv /\ HoldInv
  BY Zenon, InitInv, HoldInit
<1>2. IInv /\ HoldInv /\ [Next]_vars => IInv' /\ HoldInv'
  BY Zenon, StepInv, HoldStep
<1>3. HoldInv => DeadHoldNothing
  BY Zenon DEF HoldInv, DeadHoldNothing, Held, LiveSlots
<1> QED BY <1>1, <1>2, <1>3, PTL DEF Spec
-----------------------------------------------------------------------------
(* Authority over an object that exists spreads only by GRANT.               *)

\* Where a capability that is new to task t comes from.
FromGrant(t, new) ==
    \E old \in Held(table[t]) :
        /\ old.object = new.object
        /\ new.rights \subseteq old.rights
        /\ "GRANT" \in old.rights

Sourced(t, new) == new.object \in made => FromGrant(t, new) \/ new \in InTransit

\* What is derived from a slot comes from a capability with GRANT.
LEMMA DerivedIsSourced ==
    ASSUME IInv, NEW t \in Tasks, NEW i \in Slots, Derivable(table[t], i), NEW mask \in Masks
    PROVE  FromGrant(t, Derive(table[t], i, mask))
<1>1. Get(table[t], i) \in Held(table[t]) /\ "GRANT" \in Get(table[t], i).rights
  BY Zenon DEF Derivable, Lookup, Held, LiveSlots, Get
<1> QED BY Zenon, <1>1, DeriveLemma, ShapedTables DEF FromGrant

\* What each table operation does to the capabilities held.
LEMMA HeldLemma ==
    ASSUME NEW tab \in CapTables, NEW i \in Slots
    PROVE  /\ \A cap : Held(Put(tab, i, cap)) \subseteq Held(tab) \cup {cap}
           /\ Held(Remove(tab, i)) \subseteq Held(tab)
           /\ Held(Revoke(tab, i)) \subseteq Held(tab)
BY Zenon DEF Held, LiveSlots, Get, Put, Remove, Revoke, CapTables

\* A table filled from a list of grants holds members of that list.
LEMMA HeldOfGrants ==
    ASSUME NEW grants \in Seq(Capability)
    PROVE  Held(TableOf(grants)) \subseteq Range(grants) /\ Held(NewTable) = {}
<1>1. ASSUME NEW cap \in Held(TableOf(grants)) PROVE cap \in Range(grants)
  <2>1. PICK i \in Slots : i < Len(grants) /\ cap = grants[i + 1]
    <3>1. PICK i \in Slots : cap = TableOf(grants).slots[i] /\ cap # Empty
      BY Zenon DEF Held, LiveSlots, Get
    <3>2. TableOf(grants).slots[i] = IF i < Len(grants) THEN grants[i + 1] ELSE Empty
      BY Zenon DEF TableOf
    <3> QED BY Zenon, <3>1, <3>2
  <2>2. i + 1 \in 1 .. Len(grants)
    BY <2>1 DEF Slots
  <2> QED BY <2>1, <2>2 DEF Range
<1>2. Held(NewTable) = {}
  BY Zenon DEF Held, LiveSlots, NewTable
<1> QED BY Zenon, <1>1, <1>2

\* A step that changes no call and, of the tables, makes none hold more.
LEMMA HeldShrinks ==
    ASSUME NEW t \in Tasks, Held(table'[t]) \subseteq Held(table[t]),
           call'[t] = call[t] \/ call'[t].op \notin {"send", "spawn"}
    PROVE  Authority(t)' \subseteq Authority(t)
BY Zenon DEF Authority

LEMMA GrantStep ==
    ASSUME IInv, [Next]_vars, NEW u \in Tasks, NEW new \in Authority(u)' \ Authority(u)
    PROVE  Sourced(u, new)
<1> USE DEF IInv
<1>0. table \in [Tasks -> CapTables] /\ call \in [Tasks -> Calls]
  BY Zenon DEF TypeOK
<1>a. Held(table'[u]) \subseteq Held(table[u]) =>
        call'[u] # call[u] /\ call'[u].op \in {"send", "spawn"}
  BY Zenon, HeldShrinks
<1>1. ASSUME NEW t \in Tasks, NEW o \in Objects, Create(t, o) PROVE Sourced(u, new)
  <2>1. PICK i \in Slots :
          table' = [table EXCEPT ![t] = Put(@, i, [object |-> o, rights |-> BirthRights(o)])]
    BY Zenon, <1>1 DEF Create
  <2>2. new = [object |-> o, rights |-> BirthRights(o)]
    <3>1. call' = call
      BY Zenon, <1>1 DEF Create
    <3>2. Held(table'[u]) \subseteq Held(table[u]) \cup {[object |-> o, rights |-> BirthRights(o)]}
      <4>1. CASE u = t
        <5>1. table'[u] = Put(table[u], i, [object |-> o, rights |-> BirthRights(o)])
          BY Zenon, <1>0, <2>1, <4>1
        <5>2. table[u] \in CapTables
          BY Zenon, <1>0
        <5> QED BY <5>1, <5>2, HeldLemma
      <4>2. CASE u # t
        BY Zenon, <1>0, <2>1, <4>2
      <4> QED BY Zenon, <4>1, <4>2
    <3> QED BY Zenon, <3>1, <3>2 DEF Authority
  <2> QED BY Zenon, <1>1, <2>2 DEF Create, Sourced
<1>2. ASSUME NEW t \in Tasks, NEW i \in Slots, CapDrop(t, i) PROVE Sourced(u, new)
  BY Zenon, <1>0, <1>a, <1>2, HeldLemma DEF CapDrop
<1>3. ASSUME NEW t \in Tasks, NEW i \in Slots, Send(t, i) PROVE Sourced(u, new)
  <2>1. Authority(u)' \subseteq Authority(u)
    BY Zenon, <1>0, <1>3 DEF Send, Authority
  <2> QED BY Zenon, <2>1
<1>4. ASSUME NEW t \in Tasks, NEW i \in Slots, Recv(t, i) PROVE Sourced(u, new)
  BY Zenon, <1>0, <1>a, <1>4 DEF Recv
<1>5. ASSUME NEW t \in Tasks, NEW es \in Slots, NEW cs \in Slots, NEW mask \in Masks,
             SendCap(t, es, cs, mask)
      PROVE  Sourced(u, new)
  <2>1. u = t /\ new = Derive(table[t], cs, mask)
    BY Zenon, <1>0, <1>5 DEF SendCap, Authority
  <2> QED BY Zenon, <1>5, <2>1, DerivedIsSourced DEF SendCap, Sourced
<1>6. ASSUME NEW t \in Tasks, Deliver(t) PROVE Sourced(u, new)
  BY Zenon, <1>0, <1>a, <1>6 DEF Deliver, Idle
<1>7. ASSUME NEW t \in Tasks, TakeMessage(t) PROVE Sourced(u, new)
  <2> DEFINE cap == Head(queue[call[t].ep])
  <2>1. call[t].ep \in Endpoints
    BY Zenon, <1>7, CallLemma DEF TakeMessage
  <2>2. cap \in Range(queue[call[t].ep])
    <3>1. queue[call[t].ep] \in Seq(Capability \cup {Empty}) /\ queue[call[t].ep] # <<>>
      BY Zenon, <1>7, <2>1 DEF TakeMessage, TypeOK
    <3> QED BY <3>1 DEF Range
  <2>3. cap \in InTransit
    BY Zenon, <2>1, <2>2 DEF InTransit
  <2>4. call'[u] = call[u] \/ call'[u].op = "recvd"
    <3> HIDE DEF cap
    <3>1. \E slot : call' = [call EXCEPT ![t] = [op |-> "recvd", cap |-> cap, slot |-> slot]]
      BY Zenon, <1>7 DEF TakeMessage, cap
    <3>2. PICK slot : call' = [call EXCEPT ![t] = [op |-> "recvd", cap |-> cap, slot |-> slot]]
      BY Zenon, <3>1
    <3>3. [op |-> "recvd", cap |-> cap, slot |-> slot].op = "recvd"
      BY Zenon
    <3> QED BY Zenon, <1>0, <3>2, <3>3
  <2>5. Held(table'[u]) \subseteq Held(table[u]) \cup {cap}
    <3>1. CASE UNCHANGED table
      BY Zenon, <3>1
    <3>2. CASE \E i \in Slots : table' = [table EXCEPT ![t] = Put(@, i, cap)]
      <4>1. PICK i \in Slots : table' = [table EXCEPT ![t] = Put(@, i, cap)]
        BY Zenon, <3>2
      <4> QED BY <1>0, <4>1, HeldLemma
    <3> QED BY Zenon, <1>7, <3>1, <3>2 DEF TakeMessage
  <2>6. new = cap
    <3> HIDE DEF cap
    <3> QED BY Zenon, <2>4, <2>5 DEF Authority
  <2> QED BY Zenon, <2>3, <2>6 DEF Sourced
<1>8. ASSUME NEW t \in Tasks, Return(t) PROVE Sourced(u, new)
  BY Zenon, <1>0, <1>a, <1>8 DEF Return, Idle
<1>9. ASSUME NEW t \in Tasks, NEW v \in Tasks, CapRevoke(t, v) PROVE Sourced(u, new)
  BY Zenon, <1>0, <1>a, <1>9 DEF CapRevoke
<1>10. ASSUME NEW t \in Tasks, NEW i \in Slots, RevokeCap(t, i) PROVE Sourced(u, new)
  <2>1. call[t].victim \in Tasks
    BY Zenon, <1>10, CallLemma DEF RevokeCap
  <2>2. Held(table'[u]) \subseteq Held(table[u])
    BY Zenon, <1>0, <1>10, <2>1, HeldLemma DEF RevokeCap
  <2> QED BY Zenon, <1>0, <1>a, <1>10, <2>2 DEF RevokeCap, Idle
<1>11. ASSUME NEW t \in Tasks, NEW ctl \in Slots, NEW mem \in Slots, NEW wanted \in Wanted,
              SpawnDesc(t, ctl, mem, wanted)
       PROVE  Sourced(u, new)
  <2> DEFINE grants == [k \in 1 .. Len(wanted) |->
                          Derive(table[t], wanted[k].slot, wanted[k].mask)]
  <2>1. table' = table /\ call' = [call EXCEPT ![t] = [op |-> "spawn", grants |-> grants]]
    BY Zenon, <1>11 DEF SpawnDesc
  <2>2. u = t /\ new \in Range(grants)
    <3> HIDE DEF grants
    <3> QED BY Zenon, <1>0, <2>1 DEF Authority
  <2>3. PICK k \in 1 .. Len(wanted) : new = Derive(table[t], wanted[k].slot, wanted[k].mask)
    BY Zenon, <2>2 DEF Range
  <2>4. wanted \in Seq([slot : Slots, mask : Masks])
    BY Zenon, WantedLemma
  <2>5. wanted[k] \in [slot : Slots, mask : Masks]
    BY Zenon, <2>4, SeqLemma
  <2>6. Derivable(table[t], wanted[k].slot)
    BY Zenon, <1>11 DEF SpawnDesc
  <2> QED BY Zenon, <2>2, <2>3, <2>5, <2>6, DerivedIsSourced DEF Sourced
<1>12. ASSUME NEW t \in Tasks, NEW child \in Tasks, Publish(t, child) PROVE Sourced(u, new)
  <2>1. call[t].grants \in Seq(Capability) /\ call[t].op = "spawn"
    BY Zenon, <1>12, CallLemma DEF Publish
  <2>2. Held(table'[u]) \subseteq Held(table[u]) \cup Range(call[t].grants)
    BY Zenon, <1>0, <1>12, <2>1, HeldOfGrants DEF Publish
  <2>3. call'[u] = call[u] \/ call'[u].op = "receipt"
    BY Zenon, <1>0, <1>12 DEF Publish
  <2>4. new \in Range(call[t].grants)
    BY Zenon, <2>2, <2>3 DEF Authority
  <2>5. new \in InTransit
    BY Zenon, <2>1, <2>4 DEF InTransit
  <2> QED BY Zenon, <2>5 DEF Sourced
<1>13. ASSUME NEW t \in Tasks, WriteReceipt(t) PROVE Sourced(u, new)
  BY Zenon, <1>0, <1>a, <1>13 DEF WriteReceipt
<1>14. ASSUME NEW t \in Tasks, NEW how \in {"finished", "crashed"}, Exit(t, how)
       PROVE  Sourced(u, new)
  BY Zenon, <1>a, <1>14 DEF Exit
<1>15. ASSUME NEW t \in Tasks, Reap(t) PROVE Sourced(u, new)
  <2>1. Held(NewTable) = {}
    BY Zenon DEF Held, LiveSlots, NewTable
  <2>2. Held(table'[u]) \subseteq Held(table[u])
    BY Zenon, <1>0, <1>15, <2>1 DEF Reap
  <2> QED BY Zenon, <1>a, <1>15, <2>2 DEF Reap
<1>16. ASSUME NEW t \in Tasks, NEW v \in Tasks, Restart(t, v) PROVE Sourced(u, new)
  <2>1. spec[t] \in Seq(Capability)
    BY Zenon DEF TypeOK
  <2>2. Held(table'[u]) \subseteq Held(table[u]) \cup Range(spec[t])
    BY Zenon, <1>0, <1>16, <2>1, HeldOfGrants DEF Restart
  <2>3. new \in Range(spec[t])
    BY Zenon, <1>16, <2>2 DEF Restart, Authority
  <2>4. new \in InTransit
    BY Zenon, <2>3 DEF InTransit
  <2> QED BY Zenon, <2>4 DEF Sourced
<1>17. CASE UNCHANGED vars
  BY Zenon, <1>a, <1>17 DEF vars
<1> QED
  BY Zenon, <1>1, <1>2, <1>3, <1>4, <1>5, <1>6, <1>7, <1>8, <1>9, <1>10, <1>11, <1>12, <1>13,
     <1>14, <1>15, <1>16, <1>17
  DEF Next, TaskStep, Supervise

\* Authority over an existing object reaches a task only as a copy made with
\* GRANT, with no more rights, by way of a message, a spawn or a restart
\* (obj/mod.rs CapTable::derive, syscall/mod.rs), for any tasks and objects.
THEOREM AuthorityIsGranted == Spec => AuthorityNeedsGrant
<1>1. Init => IInv
  BY Zenon, InitInv
<1>2. IInv /\ [Next]_vars => IInv'
  BY Zenon, StepInv
<1>3. IInv /\ [Next]_vars =>
        [\A t \in Tasks : \A new \in Authority(t)' \ Authority(t) :
           new.object \in made =>
             \/ \E old \in Held(table[t]) :
                  /\ old.object = new.object
                  /\ new.rights \subseteq old.rights
                  /\ "GRANT" \in old.rights
             \/ new \in InTransit]_vars
  BY Zenon, GrantStep DEF Sourced, FromGrant
<1> QED BY <1>1, <1>2, <1>3, PTL DEF Spec, AuthorityNeedsGrant
=============================================================================
