---------------------------- MODULE Capabilities ----------------------------
(***************************************************************************)
(* How authority moves: the capability system calls of kernel/src/syscall/  *)
(* mod.rs over the tables of CapTable, the endpoint queues that carry        *)
(* capabilities in flight, and the grants the supervisor keeps for a         *)
(* restart (kernel/src/service/mod.rs).                                      *)
(*                                                                         *)
(* A system call takes the task-table lock once per table access, so a call *)
(* that reads a table and acts later is two actions here: `call[t]' holds   *)
(* what the call has cloned out of the table in between.  A message is the   *)
(* capability it carries (Empty for none); its words are left out.           *)
(***************************************************************************)
EXTENDS CapTable, Sequences, Functions

CONSTANTS Tasks,         \* task ids, never reused (next_id only grows)
          Endpoints,     \* the objects that are endpoints
          Memories,      \* the objects that are memory objects
          Notifies,      \* the objects that are notifications
          Control,       \* the kernel control object
          Masks,         \* the rights masks callers pass
          Boot,          \* grants of the services that run from boot
          QUEUE_LIMIT,   \* 64 in the code
          MAX_SPAWN_GRANTS

\* u64::MAX in the code; here any number that is not a slot.
NO_CAP == -1

\* The rights an object's first capability carries.
BirthRights(o) ==
    CASE o \in Endpoints -> {"SEND", "RECV", "GRANT"}
      [] o \in Memories  -> {"MAP_READ", "MAP_WRITE", "GRANT"}
      [] o \in Notifies  -> {"SIGNAL", "WAIT", "GRANT"}
      [] OTHER           -> {"SPAWN", "GRANT"}

ASSUME ObjectsAssumption ==
    /\ Objects = Endpoints \cup Memories \cup Notifies \cup {Control}
    /\ \A o \in Objects : BirthRights(o) \subseteq Rights
    /\ Masks \subseteq SUBSET Rights
    /\ MAX_SPAWN_GRANTS \in Nat

ASSUME BootAssumption ==
    /\ DOMAIN Boot \subseteq Tasks
    /\ \A t \in DOMAIN Boot :
         /\ Boot[t] \in Seq(Capability)
         /\ \A k \in 1 .. Len(Boot[t]) :
              Boot[t][k].rights \subseteq BirthRights(Boot[t][k].object)

VARIABLES table,   \* each task's capability table
          life,    \* where a task is between birth and the supervisor
          made,    \* the objects that exist
          queue,   \* messages waiting in each endpoint
          call,    \* the system call each task is inside, with what it holds
          spec     \* the grants kept for restarting each task's service

vars == <<table, life, made, queue, call, spec>>

Lives == {"unborn", "live", "finished", "crashed", "restarting", "gone"}

Idle == [op |-> "idle"]
SendCalls == [op : {"send"}, ep : Endpoints, cap : Capability \cup {Empty}]
RecvCalls == [op : {"recv"}, ep : Endpoints]
RecvdCalls == [op : {"recvd"}, cap : Capability \cup {Empty}, slot : Slots \cup {NO_CAP}]
RevokeCalls == [op : {"revoke"}, victim : Tasks]
SpawnCalls == [op : {"spawn"}, grants : Seq(Capability)]
ReceiptCalls == [op : {"receipt"}, child : Tasks, n : Nat]
ReceiptedCalls == [op : {"receipted"}, words : Seq(Slots \cup {NO_CAP})]
Calls == {Idle} \cup SendCalls \cup RecvCalls \cup RecvdCalls \cup RevokeCalls
           \cup SpawnCalls \cup ReceiptCalls \cup ReceiptedCalls

\* The type invariant: what each variable may hold.
TypeOK ==
    /\ table \in [Tasks -> CapTables]
    /\ life \in [Tasks -> Lives]
    /\ made \subseteq Objects
    /\ queue \in [Endpoints -> Seq(Capability \cup {Empty})]
    /\ call \in [Tasks -> Calls]
    /\ spec \in [Tasks -> Seq(Capability)]

\* The table `spawn' builds: the grants inserted one after the other.
TableOf(grants) ==
    [slots |-> [i \in Slots |-> IF i < Len(grants) THEN grants[i + 1] ELSE Empty],
     revoked |-> [i \in Slots |-> FALSE],
     len |-> IF Len(grants) < MAX_SLOTS THEN Len(grants) ELSE MAX_SLOTS]

Init ==
    /\ table = [t \in Tasks |-> IF t \in DOMAIN Boot THEN TableOf(Boot[t]) ELSE NewTable]
    /\ life = [t \in Tasks |-> IF t \in DOMAIN Boot THEN "live" ELSE "unborn"]
    /\ made = {o \in Objects : \E t \in DOMAIN Boot : \E k \in 1 .. Len(Boot[t]) :
                                   Boot[t][k].object = o}
    /\ queue = [e \in Endpoints |-> <<>>]
    /\ call = [t \in Tasks |-> Idle]
    /\ spec = [t \in Tasks |-> IF t \in DOMAIN Boot THEN Boot[t] ELSE <<>>]

InUserMode(t) == life[t] = "live" /\ call[t] = Idle

LooksUp(t, i, rights, kind) ==
    Lookup(table[t], i, rights) /\ Get(table[t], i).object \in kind
-----------------------------------------------------------------------------
(* Creating, dropping, sending and receiving.                               *)

\* ep_create, mem_create, notify_create.  On a full table the new object is
\* dropped with the capability that failed to go in.
Create(t, o) ==
    /\ InUserMode(t)
    /\ o \in Objects \ (made \cup {Control})
    /\ \E i \in Slots :
         /\ InsertsAt(table[t], i)
         /\ table' = [table EXCEPT ![t] =
                        Put(@, i, [object |-> o, rights |-> BirthRights(o)])]
    /\ made' = made \cup {o}
    /\ UNCHANGED <<life, queue, call, spec>>

CapDrop(t, i) ==
    /\ InUserMode(t)
    /\ Get(table[t], i) # Empty
    /\ table' = [table EXCEPT ![t] = Remove(@, i)]
    /\ UNCHANGED <<life, made, queue, call, spec>>

Send(t, es) ==
    /\ InUserMode(t)
    /\ LooksUp(t, es, {"SEND"}, Endpoints)
    /\ call' = [call EXCEPT ![t] =
                  [op |-> "send", ep |-> Get(table[t], es).object, cap |-> Empty]]
    /\ UNCHANGED <<table, life, made, queue, spec>>

SendCap(t, es, cs, mask) ==
    /\ InUserMode(t)
    /\ LooksUp(t, es, {"SEND"}, Endpoints)
    /\ Derivable(table[t], cs)
    /\ call' = [call EXCEPT ![t] =
                  [op |-> "send", ep |-> Get(table[t], es).object,
                   cap |-> Derive(table[t], cs, mask)]]
    /\ UNCHANGED <<table, life, made, queue, spec>>

\* The second half of both sends; a full queue refuses the message (EAGAIN).
Deliver(t) ==
    /\ call[t].op = "send"
    /\ queue' = IF Len(queue[call[t].ep]) < QUEUE_LIMIT
                THEN [queue EXCEPT ![call[t].ep] = Append(@, call[t].cap)]
                ELSE queue
    /\ call' = [call EXCEPT ![t] = Idle]
    /\ UNCHANGED <<table, life, made, spec>>

Recv(t, es) ==
    /\ InUserMode(t)
    /\ LooksUp(t, es, {"RECV"}, Endpoints)
    /\ call' = [call EXCEPT ![t] = [op |-> "recv", ep |-> Get(table[t], es).object]]
    /\ UNCHANGED <<table, life, made, queue, spec>>

\* A message arrives: its capability goes into the receiver's table, and word
\* 3 says where.  A full table drops the capability and reports NO_CAP.
TakeMessage(t) ==
    /\ call[t].op = "recv"
    /\ queue[call[t].ep] # <<>>
    /\ queue' = [queue EXCEPT ![call[t].ep] = Tail(@)]
    /\ LET cap == Head(queue[call[t].ep])
           Report(slot) ==
             call' = [call EXCEPT ![t] = [op |-> "recvd", cap |-> cap, slot |-> slot]]
       IN  \/ /\ cap = Empty
              /\ Report(NO_CAP)
              /\ UNCHANGED table
           \/ /\ cap # Empty
              /\ InsertFails(table[t])
              /\ Report(NO_CAP)
              /\ UNCHANGED table
           \/ /\ cap # Empty
              /\ \E i \in Slots :
                   /\ InsertsAt(table[t], i)
                   /\ table' = [table EXCEPT ![t] = Put(@, i, cap)]
                   /\ Report(i)
    /\ UNCHANGED <<life, made, spec>>

\* The reply words reach the caller and the call is over.
Return(t) ==
    /\ call[t].op \in {"recvd", "receipted"}
    /\ call' = [call EXCEPT ![t] = Idle]
    /\ UNCHANGED <<table, life, made, queue, spec>>
-----------------------------------------------------------------------------
(* Taking authority back.                                                   *)

\* sys_cap_revoke up to the authority check, which comes before the victim is
\* looked up.
CapRevoke(t, victim) ==
    /\ InUserMode(t)
    /\ victim = t \/ HasControl(table[t], Control)
    /\ call' = [call EXCEPT ![t] = [op |-> "revoke", victim |-> victim]]
    /\ UNCHANGED <<table, life, made, queue, spec>>

InTable(t) == life[t] \in {"live", "finished", "crashed"}

\* revoke_cap: EINVAL, and nothing changes, unless the task is in the task
\* table and the slot holds something.
RevokeCap(t, i) ==
    /\ call[t].op = "revoke"
    /\ LET v == call[t].victim
       IN  table' = IF InTable(v) /\ Revocable(table[v], i)
                    THEN [table EXCEPT ![v] = Revoke(@, i)]
                    ELSE table
    /\ call' = [call EXCEPT ![t] = Idle]
    /\ UNCHANGED <<life, made, queue, spec>>
-----------------------------------------------------------------------------
(* Spawning, dying and coming back.                                         *)

\* sys_spawn_desc up to the point where every check has passed: the grants
\* are derived from the caller's table, one lookup each, and start_service
\* finds Control with SPAWN and a readable image.
SpawnDesc(t, ctl, mem, wanted) ==
    /\ InUserMode(t)
    /\ \A k \in 1 .. Len(wanted) : Derivable(table[t], wanted[k].slot)
    /\ LooksUp(t, ctl, {"SPAWN"}, {Control})
    /\ LooksUp(t, mem, {"MAP_READ"}, Memories)
    /\ call' = [call EXCEPT ![t] =
                  [op |-> "spawn",
                   grants |-> [k \in 1 .. Len(wanted) |->
                                 Derive(table[t], wanted[k].slot, wanted[k].mask)]]]
    /\ UNCHANGED <<table, life, made, queue, spec>>

\* spawn_from_image: the grants are kept for restarts, the new task gets them
\* in order and is published.
Publish(t, child) ==
    /\ call[t].op = "spawn"
    /\ life[child] = "unborn"
    /\ spec' = [spec EXCEPT ![child] = call[t].grants]
    /\ table' = [table EXCEPT ![child] = TableOf(call[t].grants)]
    /\ life' = [life EXCEPT ![child] = "live"]
    /\ call' = [call EXCEPT ![t] =
                  [op |-> "receipt", child |-> child, n |-> Len(call[t].grants)]]
    /\ UNCHANGED <<made, queue>>

ReceiptWord(child, k) ==
    IF InTable(child) /\ \E i \in Slots : SlotAt(table[child], k, i)
    THEN CHOOSE i \in Slots : SlotAt(table[child], k, i)
    ELSE NO_CAP

\* write_receipt asks the child's table, which by now is the child's own.
WriteReceipt(t) ==
    /\ call[t].op = "receipt"
    /\ call' = [call EXCEPT ![t] =
                  [op |-> "receipted",
                   words |-> [k \in 1 .. call[t].n |->
                                ReceiptWord(call[t].child, k - 1)]]]
    /\ UNCHANGED <<table, life, made, queue, spec>>

\* exit(code), or a fault in ring 3, which is exit(-1).
Exit(t, how) ==
    /\ InUserMode(t)
    /\ life' = [life EXCEPT ![t] = how]
    /\ UNCHANGED <<table, made, queue, call, spec>>

\* A bug to catch: the table of a reaped task is left as it was.
ReapKeeping(t) ==
    /\ life[t] \in {"finished", "crashed"}
    /\ life' = [life EXCEPT ![t] = IF life[t] = "crashed" THEN "restarting" ELSE "gone"]
    /\ UNCHANGED <<table, made, queue, call, spec>>

\* take_dead: every capability is revoked and the task leaves the task table.
Reap(t) ==
    /\ life[t] \in {"finished", "crashed"}
    /\ table' = [table EXCEPT ![t] = NewTable]
    /\ life' = [life EXCEPT ![t] = IF life[t] = "crashed" THEN "restarting" ELSE "gone"]
    /\ UNCHANGED <<made, queue, call, spec>>

\* The supervisor brings a crashed service back as a new task.
Restart(t, u) ==
    /\ life[t] = "restarting"
    /\ life[u] = "unborn"
    /\ life' = [life EXCEPT ![t] = "gone", ![u] = "live"]
    /\ table' = [table EXCEPT ![u] = TableOf(spec[t])]
    /\ spec' = [spec EXCEPT ![u] = spec[t]]
    /\ UNCHANGED <<made, queue, call>>

Wanted == UNION {[1 .. n -> [slot : Slots, mask : Masks]] : n \in 0 .. MAX_SPAWN_GRANTS}

TaskStep(t) ==
    \/ \E o \in Objects : Create(t, o)
    \/ \E i \in Slots : CapDrop(t, i) \/ Send(t, i) \/ Recv(t, i) \/ RevokeCap(t, i)
    \/ \E es, cs \in Slots, mask \in Masks : SendCap(t, es, cs, mask)
    \/ Deliver(t) \/ TakeMessage(t) \/ Return(t) \/ WriteReceipt(t)
    \/ \E v \in Tasks : CapRevoke(t, v) \/ Publish(t, v)
    \/ \E ctl, mem \in Slots, wanted \in Wanted : SpawnDesc(t, ctl, mem, wanted)
    \/ \E how \in {"finished", "crashed"} : Exit(t, how)

Supervise == \E t \in Tasks : Reap(t) \/ \E u \in Tasks : Restart(t, u)

Next == (\E t \in Tasks : TaskStep(t)) \/ Supervise

Spec == Init /\ [][Next]_vars
-----------------------------------------------------------------------------
(* Properties.                                                              *)

\* A table is a prefix of used slots, and a tombstone lies inside it and holds
\* nothing (obj/mod.rs: insert pushes both vectors, revoke takes the slot).
TableShape ==
    \A t \in Tasks, i \in Slots :
        /\ table[t].slots[i] # Empty => i < table[t].len
        /\ table[t].revoked[i] => i < table[t].len /\ table[t].slots[i] = Empty

\* A slot number keeps its meaning (CapTable::insert, revoke, remove): while a
\* task is in the task table, a slot that names a capability names the same
\* one or nothing after any step of any task, and a tombstone stays an empty
\* tombstone for good.
SlotKeepsMeaning(t, i) ==
    /\ Get(table[t], i) # Empty => Get(table'[t], i) \in {Get(table[t], i), Empty}
    /\ table[t].revoked[i] => table'[t].revoked[i] /\ Get(table'[t], i) = Empty

SlotsKeepTheirMeaning ==
    [][\A t \in Tasks, i \in Slots :
         life[t] = "live" /\ life'[t] = "live" => SlotKeepsMeaning(t, i)]_vars

\* Copies that are in nobody's table: in a message, cloned by a call under
\* way, or kept by the supervisor for a restart.
InTransit ==
    (UNION {Range(queue[e]) : e \in Endpoints})
      \cup (UNION {Range(spec[t]) : t \in Tasks})
      \cup {call[t].cap : t \in {u \in Tasks : call[u].op = "send"}}
      \cup (UNION {Range(call[t].grants) : t \in {u \in Tasks : call[u].op = "spawn"}})

Everywhere == (UNION {Held(table[t]) : t \in Tasks}) \cup InTransit

\* No operation adds a right (CapTable::derive intersects): whatever chain of
\* sends, spawns and restarts a capability came through, it carries no right
\* its object was not created with.
NoAmplification ==
    \A cap \in Everywhere \ {Empty} : cap.rights \subseteq BirthRights(cap.object)

\* The capabilities a task can act with: those in its table and those a call
\* of its has already cloned.
Authority(t) ==
    Held(table[t])
      \cup (IF call[t].op = "send" THEN {call[t].cap} \ {Empty} ELSE {})
      \cup (IF call[t].op = "spawn" THEN Range(call[t].grants) ELSE {})

\* Authority over an object spreads only through GRANT (obj/mod.rs:6): a
\* capability a task did not have on an existing object is either a copy, with
\* no more rights, of one the task holds with GRANT, or was on its way in a
\* message, a call or the supervisor's record, where the first case put it.
AuthorityNeedsGrant ==
    [][\A t \in Tasks : \A new \in Authority(t)' \ Authority(t) :
         new.object \in made =>
           \/ \E old \in Held(table[t]) :
                /\ old.object = new.object
                /\ new.rights \subseteq old.rights
                /\ "GRANT" \in old.rights
           \/ new \in InTransit]_vars

\* Tearing a task down strips it (take_dead): a task that has left the task
\* table holds nothing.
DeadHoldNothing ==
    \A t \in Tasks : life[t] \in {"restarting", "gone"} => Held(table[t]) = {}
=============================================================================
