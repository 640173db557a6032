------------------------------ MODULE CapTable ------------------------------
(***************************************************************************)
(* A task's capability table (kernel/src/obj/mod.rs, CapTable): a vector    *)
(* of optional capabilities beside a vector of tombstone flags.  Slots are  *)
(* numbered from zero.  `len' is slots.len(), which only ever grows; the    *)
(* entries at and above it are not part of the vector yet.                  *)
(*                                                                         *)
(* The operations the code writes as a search are predicates on the slot    *)
(* the search finds, so that one definition serves a model-checking run     *)
(* and a proof.                                                             *)
(***************************************************************************)
EXTENDS Integers, FiniteSets

CONSTANTS MAX_SLOTS,   \* 256 in the code
          Objects,     \* kernel objects
          Rights,      \* the bits of a rights mask
          Empty        \* the None of an Option<Capability>

ASSUME MaxSlotsAssumption == MAX_SLOTS \in Nat \ {0}
ASSUME GrantAssumption == "GRANT" \in Rights

Slots == 0 .. MAX_SLOTS - 1

Capability == [object : Objects, rights : SUBSET Rights]

ASSUME EmptyAssumption == Empty \notin Capability

CapTables == [slots : [Slots -> Capability \cup {Empty}],
              revoked : [Slots -> BOOLEAN],
              len : 0 .. MAX_SLOTS]

NewTable == [slots |-> [i \in Slots |-> Empty],
             revoked |-> [i \in Slots |-> FALSE],
             len |-> 0]

Get(tab, i) == tab.slots[i]

Lookup(tab, i, rights) ==
    /\ Get(tab, i) # Empty
    /\ rights \subseteq Get(tab, i).rights

\* A bug to catch: any capability can be passed on, GRANT or not.
DerivableAny(tab, i) == Get(tab, i) # Empty

Derivable(tab, i) == Lookup(tab, i, {"GRANT"})

\* A bug to catch: the caller's mask replaces the rights.
DeriveUnmasked(tab, i, mask) == [object |-> Get(tab, i).object, rights |-> mask]

Derive(tab, i, mask) ==
    [object |-> Get(tab, i).object, rights |-> Get(tab, i).rights \cap mask]

Usable(tab, i) == i < tab.len /\ tab.slots[i] = Empty /\ ~tab.revoked[i]

\* first_usable() returns slot i.
FirstUsable(tab, i) ==
    Usable(tab, i) /\ \A j \in Slots : j < i => ~Usable(tab, j)

NoUsable(tab) == \A i \in Slots : ~Usable(tab, i)

\* A bug to catch: the search for a free slot that forgets the tombstones.
InsertsAtTombstone(tab, i) ==
    \/ /\ i < tab.len
       /\ tab.slots[i] = Empty
       /\ \A j \in Slots : j < i => tab.slots[j] # Empty
    \/ /\ \A j \in Slots : j < tab.len => tab.slots[j] # Empty
       /\ tab.len < MAX_SLOTS
       /\ i = tab.len

\* insert() returns slot i: the first usable one, else one more at the end.
InsertsAt(tab, i) ==
    \/ FirstUsable(tab, i)
    \/ NoUsable(tab) /\ tab.len < MAX_SLOTS /\ i = tab.len

\* insert() returns None and the capability is dropped.
InsertFails(tab) == NoUsable(tab) /\ tab.len >= MAX_SLOTS

\* What insert() leaves behind once it has settled on slot i.
Put(tab, i, cap) ==
    [slots |-> [tab.slots EXCEPT ![i] = cap],
     revoked |-> tab.revoked,
     len |-> IF i < tab.len THEN tab.len ELSE tab.len + 1]

\* revoke() takes the capability and leaves a tombstone; on an empty or a
\* revoked slot it does nothing and reports None.
Revocable(tab, i) == ~tab.revoked[i] /\ tab.slots[i] # Empty

Revoke(tab, i) ==
    [slots |-> [tab.slots EXCEPT ![i] = Empty],
     revoked |-> [tab.revoked EXCEPT ![i] = TRUE],
     len |-> tab.len]

\* remove() gives the slot up and leaves the number free for reuse.
Remove(tab, i) ==
    [slots |-> [tab.slots EXCEPT ![i] = Empty],
     revoked |-> tab.revoked,
     len |-> tab.len]

LiveSlots(tab) == {i \in Slots : tab.slots[i] # Empty}

HasControl(tab, control) == \E i \in LiveSlots(tab) : Get(tab, i).object = control

\* slot_at(n) returns i: i holds the nth capability, counting from zero.
SlotAt(tab, n, i) ==
    /\ i \in LiveSlots(tab)
    /\ Cardinality({j \in LiveSlots(tab) : j < i}) = n

\* Every capability a table holds.
Held(tab) == {Get(tab, i) : i \in LiveSlots(tab)}
=============================================================================
