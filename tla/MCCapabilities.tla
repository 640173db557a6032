--------------------------- MODULE MCCapabilities ---------------------------
(***************************************************************************)
(* The boot services a run starts from, the masks its callers pass and the  *)
(* rights its objects need.                                                 *)
(***************************************************************************)
EXTENDS Capabilities, TLC

CONSTANTS a, b,              \* tasks
          ep1, mem, note, ctl \* objects

MCRights == {"SEND", "RECV", "GRANT", "MAP_READ", "MAP_WRITE", "SIGNAL", "WAIT", "SPAWN"}

\* A mask that drops MAP_WRITE and RECV, so that a copy is less than the original.
MCMasks == {MCRights \ {"MAP_WRITE", "RECV"}}

Cap(o, rights) == [object |-> o, rights |-> rights]

\* A spawner in the place of the fs service, with an endpoint to receive on.
\* What it spawns can send to it, and can be given nothing but the endpoint.
MCBoot ==
    a :> <<Cap(ctl, {"SPAWN"}), Cap(mem, {"MAP_READ", "MAP_WRITE"}),
           Cap(ep1, {"SEND", "RECV", "GRANT"})>>

\* TableOf is what inserting the grants one by one into a fresh table leaves.
ASSUME TableOfInserts ==
    \A grants \in UNION {[1 .. n -> {Cap(ctl, {}), Cap(mem, {})}] : n \in 0 .. MAX_SLOTS} :
        LET built[k \in 0 .. Len(grants)] ==
              IF k = 0 THEN NewTable
              ELSE Put(built[k - 1], CHOOSE i \in Slots : InsertsAt(built[k - 1], i), grants[k])
        IN  built[Len(grants)] = TableOf(grants)
=============================================================================
