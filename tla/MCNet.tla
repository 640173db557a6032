-------------------------------- MODULE MCNet -------------------------------
(***************************************************************************)
(* Sequence numbers that wrap on both sides of a connection, a ring of one     *)
(* unit, and: a client that sends through a slow device; a host that sends     *)
(* more than the ring holds; both; a second connection; a send after one that  *)
(* timed out; and segments that overtake each other on the way out, and on the *)
(* way in.                                                                    *)
(***************************************************************************)
EXTENDS Net

Load(client, hosts, conns, slow, out, in) ==
    [client |-> client, host |-> hosts, conns |-> conns, slow |-> slow, out |-> out, in |-> in]
MCLoads == {Load(2, 0, 1, 1, 1, 1), Load(0, 2, 1, 0, 1, 1), Load(2, 1, 1, 0, 1, 1),
            Load(0, 1, 2, 0, 1, 1), Load(3, 0, 1, 0, 1, 1), Load(2, 0, 1, 0, 2, 1),
            Load(0, 1, 1, 0, 1, 2)}
=============================================================================
