------------------------------- MODULE Mailbox -------------------------------
(***************************************************************************)
(* What an endpoint promises its users (kernel/src/ipc/mod.rs): a message    *)
(* that send() accepts is received exactly once, and one receiver gets the   *)
(* messages it receives in the order they were accepted.  How messages wait  *)
(* and who is woken is left open.                                             *)
(***************************************************************************)
EXTENDS Integers

CONSTANTS Receivers

VARIABLES accepted,  \* number of messages accepted so far; each is its number
          box,       \* accepted and not yet received
          last       \* the newest message each receiver has got

mvars == <<accepted, box, last>>

MInit ==
    /\ accepted = 0
    /\ box = {}
    /\ last = [r \in Receivers |-> 0]

Accept ==
    /\ accepted' = accepted + 1
    /\ box' = box \cup {accepted'}
    /\ UNCHANGED last

Receive(r) ==
    /\ \E m \in box :
         /\ m > last[r]
         /\ box' = box \ {m}
         /\ last' = [last EXCEPT ![r] = m]
    /\ UNCHANGED accepted

MNext == Accept \/ \E r \in Receivers : Receive(r)

MSpec == MInit /\ [][MNext]_mvars
=============================================================================
