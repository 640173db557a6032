-------------------------------- MODULE Tcp ---------------------------------
(***************************************************************************)
(* The TCP client of the network service (user/svc/net/src/tcp.rs): one        *)
(* connection as a record of its fields, and what a segment does to it.        *)
(* Sequence numbers are taken modulo SEQ, as the code's are modulo 2^32; a      *)
(* segment's data is a sequence of units.                                     *)
(***************************************************************************)
EXTENDS Integers, Sequences, FiniteSets

CONSTANTS SEQ,  \* sequence numbers, an even number of them
          RX,   \* units the receive ring holds
          MSS   \* units in a segment

\* The values wrap.
Plus(a, n) == (a + n) % SEQ

\* geq: a is at or after b.
Geq(a, b) == (a - b) % SEQ < SEQ \div 2

Least(a, b) == IF a < b THEN a ELSE b

NewTcp == [state |-> "Closed", lport |-> 0, snd_una |-> 0, snd_nxt |-> 0, rcv_nxt |-> 0,
           rx |-> <<>>, fin |-> FALSE]

\* connect, up to its first segment.
Connecting(t, iss) ==
    [state |-> "SynSent", lport |-> t.lport + 1, snd_una |-> iss, snd_nxt |-> Plus(iss, 1),
     rcv_nxt |-> 0, rx |-> <<>>, fin |-> FALSE]

\* segment.
Segment(t, flags, seq, data) ==
    [kind |-> "tcp", port |-> t.lport, flags |-> flags, seq |-> seq, ack |-> t.rcv_nxt, data |-> data]
AckOf(t) == Segment(t, {"ACK"}, t.snd_nxt, <<>>)

\* on_segment, established: an acknowledgement that is new and not of the
\* future, data that is next as far as the ring has room, a FIN that is next.
AckTaken(t, s) ==
    IF "ACK" \in s.flags /\ Geq(s.ack, t.snd_una) /\ Geq(t.snd_nxt, s.ack)
    THEN [t EXCEPT !.snd_una = s.ack] ELSE t

\* A bug to catch: whatever follows is taken for what is next.
DataTakenAhead(t, s) ==
    LET n == Least(Len(s.data), RX - Len(t.rx))
    IN  IF ~Geq(s.seq, t.rcv_nxt) THEN t
        ELSE [t EXCEPT !.rx = @ \o SubSeq(s.data, 1, n), !.rcv_nxt = Plus(@, n)]

DataTaken(t, s) ==
    LET n == Least(Len(s.data), RX - Len(t.rx))
    IN  IF s.seq # t.rcv_nxt THEN t
        ELSE [t EXCEPT !.rx = @ \o SubSeq(s.data, 1, n), !.rcv_nxt = Plus(@, n)]

FinIsNext(t, s) ==
    /\ "FIN" \in s.flags /\ ~t.fin
    /\ Plus(s.seq, Len(s.data)) = t.rcv_nxt

FinTaken(t, s) ==
    IF FinIsNext(t, s) THEN [t EXCEPT !.rcv_nxt = Plus(@, 1), !.fin = TRUE] ELSE t

SynAcked(t, s) == {"SYN", "ACK"} \subseteq s.flags /\ s.ack = t.snd_nxt

OnSegment(t, s) ==
    IF "RST" \in s.flags THEN [t EXCEPT !.state = "Reset"]
    ELSE IF t.state = "SynSent" /\ SynAcked(t, s)
    THEN [t EXCEPT !.rcv_nxt = Plus(s.seq, 1), !.snd_una = s.ack, !.state = "Established"]
    ELSE IF t.state = "Established" THEN FinTaken(DataTaken(AckTaken(t, s), s), s)
    ELSE t

\* The segment wants an acknowledgement.
NeedsAck(t, s) ==
    /\ "RST" \notin s.flags
    /\ \/ t.state = "SynSent" /\ SynAcked(t, s)
       \/ t.state = "Established" /\ (s.data # <<>> \/ FinIsNext(DataTaken(t, s), s))
=============================================================================
