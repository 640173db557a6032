-------------------------------- MODULE Net ---------------------------------
(***************************************************************************)
(* The network service (user/svc/net) between its one client                  *)
(* (user/libc-sys) and a network that loses, delays and reorders frames.  The  *)
(* service is one task that polls: `net` is what it waits for.  It gets an     *)
(* address (dhcp.rs), finds and pings the gateway (stack.rs), then serves      *)
(* requests (main.rs), each from start to finish, over TCP (Tcp.tla) or DNS    *)
(* (dns.rs).  `nic` is the virtio device (virtio.rs).  `host` stands for all   *)
(* other machines.  A timeout may come at any time: a frame that is late is    *)
(* one that comes after it.                                                   *)
(***************************************************************************)
EXTENDS Tcp

CONSTANTS Ips, Names,   \* addresses the DHCP server leases; names to resolve
          Iss,          \* first sequence numbers connect may choose
          HOST_ISS,     \* and the host's
          Loads,        \* the bounds of a behaviour
          Sizes,        \* units of a send or a recv
          TRIES,        \* attempts of each kind
          None

VARIABLES load,      \* one of Loads: units the client and the host send, connections,
                     \* frames on their way in and out, times the device is slow
          net, tcp, nic,
          up,        \* frames on their way to other machines
          host, link,
          cl, requests, replies,
          sent,      \* units send gave sequence numbers to, on this connection
          taken      \* units recv has handed out, on this connection

worldVars == <<load, host, link, cl, requests, replies, sent, taken>>
vars == <<net, tcp, nic, up, worldVars>>

\* A frame, by what it is for; and those that carry something.
Kind(k) == [kind |-> k]
Request(ip) == [kind |-> "request", ip |-> ip]
Question(name) == [kind |-> "ask", name |-> name]
NewNic == [rx |-> {}, buf |-> None, avail |-> 0, used |-> 0, slow |-> 0]
NoReq == [op |-> "none"]
At(where) == [at |-> where, why |-> "boot", try |-> 1, req |-> NoReq, left |-> 0, chunk |-> <<>>,
              end |-> 0, ip |-> None]
NewHost == [port |-> 0, st |-> "none", rcv |-> 0, got |-> <<>>, acked |-> {}]

Init ==
    /\ load \in Loads
    /\ net = At("down") /\ tcp = NewTcp /\ nic = NewNic /\ up = {}
    /\ host = NewHost /\ link = [buf |-> FALSE, reply |-> FALSE]
    /\ cl = [at |-> "new", req |-> NoReq] /\ requests = <<>> /\ replies = <<>>
    /\ sent = <<>> /\ taken = <<>>
-----------------------------------------------------------------------------
(* the device                                                               *)

OnWire(f) == up' = up \/ (Cardinality(up) < load.out /\ up' = up \cup {f})

\* With nothing for the device to take, what the buffer holds is of no account.
Emptied(n) == IF n.avail = 0 THEN [n EXCEPT !.buf = None] ELSE n

\* Queue::post on the transmit queue, and Queue::pop of a used entry.
Posted(n, f) == [n EXCEPT !.buf = f, !.avail = @ + 1]
UsedPopped(n) == [n EXCEPT !.used = @ - 1]

\* Nic::send: every frame goes through buffer 0.  The device takes it, or is too
\* slow and the call gives up; a frame it takes after that leaves a used entry
\* that a later call mistakes for its own.
Transmit(n, f) ==
    \/ n.used > 0 /\ nic' = UsedPopped(Posted(n, f)) /\ UNCHANGED up
    \/ n.used = 0 /\ nic' = Emptied([Posted(n, f) EXCEPT !.avail = @ - 1]) /\ OnWire(f)
    \/ /\ n.used = 0 /\ n.slow < load.slow
       /\ nic' = [Posted(n, f) EXCEPT !.slow = @ + 1] /\ UNCHANGED up

Quiet(n) == nic' = n /\ UNCHANGED up

\* The device takes what a send left behind: what is now in the buffer.
DeviceTakes ==
    /\ nic.avail > 0
    /\ nic' = Emptied([nic EXCEPT !.avail = @ - 1, !.used = @ + 1])
    /\ OnWire(nic.buf)
    /\ UNCHANGED <<net, tcp, worldVars>>

\* Queue::pop and post: a received frame, in whatever order they came.
Popped(f) == [nic EXCEPT !.rx = @ \ {f}]
-----------------------------------------------------------------------------
(* getting an address, finding the gateway, and names                       *)

\* main: the device is reset; dhcp::acquire sends its first DISCOVER.
Start ==
    /\ net.at = "down"
    /\ net' = At("offer")
    /\ Transmit(NewNic, Kind("discover"))
    /\ UNCHANGED <<tcp, worldVars>>

\* A bug to catch: an offer is taken for an acknowledgement.
WantedAny(f) == f.kind \in {"offer", "ack"}

\* dhcp::wait passes over any other frame.
Wanted(f) == f.kind = net.at

\* The address is the one acknowledged.
Dhcp ==
    /\ net.at \in {"offer", "ack"}
    /\ \E f \in nic.rx :
         \/ ~Wanted(f) /\ Quiet(Popped(f)) /\ UNCHANGED net
         \/ /\ Wanted(f) /\ net.at = "offer"
            /\ net' = [net EXCEPT !.at = "ack"]
            /\ Transmit(Popped(f), Request(f.ip))
         \/ /\ Wanted(f) /\ net.at = "ack"
            /\ net' = [At("arp") EXCEPT !.ip = f.ip]
            /\ Transmit(Popped(f), Kind("who"))
    /\ UNCHANGED <<tcp, worldVars>>

\* resolve_gateway: asks again and again, and looks at nothing but the answer.
Arp ==
    /\ net.at = "arp"
    /\ \/ Transmit(nic, Kind("who")) /\ UNCHANGED net
       \/ \E f \in nic.rx :
            IF f.kind = "is"
            THEN net' = [net EXCEPT !.at = "ping"] /\ Transmit(Popped(f), Kind("echo"))
            ELSE Quiet(Popped(f)) /\ UNCHANGED net
    /\ UNCHANGED <<tcp, worldVars>>

\* Stack::poll answers ARP and echo requests by itself.
Polled(f) ==
    IF f.kind = "query" THEN Transmit(Popped(f), Kind("answer"))
    ELSE Quiet(Popped(f))

Ping ==
    /\ net.at = "ping"
    /\ \E f \in nic.rx :
         IF f.kind = "echoed"
         THEN \E n \in Names :
                /\ net' = [At("dns") EXCEPT !.req = [op |-> "resolve", name |-> n]]
                /\ Transmit(Popped(f), Question(n))
         ELSE Polled(f) /\ UNCHANGED net
    /\ UNCHANGED <<tcp, worldVars>>
-----------------------------------------------------------------------------
(* the end of a request                                                     *)

\* reply: to the client, if it has told where.
Reply(status, value) ==
    /\ replies' = IF link.reply THEN Append(replies, [status |-> status, value |-> value]) ELSE replies
    /\ net' = At("serve")

\* dns::resolve returns: the service is up, or the request is answered.  What is
\* still on its way from the start and would only be passed over is dropped.
Resolved(n, status, value) ==
    IF net.why = "request" THEN Reply(status, value) /\ Quiet(n) /\ UNCHANGED host
    ELSE /\ net' = At("serve")
         /\ host' = NewHost
         /\ nic' = [n EXCEPT !.rx = {f \in @ : f.kind = "addr"}]
         /\ up' = {f \in up : f.kind = "ask"}
         /\ UNCHANGED replies

Dns ==
    /\ net.at = "dns"
    /\ \E f \in nic.rx :
         IF f.kind = "addr"
         THEN Resolved(Popped(f), "OK", f.name)
         ELSE Polled(f) /\ UNCHANGED <<net, host, replies>>
    /\ UNCHANGED <<tcp, load, link, cl, requests, sent, taken>>
-----------------------------------------------------------------------------
(* the connection                                                           *)

\* pump: segments of this connection are taken and, where they want it,
\* acknowledged.
Mine(f) == f.kind = "tcp" /\ tcp.state # "Closed" /\ f.port = tcp.lport

Pump ==
    /\ net.at \in {"serve", "wait"}
    /\ \E f \in nic.rx :
         IF Mine(f)
         THEN /\ tcp' = OnSegment(tcp, f)
              /\ IF NeedsAck(tcp, f) THEN Transmit(Popped(f), AckOf(tcp')) ELSE Quiet(Popped(f))
         ELSE Polled(f) /\ UNCHANGED tcp
    /\ UNCHANGED <<net, worldVars>>

Waiting(why, req) == [At("wait") EXCEPT !.why = why, !.req = req]

\* connect: a new port, and SYN.
Connect(r) ==
    /\ \E iss \in Iss :
         /\ tcp' = Connecting(tcp, iss)
         /\ Transmit(nic, Segment(tcp', {"SYN"}, iss, <<>>))
    /\ net' = Waiting("connect", r)
    /\ sent' = <<>> /\ taken' = <<>>
    /\ UNCHANGED replies

\* A bug to catch: the numbers of a chunk are given out only once it is
\* acknowledged.
NumberedLate(n) == tcp.snd_una

\* send: where the numbers of the next chunk begin, and where they end.
Numbered(n) == tcp.snd_nxt

SendChunk(r, left) ==
    IF tcp.state # "Established"
    THEN Reply("ERR", 0) /\ Quiet(nic) /\ UNCHANGED <<tcp, sent>>
    ELSE LET n == Least(left, MSS)
             data == [i \in 1 .. n |-> Len(sent) + i]
             seq == Numbered(n)
         IN  /\ tcp' = [tcp EXCEPT !.snd_nxt = Plus(seq, n)]
             /\ sent' = sent \o data
             /\ net' = [Waiting("send", r) EXCEPT !.left = left - n, !.chunk = data,
                                                     !.end = Plus(seq, n)]
             /\ Transmit(nic, Segment(tcp, {"ACK"}, seq, data))
             /\ UNCHANGED replies

\* close: FIN, if there is a connection.
Close(r) ==
    IF tcp.state # "Established"
    THEN tcp' = [tcp EXCEPT !.state = "Closed"] /\ Reply("OK", 0) /\ Quiet(nic)
    ELSE /\ tcp' = [tcp EXCEPT !.snd_nxt = Plus(@, 1)]
         /\ net' = [Waiting("close", r) EXCEPT !.end = Plus(tcp.snd_nxt, 1)]
         /\ Transmit(nic, Segment(tcp, {"FIN", "ACK"}, tcp.snd_nxt, <<>>))
         /\ UNCHANGED replies

\* What each wait waits for.
WaitOver ==
    \/ net.why = "connect" /\ tcp.state # "SynSent"
    \/ net.why \in {"send", "close"} /\ (tcp.state # "Established" \/ Geq(tcp.snd_una, net.end))
    \/ net.why = "recv" /\ (tcp.rx # <<>> \/ tcp.fin \/ tcp.state # "Established")
    \/ net.why = "closing" /\ (tcp.fin \/ tcp.state # "Established")

ConnectEnds ==
    /\ net.why = "connect"
    /\ IF tcp.state = "Established"
       THEN Reply("OK", 0) /\ UNCHANGED tcp
       ELSE /\ Reply(IF tcp.state = "Reset" THEN "REFUSED" ELSE "TIMEOUT", 0)
            /\ tcp' = [tcp EXCEPT !.state = "Closed"]
    /\ Quiet(nic) /\ UNCHANGED <<sent, taken>>

SendEnds ==
    /\ net.why = "send"
    /\ IF ~Geq(tcp.snd_una, net.end)
       THEN /\ Reply(IF tcp.state = "Reset" THEN "ERR" ELSE "TIMEOUT", 0)
            /\ Quiet(nic) /\ UNCHANGED <<tcp, sent>>
       ELSE IF net.left > 0 THEN SendChunk(net.req, net.left)
       ELSE Reply("OK", net.req.n) /\ Quiet(nic) /\ UNCHANGED <<tcp, sent>>
    /\ UNCHANGED taken

RecvEnds ==
    /\ net.why = "recv"
    /\ LET n == Least(net.req.n, Len(tcp.rx))
       IN  IF ~WaitOver \/ n = 0
           THEN /\ IF ~WaitOver THEN Reply("TIMEOUT", 0)
                   ELSE IF tcp.fin THEN Reply("OK", 0) ELSE Reply("ERR", 0)
                /\ Quiet(nic) /\ UNCHANGED <<tcp, taken>>
           ELSE /\ tcp' = [tcp EXCEPT !.rx = SubSeq(@, n + 1, Len(@))]
                /\ taken' = taken \o SubSeq(tcp.rx, 1, n)
                /\ Transmit(nic, AckOf(tcp))
                /\ Reply("OK", n)
    /\ UNCHANGED sent

CloseEnds ==
    /\ \/ /\ net.why = "close" /\ ~tcp.fin
          /\ net' = [net EXCEPT !.why = "closing"]
          /\ UNCHANGED <<tcp, replies>>
       \/ /\ net.why = "closing" \/ (net.why = "close" /\ tcp.fin)
          /\ tcp' = [tcp EXCEPT !.state = "Closed"]
          /\ Reply("OK", 0)
    /\ Quiet(nic) /\ UNCHANGED <<sent, taken>>

Ends == ConnectEnds \/ SendEnds \/ RecvEnds \/ CloseEnds

\* wait has what it waits for.
WaitDone ==
    /\ net.at = "wait" /\ WaitOver
    /\ Ends
    /\ UNCHANGED <<load, host, link, cl, requests>>
-----------------------------------------------------------------------------
(* timeouts: the next attempt, or the end                                   *)

\* A bug to catch: attempts are not counted.
AgainForever == net

Again == [net EXCEPT !.try = @ + 1]

\* main exits without a lease, a gateway or an echo; the supervisor starts the
\* service again.
GivesUp == net' = At("down") /\ Quiet(nic)

\* dhcp::acquire begins anew, or it is over.
BootExpires ==
    /\ net.at \in {"offer", "ack", "arp", "ping"}
    /\ IF net.at \in {"offer", "ack"} /\ net.try < TRIES
       THEN net' = [Again EXCEPT !.at = "offer"] /\ Transmit(nic, Kind("discover"))
       ELSE GivesUp
    /\ UNCHANGED <<tcp, worldVars>>

DnsExpires ==
    /\ net.at = "dns"
    /\ IF net.try < TRIES
       THEN /\ net' = Again /\ Transmit(nic, Question(net.req.name))
            /\ UNCHANGED <<host, replies>>
       ELSE Resolved(nic, "ERR", 0)
    /\ UNCHANGED <<tcp, load, link, cl, requests, sent, taken>>

WaitExpires ==
    /\ net.at = "wait" /\ ~WaitOver
    /\ IF net.why \in {"connect", "send"} /\ net.try < TRIES
       THEN /\ net' = Again
            /\ Transmit(nic, IF net.why = "connect"
                             THEN Segment(tcp, {"SYN"}, tcp.snd_una, <<>>)
                             ELSE Segment(tcp, {"ACK"}, Plus(net.end, -Len(net.chunk)), net.chunk))
            /\ UNCHANGED <<tcp, replies, sent, taken>>
       ELSE Ends
    /\ UNCHANGED <<load, host, link, cl, requests>>

Expires == BootExpires \/ DnsExpires \/ WaitExpires
-----------------------------------------------------------------------------
(* serve                                                                    *)

\* One request.  Data goes through the client's buffer, which may have failed to
\* map.
Serve(r) ==
    \/ /\ r.op = "buf"
       /\ link' \in {link, [link EXCEPT !.buf = TRUE]}
       /\ Quiet(nic) /\ UNCHANGED <<net, tcp, replies, sent, taken>>
    \/ /\ r.op = "reply"
       /\ link' = [link EXCEPT !.reply = TRUE]
       /\ Quiet(nic) /\ UNCHANGED <<net, tcp, replies, sent, taken>>
    \/ r.op = "connect" /\ Connect(r) /\ UNCHANGED link
    \/ /\ r.op \in {"send", "recv", "resolve"} /\ ~link.buf
       /\ Reply("ERR", 0) /\ Quiet(nic) /\ UNCHANGED <<link, tcp, sent, taken>>
    \/ /\ r.op = "send" /\ link.buf
       /\ SendChunk(r, r.n) /\ UNCHANGED <<link, taken>>
    \/ /\ r.op = "recv" /\ link.buf
       /\ net' = Waiting("recv", r)
       /\ Quiet(nic) /\ UNCHANGED <<link, tcp, replies, sent, taken>>
    \/ /\ r.op = "resolve" /\ link.buf
       /\ net' = [At("dns") EXCEPT !.why = "request", !.req = r]
       /\ Transmit(nic, Question(r.name))
       /\ UNCHANGED <<link, tcp, replies, sent, taken>>
    \/ r.op = "close" /\ Close(r) /\ UNCHANGED <<link, sent, taken>>

TakeRequest ==
    /\ net.at = "serve" /\ requests # <<>>
    /\ requests' = Tail(requests)
    /\ Serve(Head(requests))
    /\ UNCHANGED <<load, host, cl>>
-----------------------------------------------------------------------------
(* the client                                                               *)

\* net_link.
OpenLink ==
    /\ \/ cl.at = "new" /\ cl' = [cl EXCEPT !.at = "half"] /\ requests' = Append(requests, [op |-> "buf"])
       \/ cl.at = "half" /\ cl' = [cl EXCEPT !.at = "ready"] /\ requests' = Append(requests, [op |-> "reply"])
    /\ UNCHANGED <<net, tcp, nic, up, load, host, link, replies, sent, taken>>

\* The calls of the C library, in any order, but that names are resolved between
\* connections.
Calls ==
    [op : {"connect"}] \cup [op : {"close"}]
    \cup [op : {"send", "recv"}, n : Sizes] \cup [op : {"resolve"}, name : Names]

\* net_ask: a request and a wait for its reply.
Ask ==
    /\ cl.at = "ready"
    /\ \E r \in Calls :
         /\ r.op = "connect" => tcp.lport < load.conns
         /\ r.op = "resolve" => tcp.state = "Closed"
         /\ r.op = "send" => Len(sent) + r.n <= load.client
         /\ cl' = [at |-> "asked", req |-> r]
         /\ requests' = Append(requests, r)
    /\ UNCHANGED <<net, tcp, nic, up, load, host, link, replies, sent, taken>>

Hear ==
    /\ cl.at = "asked" /\ replies # <<>>
    /\ cl' = [at |-> "ready", req |-> NoReq]
    /\ replies' = Tail(replies)
    /\ UNCHANGED <<net, tcp, nic, up, load, host, link, requests, sent, taken>>
-----------------------------------------------------------------------------
(* the other machines                                                       *)

\* A frame reaches the receive queue, if a buffer is free, or is lost.
Deliver(f) ==
    nic' = nic \/ (Cardinality(nic.rx) < load.in /\ nic' = [nic EXCEPT !.rx = @ \cup {f}])

\* The DHCP server, the gateway and the name server answer what they are asked.
HostAnswers(f) ==
    \/ /\ f.kind = "discover"
       /\ \E ip \in Ips : Deliver([kind |-> "offer", ip |-> ip])
       /\ UNCHANGED host
    \/ /\ f.kind = "request"
       /\ host' = [host EXCEPT !.acked = @ \cup {f.ip}]
       /\ Deliver([kind |-> "ack", ip |-> f.ip])
    \/ f.kind = "who" /\ Deliver(Kind("is")) /\ UNCHANGED host
    \/ f.kind = "echo" /\ Deliver(Kind("echoed")) /\ UNCHANGED host
    \/ f.kind = "ask" /\ Deliver([kind |-> "addr", name |-> f.name]) /\ UNCHANGED host
    \/ f.kind = "answer" /\ UNCHANGED <<host, nic>>

\* A segment of the peer, from position k of its stream.
HostSegment(h, flags, k, data) ==
    [kind |-> "tcp", port |-> h.port, flags |-> flags, seq |-> Plus(HOST_ISS, 1 + k),
     ack |-> h.rcv, data |-> data]

\* The peer: a new port is a new connection, accepted or refused; in an
\* established one it takes what is next in order and acknowledges the rest.
HostSegmentIn(f) ==
    \/ /\ "SYN" \in f.flags /\ f.port > host.port
       /\ \/ /\ host' = [NewHost EXCEPT !.port = f.port, !.st = "syn", !.rcv = Plus(f.seq, 1),
                                       !.acked = host.acked]
             /\ Deliver(HostSegment(host', {"SYN", "ACK"}, -1, <<>>))
          \/ /\ Deliver([kind |-> "tcp", port |-> f.port, flags |-> {"RST"}, seq |-> 0, ack |-> 0,
                          data |-> <<>>])
             /\ UNCHANGED host
    \/ /\ "SYN" \in f.flags /\ f.port <= host.port
       /\ IF f.port = host.port /\ host.st = "syn"
          THEN Deliver(HostSegment(host, {"SYN", "ACK"}, -1, <<>>)) ELSE UNCHANGED nic
       /\ UNCHANGED host
    \/ /\ "SYN" \notin f.flags /\ (f.port # host.port \/ host.st = "none")
       /\ UNCHANGED <<host, nic>>
    \/ /\ "SYN" \notin f.flags /\ f.port = host.port /\ host.st # "none"
       /\ LET next == f.seq = host.rcv
              n == IF next THEN Len(f.data) + (IF "FIN" \in f.flags THEN 1 ELSE 0) ELSE 0
          IN  /\ host' = [host EXCEPT !.st = "est", !.rcv = Plus(@, n),
                                      !.got = IF next THEN @ \o f.data ELSE @]
              /\ IF f.data # <<>> \/ "FIN" \in f.flags
                 THEN Deliver(HostSegment(host', {"ACK"}, 0, <<>>)) ELSE UNCHANGED nic

HostTakes ==
    /\ \E f \in up :
         /\ up' = up \ {f}
         /\ IF f.kind = "tcp" THEN HostSegmentIn(f) ELSE HostAnswers(f)
    /\ UNCHANGED <<net, tcp, load, link, cl, requests, replies, sent, taken>>

\* The peer sends, or sends again, a piece of its stream, with FIN at its end;
\* or it gives the connection up.
HostSends ==
    /\ host.st = "est"
    /\ \/ \E k \in 0 .. load.host, m \in 0 .. load.host, fin \in BOOLEAN :
            /\ k + m <= load.host /\ (fin => k + m = load.host) /\ (m > 0 \/ fin)
            /\ Deliver(HostSegment(host, IF fin THEN {"FIN", "ACK"} ELSE {"ACK"}, k,
                                   [i \in 1 .. m |-> k + i]))
            /\ UNCHANGED host
       \/ /\ host' = [host EXCEPT !.st = "none"]
          /\ Deliver([kind |-> "tcp", port |-> host.port, flags |-> {"RST"}, seq |-> 0, ack |-> 0,
                      data |-> <<>>])
    /\ UNCHANGED <<net, tcp, up, load, link, cl, requests, replies, sent, taken>>

\* Somebody asks for our address, or pings us (while no connection stands).
HostAsks ==
    /\ host.st # "est"
    /\ Deliver(Kind("query"))
    /\ UNCHANGED <<net, tcp, up, worldVars>>
-----------------------------------------------------------------------------
NetStep == Start \/ Dhcp \/ Arp \/ Ping \/ Dns \/ Pump \/ WaitDone \/ Expires \/ TakeRequest

Next ==
    \/ NetStep \/ DeviceTakes
    \/ OpenLink \/ Ask \/ Hear
    \/ HostTakes \/ HostSends \/ HostAsks

\* The service is scheduled again and again and its clock runs; the client reads
\* its replies.  Nothing is assumed of the network, the device or the host.
Fairness == WF_vars(TakeRequest) /\ WF_vars(WaitDone) /\ WF_vars(Expires) /\ WF_vars(Hear)

Spec == Init /\ [][Next]_vars /\ Fairness
-----------------------------------------------------------------------------
(* Properties                                                               *)

\* What recv has handed out, followed by what is in the ring, is the peer's
\* stream from its beginning, without a gap, a repeat or a swap, whatever the
\* network lost, repeated or reordered and however full the ring was (tcp.rs
\* on_segment, recv); and the end of the stream is taken for reached only when
\* all of it was received.
ReceivedInOrder ==
    LET all == taken \o tcp.rx
    IN  /\ all = [i \in 1 .. Len(all) |-> i]
        /\ Len(tcp.rx) <= RX
        /\ tcp.fin => Len(all) = load.host

\* What the peer has is what send was given, in order; and when send says OK,
\* the peer has all of it.  The numbers of a chunk that timed out are not used
\* again, so a late segment of it is never taken for another (tcp.rs send).
SentIsDelivered ==
    host.port = tcp.lport =>
        /\ Len(host.got) <= Len(sent) /\ host.got = SubSeq(sent, 1, Len(host.got))
        /\ cl.at = "asked" /\ cl.req.op = "send" /\ replies # <<>> /\ Head(replies).status = "OK"
              => host.got = sent

\* The address in use is one the server has acknowledged, never one it only
\* offered, although every attempt uses the same transaction id (dhcp.rs).
LeaseIsGranted == net.at \in {"arp", "ping"} => net.ip \in host.acked

\* Every call of the client comes back once the service is up, whatever the
\* network does: each wait is bounded (tcp.rs wait, dns.rs resolve).
CallsComeBack ==
    (cl.at = "asked" /\ net.at \in {"serve", "wait"}) ~> (cl.at = "ready")
=============================================================================
