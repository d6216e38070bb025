-------------------------------- MODULE Tcp --------------------------------
(***************************************************************************)
(* The TCP layer (src/kernel/tcp.c): hosts that run the same code over a   *)
(* network that may lose, duplicate and delay frames.  A host is one       *)
(* thread: a call of the API, or one turn of tcp_poll's loop, is an action.*)
(***************************************************************************)
EXTENDS Integers, Sequences, SequencesExt, FiniteSets

CONSTANTS
  Hosts, NoHost,
  Links,                 \* <<h, g>>: h connects to g, which listens
  Senders,               \* hosts whose application sends
  Ports,                 \* local ports the applications use
  TCP_MAX_CONNECTIONS,
  TCP_BUFFER_SIZE,
  FRAME_DATA_MAX,        \* data bytes that fit a frame with all its headers
  SEQ_MOD,               \* size of the sequence space (2^32)
  ISNS,                  \* what tcp_next_isn returns, draw after draw
  WIRE,                  \* frames on their way to a host before its NIC is busy
  MaxBytes,              \* bound: bytes an application sends on a connection
  MaxFaults              \* bound: faults of the network

\* The generator repeats no value and, in the program, two draws lie some
\* twenty million bytes apart: longer than the streams considered.
ASSUME TcpAssumption ==
  /\ NoHost \notin Hosts
  /\ Links \subseteq Hosts \X Hosts /\ Senders \subseteq Hosts
  /\ {TCP_MAX_CONNECTIONS, TCP_BUFFER_SIZE, FRAME_DATA_MAX, SEQ_MOD, WIRE} \subseteq Nat \ {0}
  /\ {MaxBytes, MaxFaults} \subseteq Nat /\ MaxBytes < SEQ_MOD
  /\ ISNS \in Seq(0 .. SEQ_MOD - 1)
  /\ \A m, n \in DOMAIN ISNS :
       m # n => (ISNS[m] - ISNS[n] + SEQ_MOD) % SEQ_MOD > MaxBytes + 2

Slots == 1 .. TCP_MAX_CONNECTIONS
\* A byte is told apart by its sender, his ISN and its place in the stream: the
\* code never looks at one, so what holds of these holds of any bytes.

VARIABLES
  conns,       \* conns[h][i]: the connection table of host h
  draws,       \* ISNs that host h has drawn
  wire,        \* frames on their way to host h, the next one first
  faults,
  stream,      \* history, by host and ISN: how many bytes that connection has sent
  peerISN,     \* history, by host and slot: the ISN this end has accepted
  handed       \* history, by host and slot: the bytes given to the application

vars == <<conns, draws, wire, faults, stream, peerISN, handed>>
history == <<stream, peerISN, handed>>

\* A free TcpConn.  local_ip is the host, snd_buf and rcv_wnd are never read;
\* isn is history: the ISN this end has chosen.
Unused == [used |-> FALSE, state |-> "CLOSED", remote_ip |-> NoHost, local_port |-> 0,
           remote_port |-> 0, snd_nxt |-> 0, snd_una |-> 0, rcv_nxt |-> 0, rcv_buf |-> <<>>, isn |-> 0]

\* tcp_init
Init ==
  /\ conns = [h \in Hosts |-> [i \in Slots |-> Unused]]
  /\ draws = [h \in Hosts |-> 0]
  /\ wire = [h \in Hosts |-> <<>>]
  /\ faults = 0
  /\ stream = [h \in Hosts |-> [n \in Range(ISNS) |-> 0]]
  /\ peerISN = [h \in Hosts |-> [i \in Slots |-> 0]]
  /\ handed = [h \in Hosts |-> [i \in Slots |-> <<>>]]

-----------------------------------------------------------------------------
Plus(n, k) == (n + k) % SEQ_MOD

\* alloc_conn: the first unused entry.
FreeSlot(h, i) == /\ ~conns[h][i].used
                  /\ \A j \in 1 .. i - 1 : conns[h][j].used

\* tcp_build_segment
SegmentOf(h, c, flags, data) ==
  [src |-> h, src_port |-> c.local_port, dst_port |-> c.remote_port,
   flags |-> flags, seq |-> c.snd_nxt, ack |-> c.rcv_nxt, data |-> data]

\* eth_send refuses while the NIC is busy.
Busy(w, c) == Len(w[c.remote_ip]) >= WIRE

\* tcp_send_segment where the result is not looked at.
Sent(w, h, c, flags, data) ==
  IF Busy(w, c) THEN w
  ELSE [w EXCEPT ![c.remote_ip] = Append(@, SegmentOf(h, c, flags, data))]

Store(h, i, c) == conns' = [conns EXCEPT ![h][i] = c]

\* tcp_next_isn
Draw(h) == draws' = [draws EXCEPT ![h] = @ + 1]
NextISN(h) == ISNS[draws[h] + 1]

-----------------------------------------------------------------------------
(***************************************************************************)
(* Calls of the application.                                               *)
(***************************************************************************)
\* A SYN that cannot be sent leaves the entry unused, but its fields written.
Connect(h, g, dst_port, src_port) ==
  \E i \in Slots :
    /\ FreeSlot(h, i)
    /\ draws[h] < Len(ISNS)
    /\ LET n == NextISN(h)
           c == [conns[h][i] EXCEPT
                   !.used = TRUE, !.state = "SYN_SENT", !.remote_ip = g,
                   !.local_port = src_port, !.remote_port = dst_port,
                   !.snd_nxt = n, !.snd_una = n, !.rcv_nxt = 0, !.rcv_buf = <<>>, !.isn = n]
       IN IF Busy(wire, c)
            THEN Store(h, i, [c EXCEPT !.used = FALSE]) /\ UNCHANGED wire
            ELSE /\ Store(h, i, [c EXCEPT !.snd_nxt = Plus(@, 1)])
                 /\ wire' = Sent(wire, h, c, {"SYN"}, <<>>)
    /\ Draw(h)
    /\ handed' = [handed EXCEPT ![h][i] = <<>>]
    /\ UNCHANGED <<faults, stream, peerISN>>

Listen(h, port) ==
  \E i \in Slots :
    /\ FreeSlot(h, i)
    /\ Store(h, i, [Unused EXCEPT !.used = TRUE, !.state = "SYN_RECV", !.local_port = port])
    /\ handed' = [handed EXCEPT ![h][i] = <<>>]
    /\ UNCHANGED <<draws, wire, faults, stream, peerISN>>

\* tcp_send cuts its chunks larger than a frame can carry, so what does not
\* fit one frame is not sent at all; what fits is a single segment.
Send(h, i, len) ==
  LET c == conns[h][i]
      data == [k \in 1 .. len |-> <<h, c.isn, stream[h][c.isn] + k>>]
  IN
  /\ c.used /\ c.state = "ESTABLISHED"
  /\ len <= FRAME_DATA_MAX
  /\ ~Busy(wire, c)
  /\ stream[h][c.isn] + len <= MaxBytes
  /\ wire' = Sent(wire, h, c, {"ACK", "PSH"}, data)
  /\ Store(h, i, [c EXCEPT !.snd_nxt = Plus(@, len)])
  /\ stream' = [stream EXCEPT ![h][c.isn] = @ + len]
  /\ UNCHANGED <<draws, faults, peerISN, handed>>

Recv(h, i, maxlen) ==
  LET c == conns[h][i]
      copy == IF maxlen < Len(c.rcv_buf) THEN maxlen ELSE Len(c.rcv_buf)
  IN
  /\ c.used /\ c.rcv_buf # <<>>
  /\ handed' = [handed EXCEPT ![h][i] = @ \o SubSeq(c.rcv_buf, 1, copy)]
  /\ Store(h, i, [c EXCEPT !.rcv_buf = SubSeq(@, copy + 1, Len(@))])
  /\ UNCHANGED <<draws, wire, faults, stream, peerISN>>

\* Only an established connection says good-bye.
Close(h, i) ==
  LET c == conns[h][i] IN
  /\ c.used
  /\ IF c.state = "ESTABLISHED"
       THEN /\ wire' = Sent(wire, h, c, {"FIN", "ACK"}, <<>>)
            /\ Store(h, i, [c EXCEPT !.snd_nxt = Plus(@, 1), !.state = "FIN_WAIT1"])
       ELSE /\ Store(h, i, [c EXCEPT !.state = "CLOSED", !.used = FALSE])
            /\ UNCHANGED wire
  /\ UNCHANGED <<draws, faults, history>>

-----------------------------------------------------------------------------
(***************************************************************************)
(* tcp_poll: one frame.  The first entry that some branch applies to takes *)
(* the frame; the branches tell entries apart by state and address.        *)
(***************************************************************************)
FromPeer(c, s) == c.remote_ip = s.src
OnPorts(c, s) == c.remote_port = s.src_port /\ c.local_port = s.dst_port

Takes(c, s) ==
  /\ c.used
  /\ CASE c.state = "SYN_SENT"    -> FromPeer(c, s) /\ OnPorts(c, s) /\ {"SYN", "ACK"} \subseteq s.flags
       [] c.state = "SYN_RECV"    -> /\ c.local_port = s.dst_port
                                     /\ "SYN" \in s.flags /\ "ACK" \notin s.flags
       [] c.state = "ESTABLISHED" -> FromPeer(c, s) /\ OnPorts(c, s)
       [] c.state \in {"LAST_ACK", "FIN_WAIT1"} -> FromPeer(c, s) /\ "ACK" \in s.flags
       [] OTHER -> FALSE

TakenBy(h, s, i) == /\ Takes(conns[h][i], s)
                    /\ \A j \in 1 .. i - 1 : ~Takes(conns[h][j], s)

\* The frame is off the wire; what is sent in answer goes on it.
Rest(h) == [wire EXCEPT ![h] = Tail(@)]

PollSynSent(h, i, s) ==
  LET c == [conns[h][i] EXCEPT !.rcv_nxt = Plus(s.seq, 1), !.snd_una = s.ack,
                               !.state = "ESTABLISHED"] IN
  /\ conns[h][i].state = "SYN_SENT"
  /\ Store(h, i, c)
  /\ wire' = Sent(Rest(h), h, c, {"ACK"}, <<>>)
  /\ peerISN' = [peerISN EXCEPT ![h][i] = s.seq]
  /\ UNCHANGED <<draws, faults, stream, handed>>

\* The listening entry becomes the connection, without waiting for an ACK.
PollListen(h, i, s) ==
  LET n == NextISN(h)
      c == [conns[h][i] EXCEPT !.remote_ip = s.src, !.remote_port = s.src_port,
                               !.rcv_nxt = Plus(s.seq, 1),
                               !.snd_nxt = n, !.snd_una = n, !.isn = n] IN
  /\ conns[h][i].state = "SYN_RECV"
  /\ draws[h] < Len(ISNS)
  /\ Draw(h)
  /\ wire' = Sent(Rest(h), h, c, {"SYN", "ACK"}, <<>>)
  /\ Store(h, i, [c EXCEPT !.snd_nxt = Plus(@, 1), !.state = "ESTABLISHED"])
  /\ peerISN' = [peerISN EXCEPT ![h][i] = s.seq]
  /\ UNCHANGED <<faults, stream, handed>>

\* Mutant: data is taken whatever its sequence number.
AnyOrder(c, s) == s.data # <<>>

\* Data is only taken where it continues what has been received.
InOrder(c, s) == s.data # <<>> /\ s.seq = c.rcv_nxt

\* As much of the data as the buffer has room for.
Fitting(c, s) ==
  LET space == TCP_BUFFER_SIZE - Len(c.rcv_buf) IN
  SubSeq(s.data, 1, IF Len(s.data) < space THEN Len(s.data) ELSE space)

\* Acknowledgement, data, then FIN, which is believed whatever its sequence
\* number and answered by an ACK and the FIN of this end.
PollEstablished(h, i, s) ==
  LET c    == conns[h][i]
      copy == IF InOrder(c, s) THEN Fitting(c, s) ELSE <<>>
      d    == [c EXCEPT !.snd_una = IF "ACK" \in s.flags /\ s.ack > @ THEN s.ack ELSE @,
                        !.rcv_buf = @ \o copy,
                        !.rcv_nxt = Plus(@, Len(copy))]
      w    == IF InOrder(c, s) THEN Sent(Rest(h), h, d, {"ACK"}, <<>>) ELSE Rest(h)
      f    == [d EXCEPT !.rcv_nxt = Plus(@, 1)]
  IN
  /\ c.state = "ESTABLISHED"
  /\ IF "FIN" \in s.flags
       THEN /\ wire' = Sent(Sent(w, h, f, {"ACK"}, <<>>), h, f, {"FIN", "ACK"}, <<>>)
            /\ Store(h, i, [f EXCEPT !.snd_nxt = Plus(@, 1), !.state = "LAST_ACK"])
       ELSE wire' = w /\ Store(h, i, d)
  /\ UNCHANGED <<draws, faults, history>>

PollLastAck(h, i) ==
  /\ conns[h][i].state = "LAST_ACK"
  /\ Store(h, i, [conns[h][i] EXCEPT !.state = "CLOSED", !.used = FALSE])
  /\ wire' = Rest(h)
  /\ UNCHANGED <<draws, faults, history>>

\* An ACK without FIN leads to a state no branch leaves.
PollFinWait1(h, i, s) ==
  LET c == conns[h][i]
      f == [c EXCEPT !.rcv_nxt = Plus(@, 1), !.state = "CLOSED", !.used = FALSE] IN
  /\ c.state = "FIN_WAIT1"
  /\ IF "FIN" \in s.flags
       THEN Store(h, i, f) /\ wire' = Sent(Rest(h), h, f, {"ACK"}, <<>>)
       ELSE Store(h, i, [c EXCEPT !.state = "FIN_WAIT2"]) /\ wire' = Rest(h)
  /\ UNCHANGED <<draws, faults, history>>

\* A frame no entry takes is dropped.
PollDrop(h, s) ==
  /\ \A i \in Slots : ~Takes(conns[h][i], s)
  /\ wire' = Rest(h)
  /\ UNCHANGED <<conns, draws, faults, history>>

Poll(h) ==
  /\ wire[h] # <<>>
  /\ LET s == Head(wire[h]) IN
     \/ \E i \in Slots :
          /\ TakenBy(h, s, i)
          /\ \/ PollSynSent(h, i, s) \/ PollListen(h, i, s) \/ PollEstablished(h, i, s)
             \/ PollLastAck(h, i) \/ PollFinWait1(h, i, s)
     \/ PollDrop(h, s)

-----------------------------------------------------------------------------
(***************************************************************************)
(* The network.  A frame is also lost when ping or dns_resolve, which read *)
(* the same NIC, find it first.                                            *)
(***************************************************************************)
Fault(h, frames) ==
  /\ faults < MaxFaults
  /\ faults' = faults + 1
  /\ wire' = [wire EXCEPT ![h] = frames]
  /\ UNCHANGED <<conns, draws, history>>

Lose(h)      == wire[h] # <<>> /\ Fault(h, Tail(wire[h]))
Duplicate(h) == wire[h] # <<>> /\ Fault(h, Append(wire[h], Head(wire[h])))
Delay(h)     == Len(wire[h]) > 1 /\ Fault(h, Append(Tail(wire[h]), Head(wire[h])))

-----------------------------------------------------------------------------
Next ==
  \E h \in Hosts :
    \/ \E link \in Links, src_port, dst_port \in Ports :
         h = link[1] /\ Connect(h, link[2], dst_port, src_port)
    \/ \E link \in Links, port \in Ports : h = link[2] /\ Listen(h, port)
    \/ \E i \in Slots :
         \/ \E len \in 1 .. FRAME_DATA_MAX : h \in Senders /\ Send(h, i, len)
         \/ \E maxlen \in 1 .. TCP_BUFFER_SIZE : Recv(h, i, maxlen)
         \/ Close(h, i)
    \/ Poll(h)
    \/ Lose(h) \/ Duplicate(h) \/ Delay(h)

Spec == Init /\ [][Next]_vars

-----------------------------------------------------------------------------
(***************************************************************************)
(* Properties.                                                             *)
(***************************************************************************)
\* Whatever the network does, and whichever old connection a late segment
\* belongs to, the bytes an application is given are the first bytes of one
\* stream that its peer has sent: none missing, none twice, none of another.
Received(h, i) == handed[h][i] \o conns[h][i].rcv_buf
Prefix ==
  \A h \in Hosts, i \in Slots :
    LET g == conns[h][i].remote_ip
        n == peerISN[h][i]
    IN Received(h, i) # <<>> =>
         /\ Len(Received(h, i)) <= stream[g][n]
         /\ Received(h, i) = [k \in 1 .. Len(Received(h, i)) |-> <<g, n, k>>]

=============================================================================
