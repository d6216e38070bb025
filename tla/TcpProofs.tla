----------------------------- MODULE TcpProofs -----------------------------
(***************************************************************************)
(* Proofs about Tcp, for any hosts and links, tables, buffers and frames   *)
(* of any size, any number of faults, and any initial sequence numbers     *)
(* that lie further apart than a stream is long.                           *)
(***************************************************************************)
EXTENDS Tcp, SequenceTheorems, TLAPS

-----------------------------------------------------------------------------
(* Remainders *)

LEMMA SmallProduct ==
  ASSUME NEW M \in Nat \ {0}, NEW k \in Int, NEW d \in Int, d < M, -M < d, d = M * k
  PROVE  k = 0 /\ d = 0
<1>1. CASE k >= 1
  <2>1. M * k >= M
    BY <1>1
  <2>2. QED
    BY <2>1
<1>2. CASE k <= -1
  <2>1. M * k <= -M
    BY <1>2
  <2>2. QED
    BY <2>1
<1>3. QED
  BY <1>1, <1>2
LEMMA ModIs ==
  ASSUME NEW M \in Nat \ {0}, NEW a \in Int
  PROVE  (a % M) \in 0 .. M - 1 /\ \E k \in Int : a = M * k + (a % M)
<1>1. (a % M) \in 0 .. M - 1 /\ a = M * (a \div M) + (a % M) /\ a \div M \in Int
  OBVIOUS
<1>2. QED
  BY <1>1
LEMMA ModUnique ==
  ASSUME NEW M \in Nat \ {0}, NEW a \in Int, NEW k \in Int, NEW r \in 0 .. M - 1, a = M * k + r
  PROVE  (a % M) = r
<1>1. PICK j \in Int : a = M * j + (a % M)
  BY ModIs
<1>2. (a % M) \in 0 .. M - 1
  BY ModIs
<1> DEFINE b == (a % M)
<1>3. b \in 0 .. M - 1 /\ a = M * j + b
  BY <1>1, <1>2
<1> HIDE DEF b
<1>4. r - b = M * (j - k)
  BY <1>3
<1>5. r - b = 0
  BY <1>3, <1>4, SmallProduct
<1>6. QED
  BY <1>3, <1>5 DEF b
LEMMA ModPlus ==
  ASSUME NEW M \in Nat \ {0}, NEW a \in Int, NEW b \in Int
  PROVE  ((a % M) + b) % M = (a + b) % M
<1> DEFINE s == a % M
           t == s + b
           r == t % M
<1>1. s \in Int /\ t \in Int
  BY ModIs
<1>2. PICK k \in Int : a = M * k + s
  BY ModIs
<1>0. t = s + b
  OBVIOUS
<1> HIDE DEF s, t
<1>3. r \in 0 .. M - 1 /\ \E j \in Int : t = M * j + r
  BY <1>1, ModIs
<1>4. PICK j \in Int : t = M * j + r
  BY <1>3
<1> HIDE DEF r
<1>5. a + b = M * (k + j) + r
  BY <1>0, <1>1, <1>2, <1>3, <1>4
<1> DEFINE u == a + b
           l == k + j
<1>6. u \in Int /\ l \in Int /\ u = M * l + r
  BY <1>5
<1> HIDE DEF u, l
<1>7. u % M = r
  BY <1>3, <1>6, ModUnique
<1>8. QED
  BY <1>7 DEF r, s, t, u

-----------------------------------------------------------------------------
(* Sequence numbers *)

SeqNo == 0 .. SEQ_MOD - 1
Numbers == Range(ISNS)

LEMMA SizeFacts ==
  /\ SEQ_MOD \in Nat \ {0} /\ SEQ_MOD \in Int /\ MaxBytes \in Nat /\ MaxBytes < SEQ_MOD
  /\ \A n \in SeqNo : n \in Nat
BY TcpAssumption DEF SeqNo

LEMMA NumberFacts ==
  /\ \A n \in Numbers : n \in SeqNo /\ \E k \in DOMAIN ISNS : n = ISNS[k]
  /\ Len(ISNS) \in Nat /\ DOMAIN ISNS = 1 .. Len(ISNS)
  /\ \A k \in DOMAIN ISNS : ISNS[k] \in Numbers /\ ISNS[k] \in SeqNo
<1>1. ISNS \in Seq(SeqNo)
  BY TcpAssumption DEF SeqNo
<1>2. Numbers = {ISNS[k] : k \in 1 .. Len(ISNS)}
  BY <1>1, RangeEquality DEF Numbers
<1>3. Len(ISNS) \in Nat /\ DOMAIN ISNS = 1 .. Len(ISNS) /\ \A k \in 1 .. Len(ISNS) : ISNS[k] \in SeqNo
  BY <1>1
<1>4. QED
  BY <1>2, <1>3

LEMMA PlusType ==
  ASSUME NEW n \in Int, NEW a \in Int
  PROVE  Plus(n, a) \in SeqNo
BY SizeFacts, ModIs DEF Plus, SeqNo

LEMMA PlusOne ==
  ASSUME NEW n \in SeqNo
  PROVE  Plus(n, 1) \in SeqNo /\ Plus(n, 1) = Plus(n, 1 + 0)
<1>1. n \in Int /\ 1 \in Int /\ 1 + 0 = 1
  BY SizeFacts
<1>2. QED
  BY <1>1, PlusType

LEMMA PlusFacts ==
  ASSUME NEW n \in Int, NEW a \in Int, NEW b \in Int
  PROVE  /\ Plus(n, a) \in SeqNo
         /\ Plus(Plus(n, a), b) = Plus(n, a + b)
<1>1. Plus(n, a) \in SeqNo
  BY SizeFacts, ModIs DEF Plus, SeqNo
<1> DEFINE x == n + a
<1>2. x \in Int /\ Plus(n, a) = x % SEQ_MOD /\ Plus(n, a + b) = (x + b) % SEQ_MOD
  <2>1. n + (a + b) = x + b
    OBVIOUS
  <2>2. QED
    BY <2>1 DEF Plus
<1> HIDE DEF x
<1>3. Plus(Plus(n, a), b) = ((x % SEQ_MOD) + b) % SEQ_MOD
  BY <1>2 DEF Plus
<1>4. QED
  BY <1>1, <1>2, <1>3, ModPlus, SizeFacts

LEMMA PlusMore ==
  ASSUME NEW n \in Int, NEW q \in Nat, NEW l \in Nat
  PROVE  /\ Plus(n, 1 + q) \in SeqNo /\ Plus(n, 1 + (q + l)) \in SeqNo
         /\ Plus(Plus(n, 1 + q), l) = Plus(n, 1 + (q + l))
<1> DEFINE a == 1 + q
           b == 1 + (q + l)
<1>1. a \in Int /\ b \in Int /\ a + l = b /\ l \in Int
  OBVIOUS
<1> HIDE DEF a, b
<1>2. Plus(n, a) \in SeqNo /\ Plus(n, b) \in SeqNo /\ Plus(Plus(n, a), l) = Plus(n, a + l)
  BY <1>1, PlusFacts
<1>3. Plus(n, a) \in SeqNo /\ Plus(n, b) \in SeqNo /\ Plus(Plus(n, a), l) = Plus(n, b)
  BY <1>1, <1>2
<1>4. QED
  BY <1>3 DEF a, b

\* The number of a place is not the number of the same place of another stream.
LEMMA Apart ==
  ASSUME NEW m \in DOMAIN ISNS, NEW n \in DOMAIN ISNS, m # n,
         NEW d \in 0 .. MaxBytes, NEW k \in Int, ISNS[m] - ISNS[n] = SEQ_MOD * k + d
  PROVE  FALSE
<1> DEFINE x == ISNS[m] - ISNS[n] + SEQ_MOD
<1>1. ISNS[m] \in Int /\ ISNS[n] \in Int
  BY NumberFacts, SizeFacts
<1>2. x \in Int /\ x = SEQ_MOD * (k + 1) + d /\ d \in 0 .. SEQ_MOD - 1
  BY <1>1, SizeFacts
<1>3. x % SEQ_MOD > MaxBytes + 2
  BY TcpAssumption
<1> HIDE DEF x
<1>4. x % SEQ_MOD = d
  <2> DEFINE l == k + 1
  <2>1. l \in Int /\ x = SEQ_MOD * l + d
    BY <1>2
  <2> HIDE DEF l
  <2>2. QED
    BY <2>1, <1>2, ModUnique, SizeFacts
<1>5. QED
  BY <1>3, <1>4, SizeFacts

\* A place in a stream has a number of its own, among all streams.
LEMMA SamePlace ==
  ASSUME NEW n \in Numbers, NEW p \in Numbers, NEW q \in 0 .. MaxBytes, NEW r \in 0 .. MaxBytes,
         Plus(n, 1 + q) = Plus(p, 1 + r)
  PROVE  n = p /\ q = r
<1>1. n \in Nat /\ p \in Nat /\ q \in Nat /\ r \in Nat
  BY NumberFacts, SizeFacts
<1> DEFINE x == n + (1 + q)
           y == p + (1 + r)
<1>2. x \in Int /\ y \in Int /\ x % SEQ_MOD = y % SEQ_MOD
  BY <1>1 DEF Plus
<1>3. PICK j \in Int : x = SEQ_MOD * j + (x % SEQ_MOD)
  BY <1>2, ModIs, SizeFacts
<1>4. PICK k \in Int : y = SEQ_MOD * k + (y % SEQ_MOD)
  BY <1>2, ModIs, SizeFacts
<1>5. x % SEQ_MOD \in Int
  BY <1>2, ModIs, SizeFacts
<1>6. x - y = SEQ_MOD * (j - k)
  <2> DEFINE z == x % SEQ_MOD
  <2>1. x = SEQ_MOD * j + z /\ y = SEQ_MOD * k + z /\ z \in Int
    BY <1>2, <1>3, <1>4, <1>5
  <2> HIDE DEF x, y, z
  <2>2. QED
    BY <2>1, <1>2, SizeFacts
<1>7. PICK l \in Int : l = j - k /\ n - p = SEQ_MOD * l + (r - q)
  BY <1>1, <1>6, SizeFacts
<1>8. PICK a, b \in DOMAIN ISNS : n = ISNS[a] /\ p = ISNS[b]
  BY NumberFacts
<1>9. n = p
  <2>1. SUFFICES ASSUME n # p PROVE FALSE
    OBVIOUS
  <2>2. a # b
    BY <2>1, <1>8
  <2>3. CASE r >= q
    <3>1. r - q \in 0 .. MaxBytes /\ ISNS[a] - ISNS[b] = SEQ_MOD * l + (r - q)
      BY <2>3, <1>1, <1>7, <1>8, SizeFacts
    <3>2. QED
      BY <3>1, <2>2, <1>8, Apart
  <2>4. CASE r < q
    <3>1. p - n = SEQ_MOD * (-l) + (q - r) /\ -l \in Int /\ q - r \in 0 .. MaxBytes
      BY <2>4, <1>1, <1>7, SizeFacts
    <3>2. QED
      BY <3>1, <2>2, <1>8, Apart
  <2>5. QED
    BY <2>3, <2>4, <1>1
<1>10. q = r
  <2>1. q - r = SEQ_MOD * l
    BY <1>1, <1>7, <1>9, SizeFacts
  <2>2. q - r \in Int /\ q - r < SEQ_MOD /\ -SEQ_MOD < q - r
    BY <1>1, SizeFacts
  <2>3. q - r = 0
    BY <2>1, <2>2, SmallProduct, SizeFacts
  <2>4. QED
    BY <2>3, <1>1
<1>11. QED
  BY <1>9, <1>10

-----------------------------------------------------------------------------
(* The inductive invariant *)

Byte == Hosts \X Numbers \X Nat
Port == Ports \cup {0}
States == {"CLOSED", "SYN_SENT", "SYN_RECV", "ESTABLISHED", "FIN_WAIT1", "FIN_WAIT2", "LAST_ACK"}

Conn == [used : BOOLEAN, state : States, remote_ip : Hosts \cup {NoHost}, local_port : Port,
         remote_port : Port, snd_nxt : SeqNo, snd_una : SeqNo, rcv_nxt : SeqNo,
         rcv_buf : Seq(Byte), isn : SeqNo]
Frame == [src : Hosts, src_port : Port, dst_port : Port, flags : SUBSET {"SYN", "ACK", "FIN", "PSH"},
          seq : SeqNo, ack : SeqNo, data : Seq(Byte)]

Streams == [Hosts -> [Numbers -> 0 .. MaxBytes]]

\* The state is of the kind the code declares.
TypeOK ==
  /\ conns \in [Hosts -> [Slots -> Conn]]
  /\ draws \in [Hosts -> 0 .. Len(ISNS)]
  /\ wire \in [Hosts -> Seq(Frame)]
  /\ stream \in Streams
  /\ peerISN \in [Hosts -> [Slots -> SeqNo]]
  /\ handed \in [Hosts -> [Slots -> Seq(Byte)]]

\* A SYN carries a number that was drawn, and data the bytes that its sender
\* has sent at that place of one of his streams.
Genuine(s, st) ==
  /\ "SYN" \in s.flags => s.seq \in Numbers
  /\ s.data # <<>> =>
       \E n \in Numbers, q \in 0 .. MaxBytes :
         /\ s.seq = Plus(n, 1 + q)
         /\ q + Len(s.data) <= st[s.src][n]
         /\ \A k \in 1 .. Len(s.data) : s.data[k] = <<s.src, n, q + k>>

OnTheWire(w, st) == \A h \in Hosts : \A k \in DOMAIN w[h] : Genuine(w[h][k], st)

\* The bytes r are the first of the stream that host g has sent under number n.
FirstOf(r, g, n, st) ==
  /\ g \in Hosts /\ n \in Numbers
  /\ Len(r) <= st[g][n]
  /\ \A k \in 1 .. Len(r) : r[k] = <<g, n, k>>

\* The receiving half of a connection: what has come in belongs to the peer's
\* stream, and rcv_nxt is the number of the byte after it.
Receiving(c, p, r, st) ==
  /\ c.state \in {"SYN_SENT", "ESTABLISHED", "FIN_WAIT1", "LAST_ACK"} => c.remote_ip \in Hosts
  /\ c.state \in {"SYN_SENT", "SYN_RECV"} => r = <<>>
  /\ c.state = "ESTABLISHED" => p \in Numbers /\ c.rcv_nxt = Plus(p, 1 + Len(r))
  /\ r # <<>> => FirstOf(r, c.remote_ip, p, st)

Drawn(n, d) == \E k \in 1 .. d : n = ISNS[k]
Live(c) == c.used /\ c.state \in {"SYN_SENT", "ESTABLISHED"}

\* The sending half: snd_nxt is the number of the byte after those sent.
Sending(h, c) ==
  Live(c) => Drawn(c.isn, draws[h]) /\ c.snd_nxt = Plus(c.isn, 1 + stream[h][c.isn])

Inv ==
  /\ TypeOK
  /\ OnTheWire(wire, stream)
  /\ \A h \in Hosts, i \in Slots : Receiving(conns[h][i], peerISN[h][i], Received(h, i), stream)
  /\ \A h \in Hosts, i \in Slots : Sending(h, conns[h][i])
  /\ \A h \in Hosts, i, j \in Slots :
       Live(conns[h][i]) /\ Live(conns[h][j]) /\ i # j => conns[h][i].isn # conns[h][j].isn
  /\ \A h \in Hosts : \A k \in draws[h] + 1 .. Len(ISNS) : stream[h][ISNS[k]] = 0

-----------------------------------------------------------------------------
(* The wire *)

Wires == [Hosts -> Seq(Frame)]

\* A segment of a connection that has a number to show for its SYN.
LEMMA SegmentType ==
  ASSUME NEW h \in Hosts, NEW c \in Conn, NEW flags \in SUBSET {"SYN", "ACK", "FIN", "PSH"},
         NEW data \in Seq(Byte)
  PROVE  SegmentOf(h, c, flags, data) \in Frame
BY DEF SegmentOf, Frame, Conn

LEMMA SentFacts ==
  ASSUME NEW w \in Wires, NEW st, OnTheWire(w, st), NEW h \in Hosts, NEW c,
         c.remote_ip \in Hosts, NEW flags, NEW data,
         SegmentOf(h, c, flags, data) \in Frame, Genuine(SegmentOf(h, c, flags, data), st)
  PROVE  Sent(w, h, c, flags, data) \in Wires /\ OnTheWire(Sent(w, h, c, flags, data), st)
<1> DEFINE g == c.remote_ip
           s == SegmentOf(h, c, flags, data)
           v == [w EXCEPT ![g] = Append(@, s)]
<1>1. g \in Hosts /\ s \in Frame /\ Genuine(s, st) /\ Sent(w, h, c, flags, data) \in {w, v}
  BY DEF Sent
<1> HIDE DEF g, s
<1>2. w[g] \in Seq(Frame)
  BY <1>1 DEF Wires
<1>3. v \in Wires /\ v[g] = Append(w[g], s) /\ \A k \in Hosts : k # g => v[k] = w[k]
  BY <1>1, <1>2 DEF Wires
<1>4. OnTheWire(v, st)
  <2>1. SUFFICES ASSUME NEW k \in Hosts, NEW n \in DOMAIN v[k] PROVE Genuine(v[k][n], st)
    BY DEF OnTheWire
  <2>2. CASE k # g
    BY <2>2, <1>3 DEF OnTheWire
  <2>3. CASE k = g
    <3>1. /\ DOMAIN v[g] = 1 .. Len(w[g]) + 1 /\ DOMAIN w[g] = 1 .. Len(w[g]) /\ Len(w[g]) \in Nat
          /\ v[g][Len(w[g]) + 1] = s
          /\ \A l \in 1 .. Len(w[g]) : v[g][l] = w[g][l]
      BY <1>1, <1>2, <1>3
    <3>2. CASE n = Len(w[g]) + 1
      BY <3>1, <3>2, <2>3, <1>1
    <3>3. CASE n \in 1 .. Len(w[g])
      BY <3>1, <3>3, <2>3, <1>1 DEF OnTheWire
    <3>4. QED
      BY <3>1, <3>2, <3>3, <2>3
  <2>4. QED
    BY <2>2, <2>3
<1>5. QED
  BY <1>1, <1>3, <1>4

\* Frames that were there already, fewer of them or in another order.
LEMMA FewerFrames ==
  ASSUME NEW w \in Wires, NEW st, OnTheWire(w, st), NEW h \in Hosts, w[h] # <<>>
  PROVE  /\ Head(w[h]) \in Frame /\ Genuine(Head(w[h]), st)
         /\ [w EXCEPT ![h] = Tail(@)] \in Wires /\ OnTheWire([w EXCEPT ![h] = Tail(@)], st)
         /\ \A f \in {Append(w[h], Head(w[h])), Append(Tail(w[h]), Head(w[h]))} :
              [w EXCEPT ![h] = f] \in Wires /\ OnTheWire([w EXCEPT ![h] = f], st)
<1>1. w[h] \in Seq(Frame) /\ Len(w[h]) \in Nat /\ DOMAIN w[h] = 1 .. Len(w[h]) /\ 1 \in DOMAIN w[h]
  BY DEF Wires
<1>2. Head(w[h]) = w[h][1] /\ Head(w[h]) \in Frame
  BY <1>1
<1>3. Genuine(Head(w[h]), st)
  BY <1>1, <1>2 DEF OnTheWire
<1>4. ASSUME NEW f \in Seq(Frame), \A k \in DOMAIN f : \E l \in DOMAIN w[h] : f[k] = w[h][l]
      PROVE  [w EXCEPT ![h] = f] \in Wires /\ OnTheWire([w EXCEPT ![h] = f], st)
  <2> DEFINE v == [w EXCEPT ![h] = f]
  <2>1. v \in Wires /\ v[h] = f /\ \A g \in Hosts : g # h => v[g] = w[g]
    BY <1>4 DEF Wires
  <2>2. \A g \in Hosts : \A k \in DOMAIN v[g] : \E l \in DOMAIN w[g] : v[g][k] = w[g][l]
    BY <2>1, <1>4
  <2> HIDE DEF v
  <2>3. OnTheWire(v, st)
    BY <2>2 DEF OnTheWire
  <2>4. QED
    BY <2>1, <2>3 DEF v
<1>5. Tail(w[h]) \in Seq(Frame) /\ \A k \in DOMAIN Tail(w[h]) : k + 1 \in DOMAIN w[h] /\ Tail(w[h])[k] = w[h][k + 1]
  BY <1>1
<1>6. /\ Append(w[h], Head(w[h])) \in Seq(Frame)
      /\ \A k \in DOMAIN Append(w[h], Head(w[h])) : \E l \in DOMAIN w[h] : Append(w[h], Head(w[h]))[k] = w[h][l]
  BY <1>1, <1>2
<1>7. /\ Append(Tail(w[h]), Head(w[h])) \in Seq(Frame)
      /\ \A k \in DOMAIN Append(Tail(w[h]), Head(w[h])) :
           \E l \in DOMAIN w[h] : Append(Tail(w[h]), Head(w[h]))[k] = w[h][l]
  <2> DEFINE t == Tail(w[h])
             e == Head(w[h])
  <2>1. t \in Seq(Frame) /\ Len(t) \in Nat /\ DOMAIN t = 1 .. Len(t)
    BY <1>5
  <2>2. e \in Frame /\ e = w[h][1]
    BY <1>2
  <2>3. \A k \in 1 .. Len(t) : \E l \in DOMAIN w[h] : t[k] = w[h][l]
    BY <1>5, <2>1
  <2> HIDE DEF t, e
  <2>4. /\ Append(t, e) \in Seq(Frame) /\ DOMAIN Append(t, e) = 1 .. Len(t) + 1
        /\ Append(t, e)[Len(t) + 1] = e /\ \A k \in 1 .. Len(t) : Append(t, e)[k] = t[k]
    BY <2>1, <2>2
  <2>5. \A k \in DOMAIN Append(t, e) : k = Len(t) + 1 \/ k \in 1 .. Len(t)
    BY <2>1, <2>4
  <2>6. \A k \in DOMAIN Append(t, e) : \E l \in DOMAIN w[h] : Append(t, e)[k] = w[h][l]
    BY <2>2, <2>3, <2>4, <2>5, <1>1
  <2>7. QED
    BY <2>4, <2>6 DEF t, e
<1>8. [w EXCEPT ![h] = Tail(@)] = [w EXCEPT ![h] = Tail(w[h])]
  OBVIOUS
<1>9. \A k \in DOMAIN Tail(w[h]) : \E l \in DOMAIN w[h] : Tail(w[h])[k] = w[h][l]
  BY <1>5
<1>10. [w EXCEPT ![h] = Tail(w[h])] \in Wires /\ OnTheWire([w EXCEPT ![h] = Tail(w[h])], st)
  BY <1>4, <1>5, <1>9
<1>11. \A f \in {Append(w[h], Head(w[h])), Append(Tail(w[h]), Head(w[h]))} :
         [w EXCEPT ![h] = f] \in Wires /\ OnTheWire([w EXCEPT ![h] = f], st)
  BY <1>4, <1>6, <1>7
<1>12. QED
  BY <1>2, <1>3, <1>8, <1>10, <1>11

\* Streams only grow, so what is genuine stays genuine.
LEMMA GrowingStreams ==
  ASSUME NEW w \in Wires, NEW st \in Streams, NEW tt \in Streams, OnTheWire(w, st),
         \A h \in Hosts, n \in Numbers : st[h][n] <= tt[h][n]
  PROVE  OnTheWire(w, tt)
<1>1. SUFFICES ASSUME NEW h \in Hosts, NEW i \in DOMAIN w[h] PROVE Genuine(w[h][i], tt)
  BY DEF OnTheWire
<1> DEFINE s == w[h][i]
<1>2. s \in Frame /\ Genuine(s, st)
  BY DEF Wires, OnTheWire
<1> HIDE DEF s
<1>3. s.src \in Hosts /\ Len(s.data) \in Nat
  BY <1>2 DEF Frame
<1>4. ASSUME NEW n \in Numbers, NEW q \in 0 .. MaxBytes, q + Len(s.data) <= st[s.src][n]
      PROVE  q + Len(s.data) <= tt[s.src][n]
  BY <1>3, <1>4, SizeFacts DEF Streams
<1>5. Genuine(s, tt)
  BY <1>2, <1>4 DEF Genuine
<1>6. QED
  BY <1>5 DEF s

-----------------------------------------------------------------------------
(* One entry of one table *)

LEMMA DrawnOnce ==
  ASSUME NEW m \in DOMAIN ISNS, NEW n \in DOMAIN ISNS, ISNS[m] = ISNS[n]
  PROVE  m = n
<1>1. ISNS[m] - ISNS[n] = SEQ_MOD * 0 + 0 /\ 0 \in 0 .. MaxBytes
  BY NumberFacts, SizeFacts
<1>2. QED
  BY <1>1, Apart

LEMMA ReceivingGrows ==
  ASSUME NEW c \in Conn, NEW p \in SeqNo, NEW r \in Seq(Byte), NEW st \in Streams, NEW tt \in Streams,
         Receiving(c, p, r, st), \A h \in Hosts, n \in Numbers : st[h][n] <= tt[h][n]
  PROVE  Receiving(c, p, r, tt)
<1>1. ASSUME r # <<>>, FirstOf(r, c.remote_ip, p, st) PROVE FirstOf(r, c.remote_ip, p, tt)
  <2>1. c.remote_ip \in Hosts /\ p \in Numbers /\ Len(r) <= st[c.remote_ip][p] /\ Len(r) \in Nat
    BY <1>1 DEF FirstOf
  <2>2. st[c.remote_ip][p] \in Int /\ tt[c.remote_ip][p] \in Int /\ st[c.remote_ip][p] <= tt[c.remote_ip][p]
    BY <2>1, SizeFacts DEF Streams
  <2>3. Len(r) <= tt[c.remote_ip][p]
    BY <2>1, <2>2
  <2>4. QED
    BY <1>1, <2>3 DEF FirstOf
<1>2. QED
  BY <1>1 DEF Receiving

\* An action that changes one entry keeps the invariant when the entry's two
\* halves are right afterwards, no frame on the wire is made up, and only the
\* stream of that entry grows.
LEMMA EntryStep ==
  ASSUME Inv, NEW h \in Hosts, NEW i \in Slots, NEW c \in Conn, Store(h, i, c),
         draws' \in [Hosts -> 0 .. Len(ISNS)], \A g \in Hosts : draws[g] <= draws'[g],
         wire' \in Wires, OnTheWire(wire', stream'),
         stream' \in Streams,
         \A g \in Hosts, n \in Numbers : stream[g][n] <= stream'[g][n],
         \A g \in Hosts, n \in Numbers :
           stream[g][n] # stream'[g][n] => g = h /\ n = c.isn /\ Live(conns[h][i]) /\ n = conns[h][i].isn,
         peerISN' \in [Hosts -> [Slots -> SeqNo]], handed' \in [Hosts -> [Slots -> Seq(Byte)]],
         \A g \in Hosts, j \in Slots :
           g # h \/ j # i => peerISN'[g][j] = peerISN[g][j] /\ handed'[g][j] = handed[g][j],
         Receiving(c, peerISN'[h][i], handed'[h][i] \o c.rcv_buf, stream'),
         Live(c) => /\ Drawn(c.isn, draws'[h])
                    /\ c.snd_nxt = Plus(c.isn, 1 + stream'[h][c.isn])
                    /\ \A j \in Slots : Live(conns[h][j]) /\ j # i => conns[h][j].isn # c.isn
  PROVE  Inv'
<1>1. /\ conns' \in [Hosts -> [Slots -> Conn]] /\ conns'[h][i] = c
      /\ \A g \in Hosts, j \in Slots : g # h \/ j # i => conns'[g][j] = conns[g][j]
  BY DEF Store, Inv, TypeOK
<1>2. TypeOK'
  BY <1>1 DEF TypeOK, Wires
<1>3. OnTheWire(wire, stream)'
  BY DEF OnTheWire, Genuine
<1>4. ASSUME NEW g \in Hosts, NEW j \in Slots
      PROVE  Receiving(conns[g][j], peerISN[g][j], Received(g, j), stream)'
  <2>1. CASE g = h /\ j = i
    BY <2>1, <1>1 DEF Received, Receiving, FirstOf
  <2>2. CASE g # h \/ j # i
    <3>1. /\ Receiving(conns[g][j], peerISN[g][j], Received(g, j), stream)
          /\ conns[g][j] \in Conn /\ peerISN[g][j] \in SeqNo /\ stream \in Streams
          /\ handed[g][j] \in Seq(Byte)
      BY DEF Inv, TypeOK
    <3>2. Received(g, j) \in Seq(Byte)
      BY <3>1 DEF Received, Conn
    <3>3. Receiving(conns[g][j], peerISN[g][j], Received(g, j), stream')
      BY <3>1, <3>2, ReceivingGrows
    <3>4. /\ conns'[g][j] = conns[g][j] /\ peerISN'[g][j] = peerISN[g][j]
          /\ Received(g, j)' = Received(g, j)
      BY <2>2, <1>1 DEF Received
    <3>5. QED
      BY <3>3, <3>4 DEF Receiving, FirstOf
  <2>3. QED
    BY <2>1, <2>2
<1>5. ASSUME NEW g \in Hosts, NEW j \in Slots PROVE Sending(g, conns[g][j])'
  <2>1. CASE g = h /\ j = i
    BY <2>1, <1>1 DEF Sending, Live
  <2>2. CASE g # h \/ j # i
    <3>1. conns'[g][j] = conns[g][j] /\ Sending(g, conns[g][j])
      BY <2>2, <1>1 DEF Inv
    <3>2. SUFFICES ASSUME Live(conns[g][j])
                   PROVE  /\ Drawn(conns[g][j].isn, draws'[g])
                          /\ conns[g][j].snd_nxt = Plus(conns[g][j].isn, 1 + stream'[g][conns[g][j].isn])
      BY <3>1 DEF Sending, Live
    <3> DEFINE n == conns[g][j].isn
    <3>3. PICK k \in 1 .. draws[g] : n = ISNS[k]
      BY <3>1, <3>2 DEF Sending, Drawn
    <3>4. draws[g] \in 0 .. Len(ISNS) /\ draws'[g] \in 0 .. Len(ISNS) /\ draws[g] <= draws'[g]
      BY DEF Inv, TypeOK
    <3>5. k \in 1 .. draws'[g] /\ n \in Numbers
      <4>1. Len(ISNS) \in Nat /\ DOMAIN ISNS = 1 .. Len(ISNS)
        BY NumberFacts
      <4>2. k \in 1 .. draws'[g] /\ k \in 1 .. Len(ISNS)
        BY <3>4, <4>1
      <4>3. QED
        BY <3>3, <4>1, <4>2, NumberFacts
    <3>6. stream'[g][n] = stream[g][n]
      <4>1. SUFFICES ASSUME stream'[g][n] # stream[g][n] PROVE FALSE
        OBVIOUS
      <4>2. g = h /\ Live(conns[h][i]) /\ n = conns[h][i].isn
        BY <4>1, <3>5
      <4>3. QED
        BY <4>2, <2>2, <3>2 DEF Inv
    <3>7. QED
      BY <3>1, <3>2, <3>3, <3>5, <3>6 DEF Sending, Drawn
  <2>3. QED
    BY <2>1, <2>2
<1>6. ASSUME NEW g \in Hosts, NEW j \in Slots, NEW k \in Slots,
             Live(conns'[g][j]), Live(conns'[g][k]), j # k
      PROVE  conns'[g][j].isn # conns'[g][k].isn
  <2>1. CASE g = h /\ j = i
    BY <2>1, <1>1, <1>6
  <2>2. CASE g = h /\ k = i
    BY <2>2, <1>1, <1>6
  <2>3. CASE g # h \/ (j # i /\ k # i)
    <3>1. conns'[g][j] = conns[g][j] /\ conns'[g][k] = conns[g][k]
      BY <2>3, <1>1
    <3>2. Live(conns[g][j]) /\ Live(conns[g][k])
      BY <3>1, <1>6
    <3>3. QED
      BY <3>1, <3>2, <1>6 DEF Inv
  <2>4. QED
    BY <2>1, <2>2, <2>3
<1>7. ASSUME NEW g \in Hosts, NEW k \in draws'[g] + 1 .. Len(ISNS) PROVE stream'[g][ISNS[k]] = 0
  <2>1. draws[g] \in 0 .. Len(ISNS) /\ draws'[g] \in 0 .. Len(ISNS) /\ draws[g] <= draws'[g]
    BY DEF Inv, TypeOK
  <2>2. k \in draws[g] + 1 .. Len(ISNS) /\ k \in DOMAIN ISNS /\ ISNS[k] \in Numbers
    <3>1. Len(ISNS) \in Nat /\ DOMAIN ISNS = 1 .. Len(ISNS)
      BY NumberFacts
    <3>2. k \in draws[g] + 1 .. Len(ISNS) /\ k \in 1 .. Len(ISNS)
      BY <2>1, <3>1
    <3>3. QED
      BY <3>1, <3>2, NumberFacts
  <2>3. stream[g][ISNS[k]] = 0
    BY <2>2 DEF Inv
  <2>4. stream'[g][ISNS[k]] = stream[g][ISNS[k]]
    <3>1. SUFFICES ASSUME stream'[g][ISNS[k]] # stream[g][ISNS[k]] PROVE FALSE
      OBVIOUS
    <3>2. g = h /\ Live(conns[h][i]) /\ ISNS[k] = conns[h][i].isn
      BY <3>1, <2>2
    <3>3. PICK l \in 1 .. draws[g] : conns[h][i].isn = ISNS[l]
      BY <3>2 DEF Inv, Sending, Drawn
    <3>4. l \in DOMAIN ISNS
      BY <2>1, NumberFacts
    <3>5. l = k
      BY <3>2, <3>3, <3>4, <2>2, DrawnOnce
    <3>6. QED
      BY <3>5, <2>1, <2>2
  <2>5. QED
    BY <2>3, <2>4
<1>8. QED
  BY <1>2, <1>3, <1>4, <1>5, <1>6, <1>7 DEF Inv, Live

\* A segment without data says nothing of a stream.
LEMMA SentPlain ==
  ASSUME NEW w \in Wires, NEW st, OnTheWire(w, st), NEW h \in Hosts, NEW c \in Conn,
         c.remote_ip \in Hosts, NEW flags \in SUBSET {"SYN", "ACK", "FIN", "PSH"},
         "SYN" \in flags => c.snd_nxt \in Numbers
  PROVE  Sent(w, h, c, flags, <<>>) \in Wires /\ OnTheWire(Sent(w, h, c, flags, <<>>), st)
<1>1. <<>> \in Seq(Byte)
  OBVIOUS
<1>2. SegmentOf(h, c, flags, <<>>) \in Frame
  BY <1>1, SegmentType
<1>3. Genuine(SegmentOf(h, c, flags, <<>>), st)
  BY DEF Genuine, SegmentOf
<1>4. QED
  BY <1>2, <1>3, SentFacts

\* A number that is drawn now belongs to no stream and no connection yet.
LEMMA DrawFacts ==
  ASSUME Inv, NEW h \in Hosts, draws[h] < Len(ISNS), Draw(h)
  PROVE  /\ NextISN(h) \in Numbers /\ NextISN(h) \in SeqNo
         /\ stream[h][NextISN(h)] = 0
         /\ \A j \in Slots : Live(conns[h][j]) => conns[h][j].isn # NextISN(h)
         /\ draws' \in [Hosts -> 0 .. Len(ISNS)] /\ \A g \in Hosts : draws[g] <= draws'[g]
         /\ Drawn(NextISN(h), draws'[h])
<1> DEFINE d == draws[h]
<1>1. Len(ISNS) \in Nat /\ DOMAIN ISNS = 1 .. Len(ISNS)
  BY NumberFacts
<1>2. draws \in [Hosts -> 0 .. Len(ISNS)] /\ d \in 0 .. Len(ISNS) /\ d < Len(ISNS)
  BY DEF Inv, TypeOK
<1>3. d + 1 \in 1 .. Len(ISNS) /\ d + 1 \in d + 1 .. Len(ISNS) /\ NextISN(h) = ISNS[d + 1]
  BY <1>1, <1>2 DEF NextISN
<1>4. NextISN(h) \in Numbers /\ NextISN(h) \in SeqNo
  BY <1>1, <1>3, NumberFacts
<1>5. stream[h][NextISN(h)] = 0
  BY <1>3 DEF Inv
<1>6. draws' = [draws EXCEPT ![h] = d + 1]
  BY DEF Draw
<1>7. draws' \in [Hosts -> 0 .. Len(ISNS)] /\ \A g \in Hosts : draws[g] <= draws'[g]
  BY <1>1, <1>2, <1>3, <1>6
<1>8. draws'[h] = d + 1 /\ d + 1 \in 1 .. d + 1
  BY <1>2, <1>6
<1>9. Drawn(NextISN(h), draws'[h])
  BY <1>3, <1>8 DEF Drawn
<1>10. ASSUME NEW j \in Slots, Live(conns[h][j]) PROVE conns[h][j].isn # NextISN(h)
  <2>1. PICK k \in 1 .. d : conns[h][j].isn = ISNS[k]
    BY <1>10 DEF Inv, Sending, Drawn
  <2>2. k \in DOMAIN ISNS /\ d + 1 \in DOMAIN ISNS /\ k # d + 1
    BY <1>1, <1>2, <1>3
  <2>3. QED
    BY <2>1, <2>2, <1>3, DrawnOnce
<1>11. QED
  BY <1>4, <1>5, <1>7, <1>9, <1>10

\* What the invariant says of one entry.
LEMMA EntryFacts ==
  ASSUME Inv, NEW h \in Hosts, NEW i \in Slots
  PROVE  /\ conns[h][i] \in Conn /\ peerISN[h][i] \in SeqNo /\ handed[h][i] \in Seq(Byte)
         /\ conns[h][i].rcv_buf \in Seq(Byte)
         /\ Received(h, i) = handed[h][i] \o conns[h][i].rcv_buf /\ Received(h, i) \in Seq(Byte)
         /\ Receiving(conns[h][i], peerISN[h][i], Received(h, i), stream)
         /\ Sending(h, conns[h][i])
         /\ \A j \in Slots : Live(conns[h][i]) /\ Live(conns[h][j]) /\ j # i => conns[h][j].isn # conns[h][i].isn
<1>1. /\ conns[h][i] \in Conn /\ peerISN[h][i] \in SeqNo /\ handed[h][i] \in Seq(Byte)
  BY DEF Inv, TypeOK
<1>2. conns[h][i].rcv_buf \in Seq(Byte)
  BY <1>1 DEF Conn
<1>3. Received(h, i) \in Seq(Byte) /\ Received(h, i) = handed[h][i] \o conns[h][i].rcv_buf
  BY <1>1, <1>2 DEF Received
<1>4. \A j \in Slots : Live(conns[h][i]) /\ Live(conns[h][j]) /\ j # i => conns[h][j].isn # conns[h][i].isn
  BY DEF Inv
<1>5. QED
  BY <1>1, <1>2, <1>3, <1>4 DEF Inv

\* What it says of the state as a whole.
LEMMA StateFacts ==
  ASSUME Inv
  PROVE  /\ wire \in Wires /\ OnTheWire(wire, stream) /\ stream \in Streams
         /\ \A g \in Hosts, n \in Numbers : stream[g][n] <= stream[g][n]
         /\ draws \in [Hosts -> 0 .. Len(ISNS)] /\ \A g \in Hosts : draws[g] <= draws[g]
         /\ peerISN \in [Hosts -> [Slots -> SeqNo]] /\ handed \in [Hosts -> [Slots -> Seq(Byte)]]
<1>1. /\ wire \in Wires /\ stream \in Streams /\ draws \in [Hosts -> 0 .. Len(ISNS)]
      /\ peerISN \in [Hosts -> [Slots -> SeqNo]] /\ handed \in [Hosts -> [Slots -> Seq(Byte)]]
  BY DEF Inv, TypeOK, Wires
<1>2. \A g \in Hosts, n \in Numbers : stream[g][n] <= stream[g][n]
  BY <1>1, SizeFacts DEF Streams
<1>3. \A g \in Hosts : draws[g] <= draws[g]
  BY <1>1, NumberFacts
<1>4. QED
  BY <1>1, <1>2, <1>3 DEF Inv

\* An action that changes one entry and sends no data.
LEMMA QuietStep ==
  ASSUME Inv, NEW h \in Hosts, NEW i \in Slots, NEW c \in Conn, Store(h, i, c), UNCHANGED stream,
         draws' \in [Hosts -> 0 .. Len(ISNS)], \A g \in Hosts : draws[g] <= draws'[g],
         wire' \in Wires, OnTheWire(wire', stream),
         peerISN' \in [Hosts -> [Slots -> SeqNo]], handed' \in [Hosts -> [Slots -> Seq(Byte)]],
         \A g \in Hosts, j \in Slots :
           g # h \/ j # i => peerISN'[g][j] = peerISN[g][j] /\ handed'[g][j] = handed[g][j],
         Receiving(c, peerISN'[h][i], handed'[h][i] \o c.rcv_buf, stream),
         Live(c) => /\ Drawn(c.isn, draws'[h])
                    /\ c.snd_nxt = Plus(c.isn, 1 + stream[h][c.isn])
                    /\ \A j \in Slots : Live(conns[h][j]) /\ j # i => conns[h][j].isn # c.isn
  PROVE  Inv'
<1>1. stream' = stream
  OBVIOUS
<1>2. OnTheWire(wire', stream') /\ Receiving(c, peerISN'[h][i], handed'[h][i] \o c.rcv_buf, stream')
  BY <1>1
<1>3. stream' \in Streams /\ \A g \in Hosts, n \in Numbers : stream[g][n] <= stream'[g][n]
  BY <1>1, StateFacts
<1>4. \A g \in Hosts, n \in Numbers :
        stream[g][n] # stream'[g][n] => g = h /\ n = c.isn /\ Live(conns[h][i]) /\ n = conns[h][i].isn
  BY <1>1
<1>5. Live(c) => /\ Drawn(c.isn, draws'[h])
                 /\ c.snd_nxt = Plus(c.isn, 1 + stream'[h][c.isn])
                 /\ \A j \in Slots : Live(conns[h][j]) /\ j # i => conns[h][j].isn # c.isn
  BY <1>1
<1>6. QED
  BY <1>2, <1>3, <1>4, <1>5, EntryStep

-----------------------------------------------------------------------------
(* The steps *)

LEMMA ConnectStep ==
  ASSUME Inv, NEW h \in Hosts, NEW g \in Hosts, NEW dst_port \in Ports, NEW src_port \in Ports,
         Connect(h, g, dst_port, src_port)
  PROVE  Inv'
<1>1. PICK i \in Slots : Connect(h, g, dst_port, src_port)!(i)
  BY DEF Connect
<1> DEFINE n == NextISN(h)
           c == [conns[h][i] EXCEPT
                   !.used = TRUE, !.state = "SYN_SENT", !.remote_ip = g,
                   !.local_port = src_port, !.remote_port = dst_port,
                   !.snd_nxt = n, !.snd_una = n, !.rcv_nxt = 0, !.rcv_buf = <<>>, !.isn = n]
           d == [c EXCEPT !.snd_nxt = Plus(@, 1)]
           u == [c EXCEPT !.used = FALSE]
<1>2. /\ draws[h] < Len(ISNS) /\ Draw(h) /\ UNCHANGED <<faults, stream, peerISN>>
      /\ handed' = [handed EXCEPT ![h][i] = <<>>]
      /\ IF Busy(wire, c) THEN Store(h, i, u) /\ UNCHANGED wire
         ELSE Store(h, i, d) /\ wire' = Sent(wire, h, c, {"SYN"}, <<>>)
  BY <1>1
<1>3. n \in SeqNo /\ n \in Numbers /\ 0 \in SeqNo /\ <<>> \in Seq(Byte) /\ n + 0 \in Int
  BY <1>2, DrawFacts, SizeFacts DEF SeqNo
<1>4. conns[h][i] \in Conn
  BY EntryFacts
<1> HIDE DEF n
<1>5. /\ c \in Conn /\ c.state = "SYN_SENT" /\ c.remote_ip = g /\ c.rcv_buf = <<>> /\ c.isn = n
      /\ c.snd_nxt = n /\ c.used
  BY <1>3, <1>4 DEF Conn, States, Port
<1> HIDE DEF c
<1>6. Plus(n, 1) \in SeqNo
  BY <1>3, PlusFacts, SizeFacts
<1>7. /\ d \in Conn /\ d.state = "SYN_SENT" /\ d.remote_ip = g /\ d.rcv_buf = <<>> /\ d.isn = n
      /\ d.snd_nxt = Plus(n, 1)
  BY <1>5, <1>6 DEF Conn
<1>8. u \in Conn /\ ~u.used /\ u.state = "SYN_SENT" /\ u.remote_ip = g /\ u.rcv_buf = <<>> /\ u.isn = n
  BY <1>5 DEF Conn
<1> HIDE DEF d, u
<1>9. /\ handed' \in [Hosts -> [Slots -> Seq(Byte)]] /\ handed'[h][i] \o <<>> = <<>>
      /\ \A k \in Hosts, j \in Slots : k # h \/ j # i => handed'[k][j] = handed[k][j]
  <2>1. handed \in [Hosts -> [Slots -> Seq(Byte)]]
    BY StateFacts
  <2>2. handed'[h][i] = <<>>
    BY <2>1, <1>2
  <2>3. QED
    BY <2>1, <2>2, <1>2, <1>3
<1>10. wire' \in Wires /\ OnTheWire(wire', stream)
  <2>1. wire \in Wires /\ OnTheWire(wire, stream)
    BY StateFacts
  <2>2. Sent(wire, h, c, {"SYN"}, <<>>) \in Wires /\ OnTheWire(Sent(wire, h, c, {"SYN"}, <<>>), stream)
    BY <2>1, <1>3, <1>5, SentPlain
  <2>3. QED
    BY <2>1, <2>2, <1>2
<1>11. /\ draws' \in [Hosts -> 0 .. Len(ISNS)] /\ \A k \in Hosts : draws[k] <= draws'[k]
       /\ stream[h][n] = 0 /\ Drawn(n, draws'[h])
       /\ \A j \in Slots : Live(conns[h][j]) => conns[h][j].isn # n
  BY <1>2, DrawFacts DEF n
<1>12. /\ peerISN' \in [Hosts -> [Slots -> SeqNo]] /\ UNCHANGED stream
       /\ \A k \in Hosts, j \in Slots : k # h \/ j # i => peerISN'[k][j] = peerISN[k][j]
  BY <1>2, StateFacts
<1>13. CASE Busy(wire, c)
  <2>1. Receiving(u, peerISN'[h][i], handed'[h][i] \o u.rcv_buf, stream)
    BY <1>8, <1>9 DEF Receiving
  <2>2. Store(h, i, u) /\ ~Live(u)
    BY <1>2, <1>8, <1>13 DEF Live
  <2>3. QED
    BY <2>1, <2>2, <1>8, <1>9, <1>10, <1>11, <1>12, QuietStep
<1>14. CASE ~Busy(wire, c)
  <2>1. Receiving(d, peerISN'[h][i], handed'[h][i] \o d.rcv_buf, stream)
    BY <1>7, <1>9 DEF Receiving
  <2>2. Store(h, i, d)
    BY <1>2, <1>14
  <2>3. d.snd_nxt = Plus(d.isn, 1 + stream[h][d.isn])
    BY <1>7, <1>11
  <2>4. Drawn(d.isn, draws'[h]) /\ \A j \in Slots : Live(conns[h][j]) /\ j # i => conns[h][j].isn # d.isn
    BY <1>7, <1>11
  <2>5. QED
    BY <2>1, <2>2, <2>3, <2>4, <1>7, <1>9, <1>10, <1>11, <1>12, QuietStep
<1>15. QED
  BY <1>13, <1>14

LEMMA ListenStep ==
  ASSUME Inv, NEW h \in Hosts, NEW port \in Ports, Listen(h, port)
  PROVE  Inv'
<1>1. PICK i \in Slots : Listen(h, port)!(i)
  BY DEF Listen
<1> DEFINE c == [Unused EXCEPT !.used = TRUE, !.state = "SYN_RECV", !.local_port = port]
<1>2. /\ Store(h, i, c) /\ handed' = [handed EXCEPT ![h][i] = <<>>]
      /\ UNCHANGED <<draws, wire, faults, stream, peerISN>>
  BY <1>1
<1>3. 0 \in SeqNo /\ <<>> \in Seq(Byte)
  BY SizeFacts DEF SeqNo
<1>4. Unused \in Conn
  BY <1>3 DEF Unused, Conn, States, Port
<1>5. c \in Conn /\ c.state = "SYN_RECV" /\ c.rcv_buf = <<>>
  BY <1>4 DEF Unused, Conn, States, Port
<1> HIDE DEF c
<1>6. /\ handed' \in [Hosts -> [Slots -> Seq(Byte)]] /\ handed'[h][i] \o <<>> = <<>>
      /\ \A k \in Hosts, j \in Slots : k # h \/ j # i => handed'[k][j] = handed[k][j]
  <2>1. handed \in [Hosts -> [Slots -> Seq(Byte)]]
    BY StateFacts
  <2>2. handed'[h][i] = <<>>
    BY <2>1, <1>2
  <2>3. QED
    BY <2>1, <2>2, <1>2, <1>3
<1>7. Receiving(c, peerISN'[h][i], handed'[h][i] \o c.rcv_buf, stream) /\ ~Live(c)
  BY <1>5, <1>6 DEF Receiving, Live
<1>8. /\ wire' \in Wires /\ OnTheWire(wire', stream)
      /\ draws' \in [Hosts -> 0 .. Len(ISNS)] /\ \A k \in Hosts : draws[k] <= draws'[k]
      /\ peerISN' \in [Hosts -> [Slots -> SeqNo]] /\ UNCHANGED stream
      /\ \A k \in Hosts, j \in Slots : k # h \/ j # i => peerISN'[k][j] = peerISN[k][j]
  BY <1>2, StateFacts
<1>9. Store(h, i, c)
  BY <1>2
<1>10. QED
  BY <1>5, <1>6, <1>7, <1>8, <1>9, QuietStep

LEMMA SendStep ==
  ASSUME Inv, NEW h \in Hosts, NEW i \in Slots, NEW len \in 1 .. FRAME_DATA_MAX, Send(h, i, len)
  PROVE  Inv'
<1> DEFINE c == conns[h][i]
           n == c.isn
           q == stream[h][n]
           data == [k \in 1 .. len |-> <<h, n, q + k>>]
           d == [c EXCEPT !.snd_nxt = Plus(@, len)]
<1>1. /\ c.used /\ c.state = "ESTABLISHED" /\ q + len <= MaxBytes
      /\ wire' = Sent(wire, h, c, {"ACK", "PSH"}, data)
      /\ Store(h, i, d) /\ stream' = [stream EXCEPT ![h][n] = @ + len]
      /\ UNCHANGED <<draws, faults, peerISN, handed>>
  BY DEF Send
<1>2. /\ c \in Conn /\ Receiving(c, peerISN[h][i], Received(h, i), stream)
      /\ Received(h, i) = handed[h][i] \o c.rcv_buf /\ Received(h, i) \in Seq(Byte)
      /\ Sending(h, c) /\ peerISN[h][i] \in SeqNo
      /\ \A j \in Slots : Live(c) /\ Live(conns[h][j]) /\ j # i => conns[h][j].isn # c.isn
  BY EntryFacts
<1>3. Live(c) /\ Drawn(n, draws[h]) /\ c.snd_nxt = Plus(n, 1 + q) /\ c.remote_ip \in Hosts
  BY <1>1, <1>2 DEF Live, Sending, Receiving
<1>4. n \in Numbers /\ n \in Nat
  <2>1. PICK k \in 1 .. draws[h] : n = ISNS[k]
    BY <1>3 DEF Drawn
  <2>2. draws[h] \in 0 .. Len(ISNS) /\ Len(ISNS) \in Nat /\ DOMAIN ISNS = 1 .. Len(ISNS)
    BY StateFacts, NumberFacts
  <2>3. k \in 1 .. Len(ISNS)
    BY <2>2
  <2>4. QED
    BY <2>1, <2>2, <2>3, NumberFacts, SizeFacts
<1>5. stream \in [Hosts -> [Numbers -> 0 .. MaxBytes]] /\ q \in Nat /\ len \in Nat /\ len >= 1
  BY <1>4, StateFacts, SizeFacts, TcpAssumption DEF Streams
<1>6. q \in 0 .. MaxBytes /\ q + len \in 0 .. MaxBytes
  BY <1>1, <1>5, SizeFacts
<1>7. /\ Plus(n, 1 + q) \in SeqNo /\ Plus(c.snd_nxt, len) \in SeqNo
      /\ Plus(c.snd_nxt, len) = Plus(n, 1 + (q + len))
  <2> HIDE DEF n, q, c
  <2>1. QED
    BY <1>3, <1>4, <1>5, PlusMore
<1>8. /\ data \in Seq(Byte) /\ Len(data) = len
      /\ \A k \in 1 .. len : data[k] = <<h, n, q + k>>
  BY <1>4, <1>5 DEF Byte
<1>9. /\ stream' \in Streams /\ stream'[h][n] = q + len
      /\ \A g \in Hosts, m \in Numbers : g # h \/ m # n => stream'[g][m] = stream[g][m]
  BY <1>1, <1>4, <1>5, <1>6 DEF Streams
<1>10. /\ \A g \in Hosts, m \in Numbers : stream[g][m] <= stream'[g][m]
       /\ \A g \in Hosts, m \in Numbers : stream[g][m] # stream'[g][m] => g = h /\ m = n
  <2>1. ASSUME NEW g \in Hosts, NEW m \in Numbers
        PROVE  stream[g][m] <= stream'[g][m] /\ (stream[g][m] # stream'[g][m] => g = h /\ m = n)
    <3>1. stream[g][m] \in Nat
      BY <1>5, SizeFacts
    <3>2. CASE g = h /\ m = n
      BY <3>1, <3>2, <1>5, <1>9
    <3>3. CASE g # h \/ m # n
      BY <3>1, <3>3, <1>9
    <3>4. QED
      BY <3>2, <3>3
  <2>2. QED
    BY <2>1
<1>11. d \in Conn /\ d = [c EXCEPT !.snd_nxt = Plus(n, 1 + (q + len))]
  BY <1>2, <1>7 DEF Conn
<1> DEFINE s == SegmentOf(h, c, {"ACK", "PSH"}, data)
<1>12. s \in Frame /\ s.src = h /\ s.seq = Plus(n, 1 + q) /\ s.data = data /\ "SYN" \notin s.flags
  BY <1>2, <1>3, <1>8, SegmentType DEF SegmentOf
<1> HIDE DEF data, s, q, n, d, c
<1>13. Genuine(s, stream')
  <2>1. /\ s.seq = Plus(n, 1 + q) /\ q + Len(s.data) <= stream'[s.src][n]
        /\ \A k \in 1 .. Len(s.data) : s.data[k] = <<s.src, n, q + k>>
    BY <1>5, <1>8, <1>9, <1>12
  <2>2. QED
    BY <2>1, <1>4, <1>6, <1>12 DEF Genuine
<1>14. OnTheWire(wire, stream')
  BY <1>9, <1>10, StateFacts, GrowingStreams
<1>15. wire' \in Wires /\ OnTheWire(wire', stream')
  BY <1>1, <1>3, <1>12, <1>13, <1>14, StateFacts, SentFacts DEF s
<1>16. /\ d.state = "ESTABLISHED" /\ d.remote_ip = c.remote_ip /\ d.rcv_nxt = c.rcv_nxt
       /\ d.rcv_buf = c.rcv_buf /\ d.isn = n /\ d.snd_nxt = Plus(n, 1 + (q + len))
  BY <1>1, <1>2, <1>11 DEF Conn, n
<1>17. Receiving(d, peerISN'[h][i], handed'[h][i] \o d.rcv_buf, stream')
  <2>1. Receiving(c, peerISN[h][i], Received(h, i), stream')
    BY <1>2, <1>9, <1>10, StateFacts, ReceivingGrows
  <2>2. peerISN' = peerISN /\ handed' = handed
    BY <1>1
  <2>3. QED
    BY <2>1, <2>2, <1>1, <1>2, <1>16 DEF Receiving, FirstOf
<1>18. /\ Drawn(d.isn, draws'[h]) /\ d.snd_nxt = Plus(d.isn, 1 + stream'[h][d.isn])
       /\ \A j \in Slots : Live(conns[h][j]) /\ j # i => conns[h][j].isn # d.isn
  BY <1>1, <1>2, <1>3, <1>9, <1>16 DEF n
<1>19. /\ draws' \in [Hosts -> 0 .. Len(ISNS)] /\ \A g \in Hosts : draws[g] <= draws'[g]
       /\ peerISN' \in [Hosts -> [Slots -> SeqNo]] /\ handed' \in [Hosts -> [Slots -> Seq(Byte)]]
       /\ \A g \in Hosts, j \in Slots :
            g # h \/ j # i => peerISN'[g][j] = peerISN[g][j] /\ handed'[g][j] = handed[g][j]
  BY <1>1, StateFacts
<1>20. \A g \in Hosts, m \in Numbers :
         stream[g][m] # stream'[g][m] => g = h /\ m = d.isn /\ Live(conns[h][i]) /\ m = conns[h][i].isn
  BY <1>3, <1>10, <1>16 DEF n, c
<1>21. Store(h, i, d)
  BY <1>1
<1>22. QED
  BY <1>9, <1>10, <1>11, <1>15, <1>17, <1>18, <1>19, <1>20, <1>21, EntryStep, ZenonT(60)

LEMMA ThreeParts ==
  ASSUME NEW x \in Seq(Byte), NEW y \in Seq(Byte), NEW z \in Seq(Byte)
  PROVE  (x \o y) \o z = x \o (y \o z)
<1> DEFINE l == (x \o y) \o z
           r == x \o (y \o z)
<1>1. l \in Seq(Byte) /\ r \in Seq(Byte) /\ Len(l) = Len(r)
  OBVIOUS
<1>2. \A i \in 1 .. Len(l) : l[i] = r[i]
  OBVIOUS
<1> HIDE DEF l, r
<1>3. l = r
  BY <1>1, <1>2, SeqEqual
<1>4. QED
  BY <1>3 DEF l, r

LEMMA CutInTwo ==
  ASSUME NEW b \in Seq(Byte), NEW n \in 0 .. Len(b)
  PROVE  /\ SubSeq(b, 1, n) \in Seq(Byte) /\ SubSeq(b, n + 1, Len(b)) \in Seq(Byte)
         /\ SubSeq(b, 1, n) \o SubSeq(b, n + 1, Len(b)) = b
<1>1. SubSeq(b, 1, n) \in Seq(Byte) /\ SubSeq(b, n + 1, Len(b)) \in Seq(Byte)
  OBVIOUS
<1>2. 1 \in 1 .. Len(b) + 1 /\ n \in 1 - 1 .. Len(b) /\ Len(b) \in n .. Len(b)
  OBVIOUS
<1>3. SubSeq(b, 1, n) \o SubSeq(b, n + 1, Len(b)) = SubSeq(b, 1, Len(b))
  BY <1>2, ConcatAdjacentSubSeq
<1>4. SubSeq(b, 1, Len(b)) = b
  BY SubSeqFull
<1>5. QED
  BY <1>1, <1>3, <1>4

LEMMA RecvStep ==
  ASSUME Inv, NEW h \in Hosts, NEW i \in Slots, NEW maxlen \in 1 .. TCP_BUFFER_SIZE, Recv(h, i, maxlen)
  PROVE  Inv'
<1> DEFINE c == conns[h][i]
           b == c.rcv_buf
           copy == IF maxlen < Len(b) THEN maxlen ELSE Len(b)
           d == [c EXCEPT !.rcv_buf = SubSeq(b, copy + 1, Len(b))]
<1>1. /\ c.used /\ b # <<>>
      /\ handed' = [handed EXCEPT ![h][i] = @ \o SubSeq(b, 1, copy)]
      /\ Store(h, i, d) /\ UNCHANGED <<draws, wire, faults, stream, peerISN>>
  BY DEF Recv
<1>2. /\ c \in Conn /\ b \in Seq(Byte) /\ Receiving(c, peerISN[h][i], Received(h, i), stream)
      /\ Received(h, i) = handed[h][i] \o b /\ handed[h][i] \in Seq(Byte)
      /\ Sending(h, c) /\ peerISN[h][i] \in SeqNo
      /\ \A j \in Slots : Live(c) /\ Live(conns[h][j]) /\ j # i => conns[h][j].isn # c.isn
  BY EntryFacts
<1>3. copy \in 0 .. Len(b) /\ Len(b) \in Nat /\ copy \in Nat
  BY <1>2, TcpAssumption
<1> HIDE DEF copy
<1>4. /\ SubSeq(b, 1, copy) \in Seq(Byte) /\ SubSeq(b, copy + 1, Len(b)) \in Seq(Byte)
      /\ SubSeq(b, 1, copy) \o SubSeq(b, copy + 1, Len(b)) = b
  <2> HIDE DEF b
  <2>1. QED
    BY <1>2, <1>3, CutInTwo
<1> DEFINE a == SubSeq(b, 1, copy)
           z == SubSeq(b, copy + 1, Len(b))
<1>5. d \in Conn /\ d.rcv_buf = z /\ d = [c EXCEPT !.rcv_buf = z]
  BY <1>2, <1>4 DEF Conn
<1>6. /\ d.state = c.state /\ d.remote_ip = c.remote_ip /\ d.rcv_nxt = c.rcv_nxt
      /\ d.isn = c.isn /\ d.snd_nxt = c.snd_nxt /\ d.used = c.used
  BY <1>2, <1>5 DEF Conn
<1>14. a \in Seq(Byte) /\ z \in Seq(Byte) /\ a \o z = b
  BY <1>4
<1> HIDE DEF b, a, z, d
<1>7. /\ handed' \in [Hosts -> [Slots -> Seq(Byte)]] /\ handed'[h][i] = handed[h][i] \o a
      /\ \A g \in Hosts, j \in Slots : g # h \/ j # i => handed'[g][j] = handed[g][j]
  <2>1. handed \in [Hosts -> [Slots -> Seq(Byte)]] /\ handed[h][i] \o a \in Seq(Byte)
    BY <1>2, <1>14, StateFacts
  <2>2. handed' = [handed EXCEPT ![h][i] = @ \o a]
    BY <1>1 DEF a
  <2>3. QED
    BY <2>1, <2>2
<1>8. handed'[h][i] \o d.rcv_buf = Received(h, i)
  <2>1. (handed[h][i] \o a) \o z = handed[h][i] \o (a \o z)
    <3>1. handed[h][i] \in Seq(Byte) /\ a \in Seq(Byte) /\ z \in Seq(Byte)
      BY <1>2, <1>14
    <3>2. QED
      BY <3>1, ThreeParts
  <2>2. a \o z = b
    BY <1>14
  <2>3. QED
    BY <2>1, <2>2, <1>2, <1>5, <1>7
<1>9. Receiving(d, peerISN'[h][i], handed'[h][i] \o d.rcv_buf, stream)
  BY <1>1, <1>2, <1>6, <1>8 DEF Receiving, FirstOf
<1>10. /\ draws' \in [Hosts -> 0 .. Len(ISNS)] /\ \A g \in Hosts : draws[g] <= draws'[g]
       /\ wire' \in Wires /\ OnTheWire(wire', stream)
       /\ peerISN' \in [Hosts -> [Slots -> SeqNo]] /\ UNCHANGED stream
       /\ \A g \in Hosts, j \in Slots : g # h \/ j # i => peerISN'[g][j] = peerISN[g][j]
  BY <1>1, StateFacts
<1>11. Live(d) => /\ Drawn(d.isn, draws'[h]) /\ d.snd_nxt = Plus(d.isn, 1 + stream[h][d.isn])
                  /\ \A j \in Slots : Live(conns[h][j]) /\ j # i => conns[h][j].isn # d.isn
  BY <1>1, <1>2, <1>6 DEF Live, Sending
<1>12. Store(h, i, d) /\ d \in Conn
  BY <1>1, <1>5
<1>13. /\ handed' \in [Hosts -> [Slots -> Seq(Byte)]]
       /\ \A g \in Hosts, j \in Slots : g # h \/ j # i => handed'[g][j] = handed[g][j]
  BY <1>7
<1>15. QED
  BY <1>9, <1>10, <1>11, <1>12, <1>13, QuietStep

LEMMA CloseStep ==
  ASSUME Inv, NEW h \in Hosts, NEW i \in Slots, Close(h, i)
  PROVE  Inv'
<1> DEFINE c == conns[h][i]
           e == [c EXCEPT !.snd_nxt = Plus(@, 1), !.state = "FIN_WAIT1"]
           f == [c EXCEPT !.state = "CLOSED", !.used = FALSE]
<1>1. /\ IF c.state = "ESTABLISHED"
           THEN wire' = Sent(wire, h, c, {"FIN", "ACK"}, <<>>) /\ Store(h, i, e)
           ELSE Store(h, i, f) /\ UNCHANGED wire
      /\ UNCHANGED <<draws, faults, stream, peerISN, handed>>
  BY DEF Close, history
<1>2. /\ c \in Conn /\ Receiving(c, peerISN[h][i], Received(h, i), stream)
      /\ Received(h, i) = handed[h][i] \o c.rcv_buf
  BY EntryFacts
<1>3. Plus(c.snd_nxt, 1) \in SeqNo
  BY <1>2, PlusOne DEF Conn
<1>4. /\ e \in Conn /\ e.state = "FIN_WAIT1" /\ e.remote_ip = c.remote_ip /\ e.rcv_buf = c.rcv_buf
      /\ f \in Conn /\ f.state = "CLOSED" /\ f.remote_ip = c.remote_ip /\ f.rcv_buf = c.rcv_buf
  BY <1>2, <1>3 DEF Conn, States
<1> HIDE DEF c, e, f
<1>5. /\ draws' \in [Hosts -> 0 .. Len(ISNS)] /\ \A g \in Hosts : draws[g] <= draws'[g]
      /\ peerISN' \in [Hosts -> [Slots -> SeqNo]] /\ UNCHANGED stream
      /\ handed' \in [Hosts -> [Slots -> Seq(Byte)]]
      /\ \A g \in Hosts, j \in Slots :
           g # h \/ j # i => peerISN'[g][j] = peerISN[g][j] /\ handed'[g][j] = handed[g][j]
  BY <1>1, StateFacts
<1>6. peerISN'[h][i] = peerISN[h][i] /\ handed'[h][i] \o c.rcv_buf = Received(h, i)
  BY <1>1, <1>2
<1>7. CASE c.state = "ESTABLISHED"
  <2>1. c.remote_ip \in Hosts
    BY <1>2, <1>7 DEF Receiving
  <2>2. wire' \in Wires /\ OnTheWire(wire', stream)
    BY <2>1, <1>1, <1>2, <1>7, StateFacts, SentPlain
  <2>3. Receiving(e, peerISN'[h][i], handed'[h][i] \o e.rcv_buf, stream) /\ ~Live(e)
    BY <2>1, <1>2, <1>4, <1>6 DEF Receiving, Live
  <2>4. Store(h, i, e) /\ e \in Conn
    BY <1>1, <1>4, <1>7
  <2>5. QED
    BY <2>2, <2>3, <2>4, <1>5, QuietStep
<1>8. CASE c.state # "ESTABLISHED"
  <2>1. wire' \in Wires /\ OnTheWire(wire', stream)
    BY <1>1, <1>8, StateFacts
  <2>2. Receiving(f, peerISN'[h][i], handed'[h][i] \o f.rcv_buf, stream) /\ ~Live(f)
    BY <1>2, <1>4, <1>6 DEF Receiving, Live
  <2>3. Store(h, i, f) /\ f \in Conn
    BY <1>1, <1>4, <1>8
  <2>4. QED
    BY <2>1, <2>2, <2>3, <1>5, QuietStep
<1>9. QED
  BY <1>7, <1>8

-----------------------------------------------------------------------------
(* Frames that come in *)

\* What is taken from a segment is a first part of its data.
LEMMA CopyFacts ==
  ASSUME NEW c \in Conn, NEW s \in Frame
  PROVE  LET copy == IF InOrder(c, s) THEN Fitting(c, s) ELSE <<>>
         IN  /\ copy \in Seq(Byte)
             /\ copy = <<>> \/ (InOrder(c, s) /\ \E m \in 0 .. Len(s.data) : copy = SubSeq(s.data, 1, m))
<1> DEFINE space == TCP_BUFFER_SIZE - Len(c.rcv_buf)
           n == IF Len(s.data) < space THEN Len(s.data) ELSE space
<1>1. s.data \in Seq(Byte) /\ Len(s.data) \in Nat /\ c.rcv_buf \in Seq(Byte) /\ Len(c.rcv_buf) \in Nat
  BY DEF Conn, Frame
<1>2. n \in Int /\ n <= Len(s.data) /\ Fitting(c, s) = SubSeq(s.data, 1, n)
  BY <1>1, TcpAssumption DEF Fitting
<1> HIDE DEF n
<1>3. CASE n < 1
  <2>1. Fitting(c, s) = <<>>
    BY <1>1, <1>2, <1>3, SubSeqEmpty
  <2>2. QED
    BY <2>1
<1>4. CASE n >= 1
  <2>1. n \in 0 .. Len(s.data) /\ SubSeq(s.data, 1, n) \in Seq(Byte)
    BY <1>1, <1>2, <1>4
  <2>2. QED
    BY <2>1, <1>2
<1>5. QED
  BY <1>2, <1>3, <1>4

\* What is taken from a segment continues what was received before.
LEMMA Continues ==
  ASSUME NEW c \in Conn, NEW p \in SeqNo, NEW r \in Seq(Byte), NEW st \in Streams,
         Receiving(c, p, r, st), c.state = "ESTABLISHED",
         NEW s \in Frame, Genuine(s, st), FromPeer(c, s), NEW copy \in Seq(Byte),
         copy = <<>> \/ (InOrder(c, s) /\ \E m \in 0 .. Len(s.data) : copy = SubSeq(s.data, 1, m))
  PROVE  /\ r \o copy # <<>> => FirstOf(r \o copy, c.remote_ip, p, st)
         /\ Plus(c.rcv_nxt, Len(copy)) = Plus(p, 1 + Len(r \o copy))
<1>1. /\ p \in Numbers /\ c.rcv_nxt = Plus(p, 1 + Len(r)) /\ c.remote_ip = s.src /\ s.src \in Hosts
      /\ r # <<>> => FirstOf(r, s.src, p, st)
  BY DEF Receiving, FromPeer, Frame
<1>2. /\ Len(r) \in Nat /\ Len(copy) \in Nat /\ p \in Int /\ r \o copy \in Seq(Byte)
      /\ Len(r \o copy) = Len(r) + Len(copy)
  BY SizeFacts
<1>3. Plus(c.rcv_nxt, Len(copy)) = Plus(p, 1 + Len(r \o copy))
  BY <1>1, <1>2, PlusMore
<1>4. \A g \in Hosts, n \in Numbers : st[g][n] \in 0 .. MaxBytes
  BY DEF Streams
<1>5. CASE copy = <<>>
  <2>1. r \o copy = r
    BY <1>5
  <2>2. QED
    BY <2>1, <1>1, <1>3
<1>6. CASE copy # <<>>
  <2>1. PICK m \in 0 .. Len(s.data) : copy = SubSeq(s.data, 1, m)
    BY <1>6
  <2>2. s.data # <<>> /\ s.seq = c.rcv_nxt
    BY <1>6 DEF InOrder
  <2>3. PICK n \in Numbers, q \in 0 .. MaxBytes :
          /\ s.seq = Plus(n, 1 + q) /\ q + Len(s.data) <= st[s.src][n]
          /\ \A k \in 1 .. Len(s.data) : s.data[k] = <<s.src, n, q + k>>
    BY <2>2 DEF Genuine
  <2>4. Len(r) \in 0 .. MaxBytes
    <3>1. CASE r = <<>>
      BY <3>1, SizeFacts
    <3>2. CASE r # <<>>
      <4>1. Len(r) <= st[s.src][p]
        BY <3>2, <1>1 DEF FirstOf
      <4>2. QED
        BY <4>1, <1>1, <1>2, <1>4, SizeFacts
    <3>3. QED
      BY <3>1, <3>2
  <2>5. n = p /\ q = Len(r)
    <3>1. Plus(n, 1 + q) = Plus(p, 1 + Len(r))
      BY <2>2, <2>3, <1>1
    <3>2. QED
      BY <3>1, <2>4, <1>1, SamePlace
  <2>6. /\ s.data \in Seq(Byte) /\ Len(s.data) \in Nat /\ Len(copy) = m /\ m \in Nat /\ m <= Len(s.data)
        /\ \A k \in 1 .. m : copy[k] = s.data[k]
    BY <2>1 DEF Frame
  <2>7. Len(r \o copy) <= st[s.src][p]
    <3>1. Len(r) + Len(s.data) <= st[s.src][p] /\ st[s.src][p] \in Nat
      BY <2>3, <2>5, <1>1, <1>4, SizeFacts
    <3>2. Len(r \o copy) = Len(r) + m /\ Len(r) \in Nat
      BY <2>6, <1>2
    <3>3. QED
      BY <3>1, <3>2, <2>6
  <2>8. ASSUME NEW k \in 1 .. Len(r \o copy) PROVE (r \o copy)[k] = <<s.src, p, k>>
    <3>1. CASE k <= Len(r)
      <4>1. (r \o copy)[k] = r[k] /\ k \in 1 .. Len(r) /\ r # <<>>
        BY <3>1, <1>2
      <4>2. QED
        BY <4>1, <1>1 DEF FirstOf
    <3>2. CASE k > Len(r)
      <4>1. (r \o copy)[k] = copy[k - Len(r)] /\ k - Len(r) \in 1 .. Len(copy)
        BY <3>2, <1>2
      <4>2. k - Len(r) \in 1 .. m /\ k - Len(r) \in 1 .. Len(s.data)
        BY <4>1, <2>6
      <4>3. copy[k - Len(r)] = <<s.src, p, Len(r) + (k - Len(r))>>
        BY <4>2, <2>3, <2>5, <2>6
      <4>4. Len(r) + (k - Len(r)) = k
        BY <1>2
      <4>5. QED
        BY <4>1, <4>3, <4>4
    <3>3. QED
      BY <3>1, <3>2, <1>2
  <2>9. FirstOf(r \o copy, c.remote_ip, p, st)
    BY <2>7, <2>8, <1>1 DEF FirstOf
  <2>10. QED
    BY <2>9, <1>3
<1>7. QED
  BY <1>5, <1>6

\* The frame at the head of a wire.
LEMMA FrameFacts ==
  ASSUME Inv, NEW h \in Hosts, wire[h] # <<>>
  PROVE  /\ Head(wire[h]) \in Frame /\ Genuine(Head(wire[h]), stream)
         /\ Rest(h) \in Wires /\ OnTheWire(Rest(h), stream)
BY StateFacts, FewerFrames DEF Rest

LEMMA SynSentStep ==
  ASSUME Inv, NEW h \in Hosts, NEW i \in Slots, wire[h] # <<>>, NEW s, s = Head(wire[h]),
         Takes(conns[h][i], s), PollSynSent(h, i, s)
  PROVE  Inv'
<1> DEFINE b == conns[h][i]
           c == [b EXCEPT !.rcv_nxt = Plus(s.seq, 1), !.snd_una = s.ack, !.state = "ESTABLISHED"]
<1>1. /\ b.state = "SYN_SENT" /\ Store(h, i, c) /\ wire' = Sent(Rest(h), h, c, {"ACK"}, <<>>)
      /\ peerISN' = [peerISN EXCEPT ![h][i] = s.seq] /\ UNCHANGED <<draws, faults, stream, handed>>
  BY DEF PollSynSent
<1>2. s \in Frame /\ Genuine(s, stream) /\ Rest(h) \in Wires /\ OnTheWire(Rest(h), stream)
  BY FrameFacts
<1>3. b.used /\ "SYN" \in s.flags
  BY <1>1 DEF Takes
<1>4. /\ b \in Conn /\ Receiving(b, peerISN[h][i], Received(h, i), stream)
      /\ Received(h, i) = handed[h][i] \o b.rcv_buf /\ Sending(h, b)
      /\ \A j \in Slots : Live(b) /\ Live(conns[h][j]) /\ j # i => conns[h][j].isn # b.isn
  BY EntryFacts
<1>5. /\ s.seq \in Numbers /\ s.seq \in SeqNo /\ s.ack \in SeqNo /\ Plus(s.seq, 1) \in SeqNo
      /\ Plus(s.seq, 1) = Plus(s.seq, 1 + 0)
  BY <1>2, <1>3, PlusOne DEF Genuine, Frame
<1>6. /\ c \in Conn /\ c.state = "ESTABLISHED" /\ c.used = b.used /\ c.remote_ip = b.remote_ip /\ c.isn = b.isn
      /\ c.snd_nxt = b.snd_nxt /\ c.rcv_buf = b.rcv_buf /\ c.rcv_nxt = Plus(s.seq, 1)
  BY <1>4, <1>5 DEF Conn, States
<1> HIDE DEF b, c
<1>7. b.remote_ip \in Hosts /\ Received(h, i) = <<>> /\ Live(b)
  BY <1>1, <1>3, <1>4 DEF Receiving, Live
<1>8. wire' \in Wires /\ OnTheWire(wire', stream)
  BY <1>1, <1>2, <1>6, <1>7, SentPlain
<1>9. /\ peerISN' \in [Hosts -> [Slots -> SeqNo]] /\ peerISN'[h][i] = s.seq
      /\ \A g \in Hosts, j \in Slots : g # h \/ j # i => peerISN'[g][j] = peerISN[g][j]
  BY <1>1, <1>5, StateFacts
<1>10. handed'[h][i] \o c.rcv_buf = <<>>
  BY <1>1, <1>4, <1>6, <1>7
<1>11. Receiving(c, peerISN'[h][i], handed'[h][i] \o c.rcv_buf, stream)
  <2>1. Len(<<>>) = 0
    OBVIOUS
  <2>2. QED
    BY <2>1, <1>5, <1>6, <1>7, <1>9, <1>10 DEF Receiving
<1>12. /\ draws' \in [Hosts -> 0 .. Len(ISNS)] /\ \A g \in Hosts : draws[g] <= draws'[g]
       /\ UNCHANGED stream /\ handed' \in [Hosts -> [Slots -> Seq(Byte)]]
       /\ \A g \in Hosts, j \in Slots :
            g # h \/ j # i => peerISN'[g][j] = peerISN[g][j] /\ handed'[g][j] = handed[g][j]
  BY <1>1, <1>9, StateFacts
<1>13. /\ Drawn(c.isn, draws'[h]) /\ c.snd_nxt = Plus(c.isn, 1 + stream[h][c.isn])
       /\ \A j \in Slots : Live(conns[h][j]) /\ j # i => conns[h][j].isn # c.isn
  BY <1>1, <1>4, <1>6, <1>7 DEF Sending
<1>14. Store(h, i, c) /\ c \in Conn /\ peerISN' \in [Hosts -> [Slots -> SeqNo]]
  BY <1>1, <1>6, <1>9
<1>15. QED
  BY <1>8, <1>11, <1>12, <1>13, <1>14, QuietStep

LEMMA PollListenStep ==
  ASSUME Inv, NEW h \in Hosts, NEW i \in Slots, wire[h] # <<>>, NEW s, s = Head(wire[h]),
         Takes(conns[h][i], s), PollListen(h, i, s)
  PROVE  Inv'
<1> DEFINE n == NextISN(h)
           b == conns[h][i]
           c == [b EXCEPT !.remote_ip = s.src, !.remote_port = s.src_port,
                          !.rcv_nxt = Plus(s.seq, 1), !.snd_nxt = n, !.snd_una = n, !.isn = n]
           d == [c EXCEPT !.snd_nxt = Plus(@, 1), !.state = "ESTABLISHED"]
<1>1. /\ b.state = "SYN_RECV" /\ draws[h] < Len(ISNS) /\ Draw(h) /\ Store(h, i, d)
      /\ wire' = Sent(Rest(h), h, c, {"SYN", "ACK"}, <<>>)
      /\ peerISN' = [peerISN EXCEPT ![h][i] = s.seq] /\ UNCHANGED <<faults, stream, handed>>
  BY DEF PollListen
<1>2. s \in Frame /\ Genuine(s, stream) /\ Rest(h) \in Wires /\ OnTheWire(Rest(h), stream)
  BY FrameFacts
<1>3. "SYN" \in s.flags
  BY <1>1 DEF Takes
<1>4. /\ b \in Conn /\ Receiving(b, peerISN[h][i], Received(h, i), stream)
      /\ Received(h, i) = handed[h][i] \o b.rcv_buf
  BY EntryFacts
<1>5. /\ s.seq \in Numbers /\ s.seq \in SeqNo /\ Plus(s.seq, 1) \in SeqNo /\ s.src \in Hosts
      /\ s.src_port \in Port /\ Plus(s.seq, 1) = Plus(s.seq, 1 + 0)
  BY <1>2, <1>3, PlusOne DEF Genuine, Frame
<1>6. /\ draws' \in [Hosts -> 0 .. Len(ISNS)] /\ \A k \in Hosts : draws[k] <= draws'[k]
      /\ stream[h][n] = 0 /\ Drawn(n, draws'[h]) /\ n \in Numbers /\ n \in SeqNo
      /\ \A j \in Slots : Live(conns[h][j]) => conns[h][j].isn # n
  BY <1>1, DrawFacts
<1>7. Plus(n, 1) \in SeqNo /\ Plus(n, 1) = Plus(n, 1 + 0)
  BY <1>6, PlusOne
<1> HIDE DEF n, b
<1>8. /\ c \in Conn /\ c.remote_ip = s.src /\ c.rcv_nxt = Plus(s.seq, 1) /\ c.snd_nxt = n /\ c.isn = n
      /\ c.rcv_buf = b.rcv_buf
  BY <1>4, <1>5, <1>6 DEF Conn
<1> HIDE DEF c
<1>9. /\ d \in Conn /\ d.state = "ESTABLISHED" /\ d.remote_ip = s.src /\ d.rcv_nxt = Plus(s.seq, 1)
      /\ d.snd_nxt = Plus(n, 1) /\ d.isn = n /\ d.rcv_buf = b.rcv_buf
  BY <1>7, <1>8 DEF Conn, States
<1> HIDE DEF d
<1>10. wire' \in Wires /\ OnTheWire(wire', stream)
  BY <1>1, <1>2, <1>5, <1>6, <1>8, SentPlain
<1>11. /\ peerISN' \in [Hosts -> [Slots -> SeqNo]] /\ peerISN'[h][i] = s.seq
       /\ \A g \in Hosts, j \in Slots : g # h \/ j # i => peerISN'[g][j] = peerISN[g][j]
  BY <1>1, <1>5, StateFacts
<1>12. handed'[h][i] \o d.rcv_buf = <<>>
  BY <1>1, <1>4, <1>9 DEF Receiving
<1>13. Receiving(d, peerISN'[h][i], handed'[h][i] \o d.rcv_buf, stream)
  <2>1. Len(<<>>) = 0
    OBVIOUS
  <2>2. QED
    BY <2>1, <1>5, <1>9, <1>11, <1>12 DEF Receiving
<1>14. /\ UNCHANGED stream /\ handed' \in [Hosts -> [Slots -> Seq(Byte)]]
       /\ \A g \in Hosts, j \in Slots :
            g # h \/ j # i => peerISN'[g][j] = peerISN[g][j] /\ handed'[g][j] = handed[g][j]
  BY <1>1, <1>11, StateFacts
<1>15. /\ Drawn(d.isn, draws'[h]) /\ d.snd_nxt = Plus(d.isn, 1 + stream[h][d.isn])
       /\ \A j \in Slots : Live(conns[h][j]) /\ j # i => conns[h][j].isn # d.isn
  BY <1>6, <1>7, <1>9
<1>16. /\ Store(h, i, d) /\ d \in Conn /\ peerISN' \in [Hosts -> [Slots -> SeqNo]]
       /\ draws' \in [Hosts -> 0 .. Len(ISNS)] /\ \A k \in Hosts : draws[k] <= draws'[k]
  BY <1>1, <1>6, <1>9, <1>11
<1>17. QED
  BY <1>10, <1>13, <1>14, <1>15, <1>16, QuietStep

LEMMA PollEstablishedStep ==
  ASSUME Inv, NEW h \in Hosts, NEW i \in Slots, wire[h] # <<>>, NEW s, s = Head(wire[h]),
         Takes(conns[h][i], s), PollEstablished(h, i, s)
  PROVE  Inv'
<1> DEFINE c    == conns[h][i]
           copy == IF InOrder(c, s) THEN Fitting(c, s) ELSE <<>>
           d    == [c EXCEPT !.snd_una = IF "ACK" \in s.flags /\ s.ack > @ THEN s.ack ELSE @,
                             !.rcv_buf = @ \o copy,
                             !.rcv_nxt = Plus(@, Len(copy))]
           w    == IF InOrder(c, s) THEN Sent(Rest(h), h, d, {"ACK"}, <<>>) ELSE Rest(h)
           f    == [d EXCEPT !.rcv_nxt = Plus(@, 1)]
           e    == [f EXCEPT !.snd_nxt = Plus(@, 1), !.state = "LAST_ACK"]
           r    == Received(h, i)
           p    == peerISN[h][i]
<1>1. /\ c.state = "ESTABLISHED"
      /\ IF "FIN" \in s.flags
           THEN wire' = Sent(Sent(w, h, f, {"ACK"}, <<>>), h, f, {"FIN", "ACK"}, <<>>) /\ Store(h, i, e)
           ELSE wire' = w /\ Store(h, i, d)
      /\ UNCHANGED <<draws, faults, stream, peerISN, handed>>
  BY DEF PollEstablished, history
<1>2. s \in Frame /\ Genuine(s, stream) /\ Rest(h) \in Wires /\ OnTheWire(Rest(h), stream)
  BY FrameFacts
<1>3. c.used /\ FromPeer(c, s)
  BY <1>1 DEF Takes
<1>4. /\ c \in Conn /\ p \in SeqNo /\ r \in Seq(Byte) /\ Receiving(c, p, r, stream)
      /\ r = handed[h][i] \o c.rcv_buf /\ handed[h][i] \in Seq(Byte) /\ c.rcv_buf \in Seq(Byte)
      /\ Sending(h, c)
      /\ \A j \in Slots : Live(c) /\ Live(conns[h][j]) /\ j # i => conns[h][j].isn # c.isn
  BY EntryFacts
<1>5. /\ copy \in Seq(Byte)
      /\ copy = <<>> \/ (InOrder(c, s) /\ \E m \in 0 .. Len(s.data) : copy = SubSeq(s.data, 1, m))
  BY <1>2, <1>4, CopyFacts
<1> HIDE DEF copy
<1>6. stream \in Streams
  BY StateFacts
<1>7. /\ r \o copy # <<>> => FirstOf(r \o copy, c.remote_ip, p, stream)
      /\ Plus(c.rcv_nxt, Len(copy)) = Plus(p, 1 + Len(r \o copy))
  <2> HIDE DEF c, r, p
  <2>1. /\ c \in Conn /\ p \in SeqNo /\ r \in Seq(Byte) /\ stream \in Streams
        /\ Receiving(c, p, r, stream) /\ c.state = "ESTABLISHED"
        /\ s \in Frame /\ Genuine(s, stream) /\ FromPeer(c, s) /\ copy \in Seq(Byte)
    BY <1>1, <1>2, <1>3, <1>4, <1>5, <1>6
  <2>2. copy = <<>> \/ (InOrder(c, s) /\ \E m \in 0 .. Len(s.data) : copy = SubSeq(s.data, 1, m))
    BY <1>5
  <2>3. QED
    BY <2>1, <2>2, Continues
<1>8. Plus(c.rcv_nxt, Len(copy)) \in SeqNo
  <2>1. c.rcv_nxt \in SeqNo /\ Len(copy) \in Nat
    BY <1>4, <1>5 DEF Conn
  <2> DEFINE n == c.rcv_nxt
             l == Len(copy)
  <2> HIDE DEF n, l
  <2>2. n \in Int /\ l \in Int
    BY <2>1, SizeFacts DEF n, l
  <2>3. Plus(n, l) \in SeqNo
    BY <2>2, PlusType
  <2>4. QED
    BY <2>3 DEF n, l
<1>9. /\ d \in Conn /\ d.state = "ESTABLISHED" /\ d.used = c.used /\ d.remote_ip = c.remote_ip /\ d.isn = c.isn
      /\ d.snd_nxt = c.snd_nxt /\ d.rcv_buf = c.rcv_buf \o copy /\ d.rcv_nxt = Plus(c.rcv_nxt, Len(copy))
  <2>1. c.rcv_buf \o copy \in Seq(Byte)
    BY <1>4, <1>5
  <2>2. s.ack \in SeqNo /\ c.snd_una \in SeqNo
    BY <1>2, <1>4 DEF Conn, Frame
  <2>3. QED
    BY <2>1, <2>2, <1>1, <1>4, <1>8 DEF Conn
<1> HIDE DEF d
<1>10. f \in Conn /\ f.remote_ip = d.remote_ip /\ f.rcv_buf = d.rcv_buf
  <2>1. Plus(d.rcv_nxt, 1) \in SeqNo
    BY <1>9, PlusOne DEF Conn
  <2>2. QED
    BY <2>1, <1>9 DEF Conn
<1> HIDE DEF f
<1>11. e \in Conn /\ e.state = "LAST_ACK" /\ e.remote_ip = d.remote_ip /\ e.rcv_buf = d.rcv_buf
  <2>1. Plus(f.snd_nxt, 1) \in SeqNo
    BY <1>10, PlusOne DEF Conn
  <2>2. QED
    BY <2>1, <1>10 DEF Conn, States
<1> HIDE DEF e, c, r, p
<1>12. c.remote_ip \in Hosts
  BY <1>1, <1>4 DEF Receiving
<1>13. w \in Wires /\ OnTheWire(w, stream)
  <2>1. Sent(Rest(h), h, d, {"ACK"}, <<>>) \in Wires /\ OnTheWire(Sent(Rest(h), h, d, {"ACK"}, <<>>), stream)
    BY <1>2, <1>9, <1>12, SentPlain
  <2>2. QED
    BY <2>1, <1>2
<1> HIDE DEF w
<1>14. handed'[h][i] \o d.rcv_buf = r \o copy /\ p \in Numbers /\ peerISN'[h][i] = p
  <2>1. handed'[h][i] \o d.rcv_buf = handed[h][i] \o (c.rcv_buf \o copy)
    BY <1>1, <1>9
  <2>2. (handed[h][i] \o c.rcv_buf) \o copy = handed[h][i] \o (c.rcv_buf \o copy)
    BY <1>4, <1>5, ThreeParts
  <2>3. p \in Numbers
    BY <1>1, <1>4 DEF Receiving
  <2>4. QED
    BY <2>1, <2>2, <2>3, <1>1, <1>4 DEF p
<1>15. /\ draws' \in [Hosts -> 0 .. Len(ISNS)] /\ \A g \in Hosts : draws[g] <= draws'[g]
       /\ peerISN' \in [Hosts -> [Slots -> SeqNo]] /\ UNCHANGED stream
       /\ handed' \in [Hosts -> [Slots -> Seq(Byte)]]
       /\ \A g \in Hosts, j \in Slots :
            g # h \/ j # i => peerISN'[g][j] = peerISN[g][j] /\ handed'[g][j] = handed[g][j]
  BY <1>1, StateFacts
<1>16. CASE "FIN" \in s.flags
  <2>1. Sent(w, h, f, {"ACK"}, <<>>) \in Wires /\ OnTheWire(Sent(w, h, f, {"ACK"}, <<>>), stream)
    BY <1>9, <1>10, <1>12, <1>13, SentPlain
  <2> DEFINE v == Sent(w, h, f, {"ACK"}, <<>>)
  <2> HIDE DEF v
  <2>2. v \in Wires /\ OnTheWire(v, stream)
    BY <2>1 DEF v
  <2>3. Sent(v, h, f, {"FIN", "ACK"}, <<>>) \in Wires /\ OnTheWire(Sent(v, h, f, {"FIN", "ACK"}, <<>>), stream)
    BY <2>2, <1>9, <1>10, <1>12, SentPlain
  <2>4. wire' = Sent(v, h, f, {"FIN", "ACK"}, <<>>) /\ Store(h, i, e)
    BY <1>1, <1>16 DEF v
  <2>5. Receiving(e, peerISN'[h][i], handed'[h][i] \o e.rcv_buf, stream) /\ ~Live(e)
    BY <1>7, <1>9, <1>11, <1>12, <1>14 DEF Receiving, Live
  <2>6. wire' \in Wires /\ OnTheWire(wire', stream) /\ e \in Conn
    BY <2>3, <2>4, <1>11
  <2>7. Store(h, i, e)
    BY <2>4
  <2>8. QED
    BY <2>5, <2>6, <2>7, <1>15, QuietStep
<1>17. CASE "FIN" \notin s.flags
  <2>1. wire' = w /\ Store(h, i, d)
    BY <1>1, <1>17
  <2>2. Receiving(d, peerISN'[h][i], handed'[h][i] \o d.rcv_buf, stream)
    BY <1>7, <1>9, <1>12, <1>14 DEF Receiving
  <2>3. Live(c) /\ Live(d)
    BY <1>1, <1>3, <1>9 DEF Live
  <2>4. /\ Drawn(d.isn, draws'[h]) /\ d.snd_nxt = Plus(d.isn, 1 + stream[h][d.isn])
        /\ \A j \in Slots : Live(conns[h][j]) /\ j # i => conns[h][j].isn # d.isn
    BY <2>3, <1>1, <1>4, <1>9 DEF Sending
  <2>5. wire' \in Wires /\ OnTheWire(wire', stream) /\ d \in Conn
    BY <2>1, <1>9, <1>13
  <2>6. Store(h, i, d)
    BY <2>1
  <2>7. QED
    BY <2>2, <2>4, <2>5, <2>6, <1>15, QuietStep
<1>18. QED
  BY <1>16, <1>17

\* An acknowledged good-bye only changes the state of its entry.
LEMMA GoodbyeStep ==
  ASSUME Inv, NEW h \in Hosts, NEW i \in Slots, wire[h] # <<>>, NEW s, s = Head(wire[h]),
         PollLastAck(h, i) \/ PollFinWait1(h, i, s)
  PROVE  Inv'
<1> DEFINE c == conns[h][i]
           d == [c EXCEPT !.state = "CLOSED", !.used = FALSE]
           f == [c EXCEPT !.rcv_nxt = Plus(@, 1), !.state = "CLOSED", !.used = FALSE]
           e == [c EXCEPT !.state = "FIN_WAIT2"]
<1>1. /\ \/ Store(h, i, d) /\ wire' = Rest(h)
         \/ Store(h, i, e) /\ wire' = Rest(h)
         \/ Store(h, i, f) /\ wire' = Sent(Rest(h), h, f, {"ACK"}, <<>>) /\ c.state = "FIN_WAIT1"
      /\ UNCHANGED <<draws, faults, stream, peerISN, handed>>
  BY DEF PollLastAck, PollFinWait1, history
<1>2. Rest(h) \in Wires /\ OnTheWire(Rest(h), stream)
  BY FrameFacts
<1>3. /\ c \in Conn /\ Receiving(c, peerISN[h][i], Received(h, i), stream)
      /\ Received(h, i) = handed[h][i] \o c.rcv_buf
  BY EntryFacts
<1>4. Plus(c.rcv_nxt, 1) \in SeqNo
  BY <1>3, PlusOne DEF Conn
<1>5. \A x \in {d, e, f} : /\ x \in Conn /\ x.state \in {"CLOSED", "FIN_WAIT2"}
                           /\ x.remote_ip = c.remote_ip /\ x.rcv_buf = c.rcv_buf
  <2> DEFINE Stopped(x) == /\ x \in Conn /\ x.state \in {"CLOSED", "FIN_WAIT2"}
                           /\ x.remote_ip = c.remote_ip /\ x.rcv_buf = c.rcv_buf
  <2>1. c \in Conn
    BY <1>3
  <2> HIDE DEF c
  <2>2. Stopped(d)
    BY <2>1 DEF Conn, States
  <2>3. Stopped(f)
    BY <2>1, <1>4 DEF Conn, States
  <2>4. Stopped(e)
    BY <2>1 DEF Conn, States
  <2>5. QED
    <3> HIDE DEF d, e, f
    <3>1. QED
      BY <2>2, <2>3, <2>4
<1> HIDE DEF c, d, e, f
<1>6. PICK x \in {d, e, f} : Store(h, i, x)
  BY <1>1
<1>7. wire' \in Wires /\ OnTheWire(wire', stream)
  <2>1. CASE wire' = Rest(h)
    BY <2>1, <1>2
  <2>2. CASE wire' = Sent(Rest(h), h, f, {"ACK"}, <<>>) /\ c.state = "FIN_WAIT1"
    <3>1. f.remote_ip \in Hosts /\ f \in Conn
      BY <2>2, <1>3, <1>5 DEF Receiving
    <3>2. Sent(Rest(h), h, f, {"ACK"}, <<>>) \in Wires /\ OnTheWire(Sent(Rest(h), h, f, {"ACK"}, <<>>), stream)
      BY <3>1, <1>2, SentPlain
    <3>3. QED
      BY <3>2, <2>2
  <2>3. QED
    BY <2>1, <2>2, <1>1
<1>8. peerISN'[h][i] = peerISN[h][i] /\ handed'[h][i] \o x.rcv_buf = Received(h, i)
  BY <1>1, <1>3, <1>5
<1>9. Receiving(x, peerISN'[h][i], handed'[h][i] \o x.rcv_buf, stream) /\ ~Live(x) /\ x \in Conn
  BY <1>3, <1>5, <1>8 DEF Receiving, Live
<1>10. /\ draws' \in [Hosts -> 0 .. Len(ISNS)] /\ \A g \in Hosts : draws[g] <= draws'[g]
       /\ peerISN' \in [Hosts -> [Slots -> SeqNo]] /\ UNCHANGED stream
       /\ handed' \in [Hosts -> [Slots -> Seq(Byte)]]
       /\ \A g \in Hosts, j \in Slots :
            g # h \/ j # i => peerISN'[g][j] = peerISN[g][j] /\ handed'[g][j] = handed[g][j]
  BY <1>1, StateFacts
<1>11. QED
  BY <1>6, <1>7, <1>9, <1>10, QuietStep

\* Frames that are dropped, lost, duplicated or delayed change no connection.
LEMMA WireStep ==
  ASSUME Inv, UNCHANGED <<conns, draws, history>>, wire' \in Wires, OnTheWire(wire', stream)
  PROVE  Inv'
<1>1. conns' = conns /\ draws' = draws /\ stream' = stream /\ peerISN' = peerISN /\ handed' = handed
  BY DEF history
<1>2. TypeOK'
  BY <1>1 DEF Inv, TypeOK, Wires
<1>3. OnTheWire(wire', stream')
  BY <1>1
<1>4. \A h \in Hosts, i \in Slots :
        Receiving(conns'[h][i], peerISN'[h][i], handed'[h][i] \o conns'[h][i].rcv_buf, stream')
  BY <1>1 DEF Inv, Received
<1>5. OnTheWire(wire, stream)'
  BY <1>3 DEF OnTheWire, Genuine
<1>6. (\A h \in Hosts, i \in Slots : Receiving(conns[h][i], peerISN[h][i], Received(h, i), stream))'
  BY <1>4 DEF Received, Receiving, FirstOf
<1>7. (\A h \in Hosts, i \in Slots : Sending(h, conns[h][i]))'
  BY <1>1 DEF Inv, Sending, Drawn, Live
<1>8. (\A h \in Hosts, i, j \in Slots :
         Live(conns[h][i]) /\ Live(conns[h][j]) /\ i # j => conns[h][i].isn # conns[h][j].isn)'
  BY <1>1 DEF Inv, Live
<1>9. (\A h \in Hosts : \A k \in draws[h] + 1 .. Len(ISNS) : stream[h][ISNS[k]] = 0)'
  BY <1>1 DEF Inv
<1>10. QED
  BY <1>2, <1>5, <1>6, <1>7, <1>8, <1>9 DEF Inv

LEMMA PollStep ==
  ASSUME Inv, NEW h \in Hosts, Poll(h)
  PROVE  Inv'
<1> DEFINE s == Head(wire[h])
<1>1. wire[h] # <<>>
  BY DEF Poll
<1>2. CASE PollDrop(h, s)
  <2>1. wire' \in Wires /\ OnTheWire(wire', stream) /\ UNCHANGED <<conns, draws, history>>
    BY <1>1, <1>2, FrameFacts DEF PollDrop
  <2>2. QED
    BY <2>1, WireStep
<1>3. ASSUME NEW i \in Slots, TakenBy(h, s, i),
             \/ PollSynSent(h, i, s) \/ PollListen(h, i, s) \/ PollEstablished(h, i, s)
             \/ PollLastAck(h, i) \/ PollFinWait1(h, i, s)
      PROVE  Inv'
  <2>1. Takes(conns[h][i], s)
    BY <1>3 DEF TakenBy
  <2>2. CASE PollSynSent(h, i, s)
    BY <2>1, <2>2, <1>1, SynSentStep
  <2>3. CASE PollListen(h, i, s)
    BY <2>1, <2>3, <1>1, PollListenStep
  <2>4. CASE PollEstablished(h, i, s)
    BY <2>1, <2>4, <1>1, PollEstablishedStep
  <2>5. CASE PollLastAck(h, i) \/ PollFinWait1(h, i, s)
    BY <2>5, <1>1, GoodbyeStep
  <2>6. QED
    BY <2>2, <2>3, <2>4, <2>5, <1>3
<1>4. QED
  BY <1>2, <1>3 DEF Poll

LEMMA FaultStep ==
  ASSUME Inv, NEW h \in Hosts, Lose(h) \/ Duplicate(h) \/ Delay(h)
  PROVE  Inv'
<1>1. wire[h] # <<>>
  BY StateFacts DEF Lose, Duplicate, Delay, Wires
<1>2. UNCHANGED <<conns, draws, history>>
  BY DEF Lose, Duplicate, Delay, Fault
<1>3. \/ wire' = [wire EXCEPT ![h] = Tail(@)]
      \/ wire' = [wire EXCEPT ![h] = Append(wire[h], Head(wire[h]))]
      \/ wire' = [wire EXCEPT ![h] = Append(Tail(wire[h]), Head(wire[h]))]
  BY DEF Lose, Duplicate, Delay, Fault
<1>4. wire' \in Wires /\ OnTheWire(wire', stream)
  <2>1. wire \in Wires /\ OnTheWire(wire, stream)
    BY StateFacts
  <2>2. CASE wire' = [wire EXCEPT ![h] = Tail(@)]
    BY <2>1, <2>2, <1>1, FewerFrames
  <2>3. \A f \in {Append(wire[h], Head(wire[h])), Append(Tail(wire[h]), Head(wire[h]))} :
          [wire EXCEPT ![h] = f] \in Wires /\ OnTheWire([wire EXCEPT ![h] = f], stream)
    BY <2>1, <1>1, FewerFrames
  <2>4. CASE wire' = [wire EXCEPT ![h] = Append(wire[h], Head(wire[h]))]
    BY <2>3, <2>4
  <2>5. CASE wire' = [wire EXCEPT ![h] = Append(Tail(wire[h]), Head(wire[h]))]
    BY <2>3, <2>5
  <2>6. QED
    BY <2>2, <2>4, <2>5, <1>3
<1>5. QED
  BY <1>2, <1>4, WireStep

-----------------------------------------------------------------------------
(* The theorems *)

LEMMA InvInit ==
  ASSUME Init
  PROVE  Inv
<1>1. 0 \in SeqNo /\ 0 \in 0 .. MaxBytes /\ 0 \in 0 .. Len(ISNS) /\ Len(ISNS) \in Nat
  BY SizeFacts, NumberFacts DEF SeqNo
<1>2. Unused \in Conn
  BY <1>1 DEF Unused, Conn, States, Port
<1>3. Range(ISNS) = Numbers
  BY DEF Numbers
<1>4. TypeOK
  BY <1>1, <1>2, <1>3 DEF Init, TypeOK, Streams
<1>5. \A h \in Hosts : wire[h] = <<>>
  BY DEF Init
<1>6. OnTheWire(wire, stream)
  BY <1>5 DEF OnTheWire
<1>7. \A h \in Hosts, i \in Slots :
        /\ conns[h][i] = Unused /\ ~Live(conns[h][i]) /\ conns[h][i].state = "CLOSED"
        /\ Received(h, i) = <<>>
  BY DEF Init, Unused, Live, Received
<1>8. \A h \in Hosts, i \in Slots : Receiving(conns[h][i], peerISN[h][i], Received(h, i), stream)
  BY <1>7 DEF Receiving
<1>9. ASSUME NEW h \in Hosts, NEW k \in draws[h] + 1 .. Len(ISNS) PROVE stream[h][ISNS[k]] = 0
  <2>1. draws[h] = 0
    BY DEF Init
  <2>2. k \in 1 .. Len(ISNS)
    BY <2>1
  <2>3. ISNS[k] \in Numbers
    BY <2>2, NumberFacts
  <2>4. QED
    BY <2>3, <1>3 DEF Init
<1>10. QED
  BY <1>4, <1>6, <1>7, <1>8, <1>9 DEF Inv, Sending

LEMMA InvNext ==
  ASSUME Inv, [Next]_vars
  PROVE  Inv'
<1>1. CASE UNCHANGED vars
  <2>1. UNCHANGED <<conns, draws, history>> /\ wire' = wire
    BY <1>1 DEF vars, history
  <2>2. wire' \in Wires /\ OnTheWire(wire', stream)
    BY <2>1, StateFacts
  <2>3. QED
    BY <2>1, <2>2, WireStep
<1>2. CASE Next
  <2>1. PICK h \in Hosts : Next!(h)
    BY <1>2 DEF Next
  <2>2. \A link \in Links : link[1] \in Hosts /\ link[2] \in Hosts
    BY TcpAssumption
  <2>3. ASSUME NEW link \in Links, NEW src_port \in Ports, NEW dst_port \in Ports,
               Connect(h, link[2], dst_port, src_port)
        PROVE  Inv'
    BY <2>2, <2>3, ConnectStep
  <2>4. ASSUME NEW port \in Ports, Listen(h, port) PROVE Inv'
    BY <2>4, ListenStep
  <2>5. ASSUME NEW i \in Slots, NEW len \in 1 .. FRAME_DATA_MAX, Send(h, i, len) PROVE Inv'
    BY <2>5, SendStep
  <2>6. ASSUME NEW i \in Slots, NEW maxlen \in 1 .. TCP_BUFFER_SIZE, Recv(h, i, maxlen) PROVE Inv'
    BY <2>6, RecvStep
  <2>7. ASSUME NEW i \in Slots, Close(h, i) PROVE Inv'
    BY <2>7, CloseStep
  <2>8. CASE Poll(h)
    BY <2>8, PollStep
  <2>9. CASE Lose(h) \/ Duplicate(h) \/ Delay(h)
    BY <2>9, FaultStep
  <2>10. QED
    BY <2>1, <2>3, <2>4, <2>5, <2>6, <2>7, <2>8, <2>9
<1>3. QED
  BY <1>1, <1>2

\* The invariant holds in every reachable state of the model of tcp.c.
THEOREM Invariant == Spec => []Inv
<1>1. Init => Inv
  BY InvInit
<1>2. Inv /\ [Next]_vars => Inv'
  BY InvNext
<1>3. QED
  BY <1>1, <1>2, PTL DEF Spec

LEMMA InvPrefix ==
  ASSUME Inv
  PROVE  Prefix
<1>1. SUFFICES ASSUME NEW h \in Hosts, NEW i \in Slots, Received(h, i) # <<>>
               PROVE  /\ Len(Received(h, i)) <= stream[conns[h][i].remote_ip][peerISN[h][i]]
                      /\ Received(h, i) = [k \in 1 .. Len(Received(h, i)) |->
                                             <<conns[h][i].remote_ip, peerISN[h][i], k>>]
  BY DEF Prefix
<1> DEFINE r == Received(h, i)
           g == conns[h][i].remote_ip
           p == peerISN[h][i]
<1>2. r \in Seq(Byte) /\ FirstOf(r, g, p, stream)
  BY <1>1, EntryFacts DEF Receiving
<1>3. Len(r) <= stream[g][p] /\ \A k \in 1 .. Len(r) : r[k] = <<g, p, k>>
  BY <1>2 DEF FirstOf
<1> HIDE DEF r, g, p
<1>4. r = [k \in 1 .. Len(r) |-> <<g, p, k>>]
  <2>1. r \in [1 .. Len(r) -> Byte]
    BY <1>2, LenProperties
  <2>2. QED
    BY <2>1, <1>3
<1>5. QED
  BY <1>3, <1>4 DEF r, g, p

\* Whatever is lost, repeated or late, and however numbers wrap around: the
\* bytes tcp_poll and tcp_recv hand over are the first of one peer's stream.
THEOREM PrefixOfStream == Spec => []Prefix
<1>1. Inv => Prefix
  BY InvPrefix
<1>2. QED
  BY <1>1, Invariant, PTL

=============================================================================
