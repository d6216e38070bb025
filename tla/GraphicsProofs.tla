--------------------------- MODULE GraphicsProofs ---------------------------
(***************************************************************************)
(* Proofs about Graphics, for a ring of any size, any frame, any requests  *)
(* and any number of processes.                                            *)
(***************************************************************************)
EXTENDS Graphics, WellFoundedInduction, TLAPS

\* The least-number principle, for a set.
LEMMA LeastNatural ==
  ASSUME NEW S, S \subseteq Nat, S # {}
  PROVE  \E n \in S : \A m \in S : n <= m
<1> DEFINE R == {ss \in Nat \X Nat : ss[1] < ss[2]}
<1>1. IsWellFoundedOn(R, Nat)
  BY NatLessThanWellFounded DEF OpToRel
<1>2. \E x \in S : \A y \in S : <<y, x>> \notin R
  <2> HIDE DEF R
  <2> QED BY <1>1, WFMin
<1>3. PICK n \in S : \A m \in S : <<m, n>> \notin R
  BY <1>2
<1>4. ASSUME NEW m \in S PROVE n <= m
  <2>1. m \in Nat /\ n \in Nat /\ (m < n => <<m, n>> \in R)
    OBVIOUS
  <2>2. QED
    BY <2>1, <1>3
<1>5. QED
  BY <1>4

-----------------------------------------------------------------------------
(* Packets *)

LEMMA PacketTypes ==
  ASSUME NEW t \in Types
  PROVE  /\ Payload[t] \in 0 .. 5
         /\ Code[t] \in 256 .. 262
         /\ \A u \in Types : Code[u] = Code[t] => u = t
BY DEF Types, Payload, Code

LEMMA CodeTells ==
  ASSUME NEW t \in Types
  PROVE  TypeOf(Code[t]) = t /\ Accepted(Code[t], SizeOf(t))
<1>1. TypeOf(Code[t]) = t
  BY PacketTypes DEF TypeOf
<1>2. Code[t] \in Known
  BY DEF Known
<1>3. QED
  BY <1>1, <1>2, PacketTypes DEF Accepted, SizeOf

LEMMA PacketFacts ==
  ASSUME NEW t \in Types, NEW pid \in Nat
  PROVE  /\ PacketWords(t, pid) \in Seq(Nat)
         /\ Len(PacketWords(t, pid)) = 3 + Payload[t]
         /\ PacketWords(t, pid)[1] = Code[t]
         /\ PacketWords(t, pid)[2] = SizeOf(t)
         /\ PacketWords(t, pid)[3] = pid
<1> DEFINE rest == [i \in 1 .. Payload[t] |-> Coordinate]
<1>1. rest \in Seq(Nat) /\ Len(rest) = Payload[t]
  BY PacketTypes DEF Coordinate
<1>2. <<Code[t], SizeOf(t), pid>> \in Seq(Nat)
  BY PacketTypes DEF SizeOf
<1> HIDE DEF rest
<1>3. /\ <<Code[t], SizeOf(t), pid>> \o rest \in Seq(Nat)
      /\ Len(<<Code[t], SizeOf(t), pid>> \o rest) = 3 + Payload[t]
      /\ (<<Code[t], SizeOf(t), pid>> \o rest)[1] = Code[t]
      /\ (<<Code[t], SizeOf(t), pid>> \o rest)[2] = SizeOf(t)
      /\ (<<Code[t], SizeOf(t), pid>> \o rest)[3] = pid
  BY <1>1, <1>2, PacketTypes
<1>4. QED
  BY <1>3 DEF PacketWords, rest

-----------------------------------------------------------------------------
(* The device *)

\* One step of the loop of gpusim_process, g standing for the rest of it.
DecodeAt(m, to, g, pos) ==
  IF pos >= to \/ pos + 1 \notin Words THEN <<>>
  ELSE LET type == m[pos]
           size == m[pos + 1]
           next == pos + 2 + (size + 3) \div 4
           here == IF Accepted(type, size)
                     THEN <<[type |-> type, owner |-> m[pos + 2]]>> ELSE <<>>
       IN here \o (IF next \in Words THEN g[next] ELSE <<>>)

Positions == 0 .. (RING_WORDS + SLACK)
DecodeFrom(m, to) == CHOOSE g : g = [pos \in Positions |-> DecodeAt(m, to, g, pos)]

LEMMA DecodeIs ==
  ASSUME NEW m, NEW from, NEW to
  PROVE  Decode(m, from, to) = IF from < to THEN DecodeFrom(m, to)[from] ELSE <<>>
BY DEF Decode, DecodeFrom, DecodeAt, Positions

\* The rest of a packet lies behind it, so the loop has a result.
LEMMA DecodeBehind ==
  ASSUME NEW m \in [Words -> Nat], NEW to, NEW pos \in Positions, NEW g, NEW h,
         \A p \in Words : p > pos => g[p] = h[p]
  PROVE  DecodeAt(m, to, g, pos) = DecodeAt(m, to, h, pos)
<1>1. CASE pos >= to \/ pos + 1 \notin Words
  BY <1>1 DEF DecodeAt
<1>2. CASE ~(pos >= to \/ pos + 1 \notin Words)
  <2> DEFINE next == pos + 2 + (m[pos + 1] + 3) \div 4
  <2>1. pos \in Nat /\ m[pos + 1] \in Nat
    BY <1>2 DEF Positions
  <2>2. next > pos
    BY <2>1
  <2>3. next \in Words => g[next] = h[next]
    BY <2>2
  <2>4. QED
    BY <1>2, <2>3 DEF DecodeAt
<1>3. QED
  BY <1>1, <1>2

LEMMA DecodeUnfolds ==
  ASSUME NEW m \in [Words -> Nat], NEW to
  PROVE  DecodeFrom(m, to) = [pos \in Positions |-> DecodeAt(m, to, DecodeFrom(m, to), pos)]
<1> DEFINE N == RING_WORDS + SLACK
           Good(k, g) == g = [pos \in k .. N |-> DecodeAt(m, to, g, pos)]
           S == {k \in 0 .. N + 1 : \E g : Good(k, g)}
<1>0. N \in Nat /\ Words = 0 .. N - 1 /\ Positions = 0 .. N
  BY GraphicsAssumption DEF SLACK, Words, Positions
<1> HIDE DEF N
<1>1. N + 1 \in S
  <2> DEFINE g == [pos \in N + 1 .. N |-> 0]
  <2>1. N + 1 .. N = {}
    BY <1>0
  <2>2. Good(N + 1, g)
    BY <2>1
  <2>3. QED
    BY <1>0, <2>2
<1>2. PICK k \in S : \A j \in S : k <= j
  <2>1. S \subseteq Nat /\ S # {}
    BY <1>0, <1>1
  <2> HIDE DEF S
  <2>2. QED
    BY <2>1, LeastNatural
<1>3. PICK g : Good(k, g)
  OBVIOUS
<1>4. ASSUME k > 0 PROVE FALSE
  <2> DEFINE h == [pos \in k - 1 .. N |-> IF pos = k - 1 THEN DecodeAt(m, to, g, pos) ELSE g[pos]]
  <2>1. k \in 1 .. N + 1 /\ k - 1 \in 0 .. N + 1
    BY <1>0, <1>4
  <2>2. ASSUME NEW pos \in k - 1 .. N PROVE h[pos] = DecodeAt(m, to, h, pos)
    <3>1. pos \in Positions
      BY <1>0, <2>1
    <3>2. \A p \in Words : p > pos => g[p] = h[p]
      BY <1>0, <2>1
    <3>3. DecodeAt(m, to, g, pos) = DecodeAt(m, to, h, pos)
      <4> HIDE DEF h
      <4> QED BY <3>1, <3>2, DecodeBehind
    <3>4. h[pos] = DecodeAt(m, to, g, pos)
      <4>1. CASE pos = k - 1
        BY <4>1
      <4>2. CASE pos # k - 1
        <5>1. pos \in k .. N
          BY <2>1, <4>2
        <5>2. QED
          BY <4>2, <5>1, <1>3
      <4>3. QED
        BY <4>1, <4>2
    <3>5. QED
      BY <3>3, <3>4
  <2>3. h = [pos \in k - 1 .. N |-> DecodeAt(m, to, h, pos)]
    <3>1. h = [pos \in k - 1 .. N |-> h[pos]]
      OBVIOUS
    <3> HIDE DEF h
    <3>2. QED
      BY <2>2, <3>1
  <2>4. k - 1 \in S
    <3> HIDE DEF h
    <3> QED BY <2>1, <2>3
  <2>5. k <= k - 1
    <3> HIDE DEF S
    <3> QED BY <1>2, <2>4
  <2>6. QED
    BY <2>1, <2>5
<1>5. g = [pos \in Positions |-> DecodeAt(m, to, g, pos)]
  <2>1. k = 0
    BY <1>0, <1>4
  <2>2. QED
    BY <1>0, <1>3, <2>1
<1>6. QED
  BY <1>5 DEF DecodeFrom

\* A packet that is there in full is decoded as one, with its owner.
LEMMA DecodePacket ==
  ASSUME NEW m \in [Words -> Nat], NEW from \in Nat, NEW t \in Types, NEW pid \in Nat,
         from + 3 + Payload[t] <= RING_WORDS,
         \A k \in 1 .. 3 + Payload[t] : m[from + k - 1] = PacketWords(t, pid)[k]
  PROVE  Decode(m, from, from + 3 + Payload[t]) = <<[type |-> Code[t], owner |-> pid]>>
<1> DEFINE P == Payload[t]
           to == from + 3 + P
           At == DecodeFrom(m, to)
<1>1. /\ P \in 0 .. 5 /\ RING_WORDS \in Nat /\ SLACK = 16
      /\ from \in Positions /\ to \in Positions /\ from + 1 \in Words
  <2>1. P \in 0 .. 5 /\ RING_WORDS \in Nat /\ from + 3 + P <= RING_WORDS
    BY PacketTypes, GraphicsAssumption
  <2> HIDE DEF P
  <2>2. QED
    BY <2>1 DEF Positions, Words, SLACK
<1>2. m[from] = Code[t] /\ m[from + 1] = SizeOf(t) /\ m[from + 2] = pid
  <2>1. 1 \in 1 .. 3 + P /\ 2 \in 1 .. 3 + P /\ 3 \in 1 .. 3 + P
    BY <1>1
  <2>2. from + 1 - 1 = from /\ from + 2 - 1 = from + 1 /\ from + 3 - 1 = from + 2
    OBVIOUS
  <2>3. /\ m[from + 1 - 1] = PacketWords(t, pid)[1]
        /\ m[from + 2 - 1] = PacketWords(t, pid)[2]
        /\ m[from + 3 - 1] = PacketWords(t, pid)[3]
    BY <2>1
  <2>4. /\ PacketWords(t, pid)[1] = Code[t] /\ PacketWords(t, pid)[2] = SizeOf(t)
        /\ PacketWords(t, pid)[3] = pid
    BY PacketFacts
  <2>5. QED
    BY <2>2, <2>3, <2>4
<1>3. from + 2 + (SizeOf(t) + 3) \div 4 = to
  BY <1>1 DEF SizeOf
<1>4. At[to] = <<>>
  <2>1. At[to] = DecodeAt(m, to, At, to)
    BY <1>1, DecodeUnfolds
  <2>2. to >= to
    BY <1>1
  <2>3. QED
    BY <2>1, <2>2 DEF DecodeAt
<1>5. At[from] = DecodeAt(m, to, At, from)
  BY <1>1, DecodeUnfolds
<1>6. from < to
  BY <1>1
<1> DEFINE here == <<[type |-> Code[t], owner |-> pid]>>
<1> HIDE DEF At, to, here
<1>7. DecodeAt(m, to, At, from) = here \o (IF to \in Words THEN At[to] ELSE <<>>)
  <2>1. ~(from >= to \/ from + 1 \notin Words)
    BY <1>1, <1>6 DEF to
  <2>2. Accepted(m[from], m[from + 1])
    BY <1>2, CodeTells
  <2>3. from + 2 + (m[from + 1] + 3) \div 4 = to
    BY <1>2, <1>3
  <2>4. <<[type |-> m[from], owner |-> m[from + 2]]>> = here
    BY <1>2 DEF here
  <2>5. QED
    BY <2>1, <2>2, <2>3, <2>4 DEF DecodeAt
<1>8. QED
  BY <1>4, <1>5, <1>6, <1>7, DecodeIs DEF At, to, here

-----------------------------------------------------------------------------
(* The driver, undisturbed *)

\* Between packets: all that was written is decoded.
Between(d) ==
  /\ d.ring \in [Words -> Nat]
  /\ d.head \in 0 .. RING_WORDS
  /\ d.tail = d.head

LEMMA AfterOne ==
  ASSUME NEW d, Between(d), NEW t \in Types, NEW pid \in Nat
  PROVE  /\ Between(AfterPacket(d, t, pid))
         /\ AfterPacket(d, t, pid).done = d.done \o <<[type |-> Code[t], owner |-> pid]>>
<1> DEFINE start == IF DoesNotFit(d.head, t) THEN 0 ELSE d.head
           tail == IF DoesNotFit(d.head, t) THEN 0 ELSE d.tail
           w == PacketWords(t, pid)
           end == start + Len(w)
           m == [a \in Words |-> IF a \in start .. (end - 1) THEN w[a - start + 1] ELSE d.ring[a]]
<1>1. /\ Payload[t] \in 0 .. 5 /\ RING_WORDS \in Nat /\ RING_WORDS > 8
      /\ w \in Seq(Nat) /\ Len(w) = 3 + Payload[t]
  BY PacketTypes, PacketFacts, GraphicsAssumption
<1>2. /\ start \in Nat /\ tail = start /\ end = start + 3 + Payload[t] /\ end <= RING_WORDS
  <2>1. d.head \in 0 .. RING_WORDS /\ d.tail = d.head
    BY DEF Between
  <2>2. CASE d.head + 3 + Payload[t] >= RING_WORDS
    <3>1. start = 0 /\ tail = 0
      BY <2>2 DEF DoesNotFit
    <3> HIDE DEF start, tail, w
    <3>2. QED
      BY <1>1, <3>1
  <2>3. CASE ~(d.head + 3 + Payload[t] >= RING_WORDS)
    <3>1. start = d.head /\ tail = d.head
      BY <2>1, <2>3 DEF DoesNotFit
    <3>2. end = start + Len(w)
      BY DEF end
    <3>3. d.head \in Nat /\ Payload[t] \in Nat /\ RING_WORDS \in Nat /\ Len(w) = 3 + Payload[t]
      BY <1>1, <2>1
    <3> HIDE DEF start, tail, w, end
    <3>4. d.head + 3 + Payload[t] <= RING_WORDS
      BY <3>3, <2>3
    <3>5. QED
      BY <3>1, <3>2, <3>3, <3>4, <2>1
  <2>4. QED
    BY <2>2, <2>3
<1>3. AfterPacket(d, t, pid) = [ring |-> Forget(m, end), head |-> end, tail |-> end,
                                done |-> d.done \o Decode(m, tail, end)]
  BY DEF AfterPacket
<1> HIDE DEF start, tail, w, end
<1>4. m \in [Words -> Nat]
  <2>1. ASSUME NEW a \in Words, a \in start .. (end - 1) PROVE w[a - start + 1] \in Nat
    <3> HIDE DEF m
    <3>1. start \in Int /\ a \in Int /\ Len(w) \in Int /\ end = start + Len(w)
      <4>1. end = start + Len(w)
        BY DEF end
      <4>2. a \in Int /\ Len(w) \in Int
        BY <1>1, <2>1 DEF Words
      <4>3. QED
        BY <1>2, <4>1, <4>2
    <3>2. a - start + 1 \in 1 .. Len(w)
      BY <3>1, <2>1
    <3>3. QED
      BY <1>1, <3>2
  <2>2. QED
    BY <2>1 DEF Between
<1>5. \A k \in 1 .. 3 + Payload[t] : m[start + k - 1] = w[k]
  <2>1. ASSUME NEW k \in 1 .. 3 + Payload[t] PROVE m[start + k - 1] = w[k]
    <3>1. /\ start \in Nat /\ k \in 1 .. Len(w) /\ Len(w) \in Nat /\ end = start + Len(w)
          /\ end <= RING_WORDS /\ RING_WORDS \in Nat
      <4>1. 3 + Payload[t] \in Nat /\ Len(w) = 3 + Payload[t]
        BY <1>1
      <4>2. k \in 1 .. Len(w)
        BY <4>1
      <4>3. end = start + Len(w)
        BY DEF end
      <4>4. QED
        BY <4>1, <4>2, <4>3, <1>1, <1>2
    <3>2. /\ start + k - 1 \in start .. (end - 1) /\ start + k - 1 \in Words
          /\ (start + k - 1) - start + 1 = k
      <4> HIDE DEF m
      <4> QED BY <3>1 DEF Words, SLACK
    <3>3. QED
      BY <3>2
  <2>2. QED
    BY <2>1
<1> HIDE DEF m
<1>6. Decode(m, tail, end) = <<[type |-> Code[t], owner |-> pid]>>
  BY <1>2, <1>4, <1>5, DecodePacket DEF w
<1>7. Forget(m, end) \in [Words -> Nat]
  BY <1>4 DEF Forget
<1>8. end \in 0 .. RING_WORDS
  BY <1>1, <1>2
<1>9. QED
  BY <1>3, <1>6, <1>7, <1>8 DEF Between

\* After the first n of the packets.
AfterFirst(types, pid) ==
  CHOOSE g : g = [n \in 0 .. Len(types) |->
                    IF n = 0 THEN Driver ELSE AfterPacket(g[n - 1], types[n], pid)]

LEMMA AfterIs ==
  ASSUME NEW types, NEW pid
  PROVE  AfterPackets(types, pid) = AfterFirst(types, pid)[Len(types)]
BY DEF AfterPackets, AfterFirst

LEMMA AfterUnfolds ==
  ASSUME NEW types \in Seq(Types), NEW pid
  PROVE  AfterFirst(types, pid) =
           [n \in 0 .. Len(types) |->
              IF n = 0 THEN Driver ELSE AfterPacket(AfterFirst(types, pid)[n - 1], types[n], pid)]
<1> DEFINE Next1(g, n) == IF n = 0 THEN Driver ELSE AfterPacket(g[n - 1], types[n], pid)
           Good(k, g) == g = [n \in 0 .. k |-> Next1(g, n)]
           S == {k \in 0 .. Len(types) : ~ \E g : Good(k, g)}
<1>1. ASSUME S # {} PROVE FALSE
  <2>1. PICK k \in S : \A j \in S : k <= j
    <3>1. S \subseteq Nat
      OBVIOUS
    <3> HIDE DEF S
    <3>2. QED
      BY <1>1, <3>1, LeastNatural
  <2>2. k \in 0 .. Len(types) /\ ~ \E g : Good(k, g)
    OBVIOUS
  <2>3. CASE k = 0
    <3> DEFINE g == [n \in 0 .. 0 |-> Driver]
    <3>1. g = [n \in 0 .. 0 |-> Next1(g, n)]
      OBVIOUS
    <3>2. QED
      BY <2>2, <2>3, <3>1
  <2>4. CASE k # 0
    <3>1. k - 1 \in 0 .. Len(types) /\ k - 1 \notin S
      <4>1. k - 1 \in 0 .. Len(types) /\ ~ (k <= k - 1)
        BY <2>2, <2>4
      <4> HIDE DEF S
      <4>2. QED
        BY <2>1, <4>1
    <3>2. PICK g : Good(k - 1, g)
      BY <3>1
    <3> DEFINE h == [n \in 0 .. k |-> IF n = k THEN Next1(g, k) ELSE g[n]]
    <3>3. ASSUME NEW n \in 0 .. k PROVE h[n] = Next1(h, n)
      <4>1. n # 0 => h[n - 1] = g[n - 1]
        BY <2>2
      <4>2. Next1(h, n) = Next1(g, n)
        <5> HIDE DEF h
        <5> QED BY <4>1
      <4>3. CASE n = k
        BY <4>2, <4>3
      <4>4. CASE n # k
        <5>1. n \in 0 .. k - 1
          BY <2>2, <4>4
        <5>2. g[n] = Next1(g, n)
          <6> HIDE DEF Next1
          <6> QED BY <3>2, <5>1
        <5>3. h[n] = g[n]
          BY <4>4
        <5>4. QED
          BY <4>2, <5>2, <5>3
      <4>5. QED
        BY <4>3, <4>4
    <3>4. h = [n \in 0 .. k |-> Next1(h, n)]
      <4>1. h = [n \in 0 .. k |-> h[n]]
        OBVIOUS
      <4> HIDE DEF h, Next1
      <4>2. QED
        BY <3>3, <4>1
    <3>5. QED
      <4> HIDE DEF h, Next1
      <4> QED BY <2>2, <3>4
  <2>5. QED
    BY <2>3, <2>4
<1>2. \E g : Good(Len(types), g)
  <2>1. Len(types) \in 0 .. Len(types)
    OBVIOUS
  <2>2. QED
    BY <1>1, <2>1
<1>3. QED
  BY <1>2 DEF AfterFirst

\* The driver's packets, one after the other, whatever their number.
LEMMA AfterAll ==
  ASSUME NEW types \in Seq(Types), NEW pid \in Nat, Between(Driver)
  PROVE  LET d == AfterPackets(types, pid)
         IN /\ Between(d)
            /\ d.done = [i \in 1 .. Len(types) |-> [type |-> Code[types[i]], owner |-> pid]]
<1> DEFINE after == AfterFirst(types, pid)
           told(n) == [i \in 1 .. n |-> [type |-> Code[types[i]], owner |-> pid]]
           Right(n) == Between(after[n]) /\ after[n].done = told(n)
           S == {n \in 0 .. Len(types) : ~Right(n)}
<1>1. \A n \in 0 .. Len(types) :
        after[n] = IF n = 0 THEN Driver ELSE AfterPacket(after[n - 1], types[n], pid)
  BY AfterUnfolds
<1> HIDE DEF after
<1>2. Right(0)
  <2>1. after[0] = Driver
    BY <1>1
  <2>2. Driver.done = <<>> /\ told(0) = <<>>
    BY DEF Driver
  <2>3. QED
    BY <2>1, <2>2
<1>3. ASSUME NEW n \in 1 .. Len(types), Right(n - 1) PROVE Right(n)
  <2>1. after[n] = AfterPacket(after[n - 1], types[n], pid) /\ types[n] \in Types
    BY <1>1
  <2>2. /\ Between(after[n])
        /\ after[n].done = after[n - 1].done \o <<[type |-> Code[types[n]], owner |-> pid]>>
    <3> DEFINE d == after[n - 1]
               t == types[n]
    <3>1. Between(d) /\ t \in Types
      BY <1>3, <2>1
    <3> HIDE DEF d, t
    <3>2. /\ Between(AfterPacket(d, t, pid))
          /\ AfterPacket(d, t, pid).done = d.done \o <<[type |-> Code[t], owner |-> pid]>>
      BY <3>1, AfterOne
    <3>3. QED
      BY <2>1, <3>2 DEF d, t
  <2>3. told(n) = told(n - 1) \o <<[type |-> Code[types[n]], owner |-> pid]>>
    <3> DEFINE f(i) == [type |-> Code[types[i]], owner |-> pid]
    <3> HIDE DEF f
    <3>1. [i \in 1 .. n |-> f(i)] = [i \in 1 .. n - 1 |-> f(i)] \o <<f(n)>>
      OBVIOUS
    <3>2. QED
      BY <3>1 DEF f
  <2>4. QED
    BY <1>3, <2>2, <2>3
<1>4. S = {}
  <2>1. SUFFICES ASSUME S # {} PROVE FALSE
    OBVIOUS
  <2>2. PICK n \in S : \A k \in S : n <= k
    <3>1. S \subseteq Nat
      OBVIOUS
    <3> HIDE DEF S
    <3>2. QED
      BY <2>1, <3>1, LeastNatural
  <2> HIDE DEF Right
  <2>3. n # 0 /\ n \in 0 .. Len(types) /\ ~Right(n)
    BY <1>2
  <2>4. n \in 1 .. Len(types) /\ n - 1 \in 0 .. Len(types) /\ ~(n <= n - 1)
    BY <2>3
  <2>5. Right(n - 1)
    BY <2>2, <2>4
  <2>6. QED
    BY <1>3, <2>3, <2>4, <2>5
<1>5. Right(Len(types))
  <2>1. Len(types) \in 0 .. Len(types)
    OBVIOUS
  <2> HIDE DEF Right
  <2>2. QED
    BY <1>4, <2>1
<1>6. QED
  BY <1>5, AfterIs DEF after

-----------------------------------------------------------------------------
(* The invariant *)

Gui == [enabled : BOOLEAN, faults : Nat, ops : Nat, pixels : Nat]

Shells ==
  {Resting}
  \cup [pc : {"ctrl", "zero", "head", "slot", "publish"}, type : Types, n : Nat]
  \cup [pc : {"word"}, type : Types, n : Nat, at : Nat]
  \cup [pc : {"bell"}, type : Types]

\* A process that has used up its faults is disabled.
Guarded ==
  /\ gui \in [Procs -> Gui] /\ owner \in Nat /\ torn \in BOOLEAN
  /\ \A p \in Procs : gui[p].faults >= GUI_FAULT_LIMIT => ~gui[p].enabled

\* The words of the application's packet, from the device's tail on; how many
\* there are; and that there is room for them.
Size == 3 + Payload[shell.type]
Written(k) == \A j \in 1 .. k : ring[dev.tail + j - 1] = PacketWords(shell.type, owner)[j]
Room == dev.tail + Size <= RING_WORDS

\* The driver and the device, undisturbed, at each step of a packet.
Driven ==
  /\ done = sent
  /\ ring \in [Words -> Nat] /\ ring_head \in Nat /\ dev \in [head : Nat, tail : Nat]
  /\ shell \in Shells
  /\ shell.pc \in {"rest", "ctrl"} =>
       ring_head = dev.head /\ dev.tail = dev.head /\ ring_head <= RING_WORDS
  /\ shell.pc = "ctrl" => shell.n = 1
  /\ shell.pc \in {"zero", "head"} =>
       dev.head = 0 /\ dev.tail = 0 /\ ring_head <= RING_WORDS /\ shell.n = 1
  /\ shell.pc = "head" => ring_head = 0
  /\ shell.pc \in {"slot", "word", "publish"} => dev.tail = dev.head /\ Room
  /\ shell.pc = "slot" =>
       /\ shell.n \in 1 .. Size /\ ring_head = dev.tail + shell.n - 1
       /\ Written(shell.n - 1)
  /\ shell.pc = "word" =>
       /\ shell.n \in 1 .. Size /\ ring_head = dev.tail + shell.n
       /\ shell.at = ring_head - 1 /\ Written(shell.n - 1)
  /\ shell.pc = "publish" => ring_head = dev.tail + Size /\ Written(Size)
  /\ shell.pc = "bell" =>
       dev.head = ring_head /\ ring_head = dev.tail + Size /\ Room /\ Written(Size)

Inv == Guarded /\ (torn \/ Driven)

\* What QuarantineHolds says of one step.
Quiet ==
  \A p \in Procs : gui[p].faults >= GUI_FAULT_LIMIT /\ by' = p
    => sent' = <<>> /\ gui'[p] \in {gui[p], NewGui}

LEMMA InitInv == Init => Inv
<1> SUFFICES ASSUME Init PROVE Inv
  OBVIOUS
<1>1. Guarded
  <2>1. NewGui \in Gui /\ ~(NewGui.faults >= GUI_FAULT_LIMIT)
    BY GraphicsAssumption DEF NewGui, Gui
  <2>2. gui = [p \in Procs |-> NewGui] /\ owner = 0 /\ torn = FALSE
    BY DEF Init, None
  <2>3. QED
    BY <2>1, <2>2 DEF Guarded
<1>2. Driven
  BY GraphicsAssumption DEF Init, Driven, Resting, Shells
<1>3. QED
  BY <1>1, <1>2 DEF Inv

\* A call that sends nothing leaves the packet of an application alone.
LEMMA NothingSent ==
  ASSUME torn \/ Driven, SendNothing, UNCHANGED <<owner, shell>>
  PROVE  (torn \/ Driven)'
BY DEF Driven, SendNothing, Size, Written, Room

\* Packets sent while no application is in one of its own arrive.
LEMMA Sent ==
  ASSUME Guarded, torn \/ Driven, NEW types \in Seq(Types), NEW pid \in Nat,
         Send(types, pid), UNCHANGED shell
  PROVE  (torn \/ Driven)'
<1>1. SUFFICES ASSUME ~torn' PROVE Driven'
  BY DEF Guarded
<1>2. shell = Resting /\ Driven
  BY <1>1 DEF Send
<1>3. Between(Driver)
  BY <1>2, GraphicsAssumption DEF Driven, Between, Driver, Resting
<1> DEFINE d == AfterPackets(types, pid)
<1>4. /\ Between(d)
      /\ d.done = [i \in 1 .. Len(types) |-> [type |-> Code[types[i]], owner |-> pid]]
  BY <1>3, AfterAll
<1>5. /\ ring' = d.ring /\ ring_head' = d.head /\ dev' = [head |-> d.head, tail |-> d.head]
      /\ done' = d.done
      /\ sent' = [i \in 1 .. Len(types) |-> [type |-> Code[types[i]], owner |-> pid]]
  BY <1>4 DEF Send, Between
<1> HIDE DEF d
<1>6. done' = sent'
  BY <1>4, <1>5
<1>7. QED
  BY <1>2, <1>4, <1>5, <1>6, GraphicsAssumption DEF Driven, Between, Resting, Shells

-----------------------------------------------------------------------------
(* The guard *)

LEMMA FaultFacts ==
  ASSUME NEW g \in Gui, g.faults >= GUI_FAULT_LIMIT => ~g.enabled
  PROVE  /\ Fault(g) \in Gui
         /\ Fault(g).faults >= GUI_FAULT_LIMIT => ~Fault(g).enabled
         /\ g.faults >= GUI_FAULT_LIMIT => Fault(g) = g
<1> DEFINE n == IF g.faults < GUI_FAULT_LIMIT THEN g.faults + 1 ELSE g.faults
<1>1. g = [enabled |-> g.enabled, faults |-> g.faults, ops |-> g.ops, pixels |-> g.pixels]
  BY DEF Gui
<1>2. Fault(g) = [enabled |-> g.enabled /\ n < GUI_FAULT_LIMIT, faults |-> n, ops |-> g.ops, pixels |-> g.pixels]
  BY <1>1 DEF Fault
<1>3. n \in Nat /\ GUI_FAULT_LIMIT \in Nat /\ g.enabled \in BOOLEAN /\ g.ops \in Nat /\ g.pixels \in Nat
      /\ (n >= GUI_FAULT_LIMIT => ~(n < GUI_FAULT_LIMIT))
      /\ (g.faults >= GUI_FAULT_LIMIT => n = g.faults)
  BY GraphicsAssumption DEF Gui
<1> HIDE DEF n
<1>4. (g.enabled /\ n < GUI_FAULT_LIMIT) \in BOOLEAN
  BY <1>3
<1>5. Fault(g) \in Gui
  BY <1>2, <1>3, <1>4 DEF Gui
<1>6. Fault(g).enabled = (g.enabled /\ n < GUI_FAULT_LIMIT) /\ Fault(g).faults = n
  BY <1>2
<1>7. QED
  BY <1>1, <1>2, <1>3, <1>5, <1>6

LEMMA ChargedFacts ==
  ASSUME NEW g \in Gui, NEW pixels \in Nat
  PROVE  Charged(g, pixels) \in Gui /\ Charged(g, pixels).faults = g.faults
         /\ Charged(g, pixels).enabled = g.enabled
BY DEF Gui, Charged

\* A guard that keeps its own counters in order, and whoever made the step was
\* sent nothing if its faults were used up.
LEMMA GuardKept ==
  ASSUME Guarded, NEW p \in Procs, NEW g \in Gui, gui' = [gui EXCEPT ![p] = g],
         g.faults >= GUI_FAULT_LIMIT => ~g.enabled, owner' \in Nat, torn' \in BOOLEAN
  PROVE  Guarded'
BY DEF Guarded

LEMMA RefuseFacts ==
  ASSUME Guarded, NEW p \in Procs, Refuse(p), owner' \in Nat
  PROVE  Guarded' /\ (gui[p].faults >= GUI_FAULT_LIMIT => gui'[p] = gui[p])
<1>1. gui[p] \in Gui /\ (gui[p].faults >= GUI_FAULT_LIMIT => ~gui[p].enabled)
  BY DEF Guarded
<1>2. torn' \in BOOLEAN
  BY DEF Refuse, SendNothing, Guarded
<1>3. CASE Quarantined(p)
  BY <1>2, <1>3 DEF Refuse, Guarded
<1>4. CASE ~Quarantined(p)
  <2>1. gui' = [gui EXCEPT ![p] = Fault(gui[p])]
    BY <1>4 DEF Refuse
  <2>2. Guarded'
    BY <1>1, <1>2, <2>1, FaultFacts, GuardKept
  <2>3. gui'[p] = Fault(gui[p])
    BY <2>1 DEF Guarded
  <2>4. QED
    BY <1>1, <2>2, <2>3, FaultFacts
<1>5. QED
  BY <1>3, <1>4

LEMMA ChargeFacts ==
  ASSUME Guarded, NEW p \in Procs, NEW pixels \in Nat \cup {NoEstimate}, Admitted(p, pixels),
         Charge(p, pixels), owner' \in Nat, torn' \in BOOLEAN
  PROVE  Guarded' /\ ~(gui[p].faults >= GUI_FAULT_LIMIT)
<1>1. pixels \in Nat /\ gui[p] \in Gui /\ gui[p].enabled /\ ~(gui[p].faults >= GUI_FAULT_LIMIT)
  BY DEF Guarded, Admitted, Quarantined
<1>2. QED
  BY <1>1, ChargedFacts, GuardKept DEF Charge

LEMMA GpuDrawStep ==
  ASSUME Inv, NEW p \in Procs, NEW r \in Commands, GpuDraw(p, r)
  PROVE  Inv' /\ Quiet
<1>1. /\ r.type \in Types /\ r.pixels \in Nat \cup {NoEstimate} /\ p \in Nat
      /\ by' = p /\ UNCHANGED shell
  BY GraphicsAssumption DEF GpuDraw, Step, Request
<1>2. Guarded /\ (torn \/ Driven)
  BY DEF Inv
<1>3. CASE Admitted(p, r.pixels) /\ Charge(p, r.pixels) /\ owner' = p /\ Send(<<r.type, "present">>, p)
  <2>1. <<r.type, "present">> \in Seq(Types)
    BY <1>1 DEF Types, Payload
  <2>2. (torn \/ Driven)'
    BY <1>1, <1>2, <1>3, <2>1, Sent
  <2>3. torn' \in BOOLEAN
    BY <1>3 DEF Send, Inv, Guarded
  <2>4. Guarded' /\ ~(gui[p].faults >= GUI_FAULT_LIMIT)
    BY <1>1, <1>2, <1>3, <2>3, ChargeFacts
  <2>5. QED
    BY <1>1, <2>2, <2>4 DEF Inv, Quiet
<1>4. CASE Refuse(p) /\ UNCHANGED owner
  <2>1. owner' \in Nat /\ SendNothing
    BY <1>2, <1>4 DEF Guarded, Refuse
  <2>2. (torn \/ Driven)'
    BY <1>1, <1>2, <1>4, <2>1, NothingSent
  <2>3. Guarded' /\ (gui[p].faults >= GUI_FAULT_LIMIT => gui'[p] = gui[p])
    BY <1>2, <1>4, <2>1, RefuseFacts
  <2>4. QED
    BY <1>1, <2>1, <2>2, <2>3 DEF Inv, Quiet, SendNothing
<1>5. QED
  BY <1>3, <1>4 DEF GpuDraw

LEMMA WriteFbStep ==
  ASSUME Inv, NEW p \in Procs, NEW n \in FbCounts, WriteFb(p, n)
  PROVE  Inv' /\ Quiet
<1>1. n \in Nat \cup {NoEstimate} /\ by' = p /\ UNCHANGED shell /\ UNCHANGED owner
  BY GraphicsAssumption DEF WriteFb, Step
<1>2. Guarded /\ (torn \/ Driven) /\ owner \in Nat
  BY DEF Inv, Guarded
<1>3. CASE Admitted(p, n) /\ Charge(p, n) /\ Send(<<"present">>, owner)
  <2>1. <<"present">> \in Seq(Types)
    BY DEF Types, Payload
  <2>2. (torn \/ Driven)'
    BY <1>1, <1>2, <1>3, <2>1, Sent
  <2>3. torn' \in BOOLEAN
    BY <1>3 DEF Send, Inv, Guarded
  <2>4. Guarded' /\ ~(gui[p].faults >= GUI_FAULT_LIMIT)
    BY <1>1, <1>2, <1>3, <2>3, ChargeFacts
  <2>5. QED
    BY <1>1, <2>2, <2>4 DEF Inv, Quiet
<1>4. CASE Refuse(p)
  <2>1. owner' \in Nat /\ SendNothing
    BY <1>1, <1>2, <1>4 DEF Guarded, Refuse
  <2>2. (torn \/ Driven)'
    BY <1>1, <1>2, <2>1, NothingSent
  <2>3. Guarded' /\ (gui[p].faults >= GUI_FAULT_LIMIT => gui'[p] = gui[p])
    BY <1>2, <1>4, <2>1, RefuseFacts
  <2>4. QED
    BY <1>1, <2>1, <2>2, <2>3 DEF Inv, Quiet, SendNothing
<1>5. QED
  BY <1>3, <1>4 DEF WriteFb

\* The calls that set the guard of a process and draw nothing.
LEMMA OtherCallStep ==
  ASSUME Inv, NEW p \in Procs, BadAddress(p) \/ Reset(p)
  PROVE  Inv' /\ Quiet
<1>1. Guarded /\ (torn \/ Driven) /\ SendNothing /\ UNCHANGED <<owner, shell>> /\ by' = p
  BY DEF Inv, BadAddress, Reset, Step
<1>2. (torn \/ Driven)'
  BY <1>1, NothingSent
<1>3. gui[p] \in Gui /\ (gui[p].faults >= GUI_FAULT_LIMIT => ~gui[p].enabled)
      /\ owner' \in Nat /\ torn' \in BOOLEAN
  BY <1>1 DEF Guarded, SendNothing
<1>4. NewGui \in Gui /\ ~(NewGui.faults >= GUI_FAULT_LIMIT)
  BY GraphicsAssumption DEF NewGui, Gui
<1>5. CASE gui' = [gui EXCEPT ![p] = Fault(gui[p])]
  <2>1. Guarded'
    BY <1>1, <1>3, <1>5, FaultFacts, GuardKept
  <2>2. gui'[p] = Fault(gui[p])
    BY <1>1, <1>5 DEF Guarded
  <2>3. QED
    BY <1>1, <1>2, <1>3, <2>1, <2>2, FaultFacts DEF Inv, Quiet, SendNothing
<1>6. CASE gui' = [gui EXCEPT ![p] = NewGui]
  <2>1. Guarded'
    BY <1>1, <1>3, <1>4, <1>6, GuardKept
  <2>2. gui'[p] = NewGui
    BY <1>1, <1>6 DEF Guarded
  <2>3. QED
    BY <1>1, <1>2, <2>1, <2>2 DEF Inv, Quiet, SendNothing
<1>7. QED
  BY <1>5, <1>6 DEF BadAddress, Reset

LEMMA NewProcessStep ==
  ASSUME Inv, NEW q \in Procs, NEW g \in Gui, g.faults >= GUI_FAULT_LIMIT => ~g.enabled,
         NewProcess(q, g)
  PROVE  Inv' /\ Quiet
<1>1. /\ Guarded /\ (torn \/ Driven) /\ SendNothing /\ UNCHANGED <<owner, shell>> /\ by' = None
      /\ gui' = [gui EXCEPT ![q] = g]
  BY DEF Inv, NewProcess
<1>2. (torn \/ Driven)'
  BY <1>1, NothingSent
<1>3. owner' \in Nat /\ torn' \in BOOLEAN
  BY <1>1 DEF Guarded, SendNothing
<1>4. Guarded'
  BY <1>1, <1>3, GuardKept
<1>5. None \notin Procs
  BY GraphicsAssumption DEF None
<1>6. QED
  BY <1>1, <1>2, <1>4, <1>5 DEF Inv, Quiet

LEMMA ForkCreateStep ==
  ASSUME Inv, NEW p \in Procs, NEW q \in Procs, Fork(p, q) \/ Create(p)
  PROVE  Inv' /\ Quiet
<1>1. gui[p] \in Gui /\ (gui[p].faults >= GUI_FAULT_LIMIT => ~gui[p].enabled)
  BY DEF Inv, Guarded
<1>2. NewGui \in Gui /\ ~(NewGui.faults >= GUI_FAULT_LIMIT)
  BY GraphicsAssumption DEF NewGui, Gui
<1>3. QED
  BY <1>1, <1>2, NewProcessStep DEF Fork, Create

LEMMA TimerStep ==
  ASSUME Inv, Timer
  PROVE  Inv' /\ Quiet
<1>1. /\ Guarded /\ (torn \/ Driven) /\ owner \in Nat /\ FRAME \in Seq(Types)
      /\ Send(FRAME, owner) /\ UNCHANGED <<gui, owner, shell>> /\ by' = None
  BY GraphicsAssumption DEF Inv, Guarded, Timer
<1>2. (torn \/ Driven)'
  BY <1>1, Sent
<1>3. torn' \in BOOLEAN
  BY <1>1 DEF Send, Guarded
<1>4. Guarded'
  BY <1>1, <1>3 DEF Guarded
<1>5. None \notin Procs
  BY GraphicsAssumption DEF None
<1>6. QED
  BY <1>1, <1>2, <1>4, <1>5 DEF Inv, Quiet

-----------------------------------------------------------------------------
(* The packet of an application, word by word *)

\* Whatever step it is, the guard is not concerned.
LEMMA ShellAside ==
  ASSUME Inv, NEW s, ShellGoes(s)
  PROVE  Guarded' /\ Quiet /\ owner \in Nat /\ UNCHANGED <<owner, torn>> /\ shell' = s
         /\ (torn \/ Driven)
<1>1. None \notin Procs
  BY GraphicsAssumption DEF None
<1>2. QED
  BY <1>1 DEF Inv, Guarded, ShellGoes, Quiet

LEMMA ShellTestsStep ==
  ASSUME Inv, NEW type \in ShellTypes, ShellTests(type)
  PROVE  Inv' /\ Quiet
<1> DEFINE s == [pc |-> IF DoesNotFit(ring_head, type) THEN "ctrl" ELSE "slot", type |-> type, n |-> 1]
<1>1. ShellGoes(s) /\ shell = Resting /\ UNCHANGED <<ring, ring_head, dev>> /\ done' = sent'
  BY DEF ShellTests
<1>2. /\ Guarded' /\ Quiet /\ UNCHANGED <<owner, torn>> /\ shell' = s /\ (torn \/ Driven)
  BY <1>1, ShellAside
<1>3. type \in Types /\ Payload[type] \in 0 .. 5 /\ RING_WORDS \in Nat
  BY GraphicsAssumption, PacketTypes
<1>4. ASSUME Driven PROVE Driven'
  <2>1. ring_head = dev.head /\ dev.tail = dev.head /\ ring_head <= RING_WORDS /\ ring_head \in Nat
    BY <1>1, <1>4 DEF Driven, Resting
  <2>2. shell' \in Shells /\ shell'.type = type /\ shell'.n = 1 /\ Size' = 3 + Payload[type]
    BY <1>2, <1>3 DEF Shells, Size
  <2>3. CASE DoesNotFit(ring_head, type)
    <3>1. shell'.pc = "ctrl"
      BY <1>2, <2>3
    <3>2. QED
      BY <1>1, <1>4, <2>1, <2>2, <3>1 DEF Driven
  <2>4. CASE ~DoesNotFit(ring_head, type)
    <3>1. shell'.pc = "slot"
      BY <1>2, <2>4
    <3>2. Room' /\ Written(shell.n - 1)'
      BY <1>1, <1>3, <2>1, <2>2, <2>4 DEF DoesNotFit, Room, Written
    <3>3. QED
      BY <1>1, <1>3, <1>4, <2>1, <2>2, <3>1, <3>2 DEF Driven
  <2>5. QED
    BY <2>3, <2>4
<1>5. QED
  BY <1>2, <1>4 DEF Inv

LEMMA ShellResetsStep ==
  ASSUME Inv, ShellResets
  PROVE  Inv' /\ Quiet
<1> DEFINE s == [shell EXCEPT !.pc = CASE @ = "ctrl" -> "zero" [] @ = "zero" -> "head"
                                       [] @ = "head" -> "slot"]
<1>1. ShellGoes(s) /\ UNCHANGED ring /\ done' = sent' /\ shell.pc \in {"ctrl", "zero", "head"}
  BY DEF ShellResets
<1>2. /\ Guarded' /\ Quiet /\ UNCHANGED <<owner, torn>> /\ shell' = s /\ (torn \/ Driven)
  BY <1>1, ShellAside
<1> HIDE DEF s
<1>3. ASSUME Driven PROVE Driven'
  <2>1. /\ shell = [pc |-> shell.pc, type |-> shell.type, n |-> shell.n]
        /\ shell.type \in Types /\ shell.n = 1
        /\ Payload[shell.type] \in 0 .. 5 /\ RING_WORDS \in Nat /\ RING_WORDS > 8
    BY <1>1, <1>3, PacketTypes, GraphicsAssumption DEF Driven, Shells, Resting
  <2>2. CASE shell.pc = "ctrl"
    <3>1. s = [pc |-> "zero", type |-> shell.type, n |-> shell.n]
      BY <2>1, <2>2 DEF s
    <3>2. dev' = [head |-> 0, tail |-> 0] /\ ring_head' = ring_head
      BY <2>2 DEF ShellResets
    <3>3. QED
      BY <1>1, <1>2, <1>3, <2>1, <2>2, <3>1, <3>2 DEF Driven, Shells
  <2>3. CASE shell.pc = "zero"
    <3>1. s = [pc |-> "head", type |-> shell.type, n |-> shell.n]
      BY <2>1, <2>3 DEF s
    <3>2. dev' = dev /\ ring_head' = 0
      BY <2>3 DEF ShellResets
    <3>3. QED
      BY <1>1, <1>2, <1>3, <2>1, <2>3, <3>1, <3>2 DEF Driven, Shells
  <2>4. CASE shell.pc = "head"
    <3>1. s = [pc |-> "slot", type |-> shell.type, n |-> shell.n]
      BY <2>1, <2>4 DEF s
    <3>2. dev' = dev /\ ring_head' = ring_head
      BY <1>3, <2>4 DEF ShellResets, Driven
    <3>3. Room' /\ Written(shell.n - 1)' /\ Size' = 3 + Payload[shell.type]
      BY <1>2, <1>3, <2>1, <2>4, <3>1, <3>2 DEF Driven, Room, Size, Written
    <3>4. QED
      BY <1>1, <1>2, <1>3, <2>1, <2>4, <3>1, <3>2, <3>3 DEF Driven, Shells
  <2>5. QED
    BY <1>1, <2>2, <2>3, <2>4
<1>4. QED
  BY <1>2, <1>3 DEF Inv

LEMMA ShellTakesSlotStep ==
  ASSUME Inv, ShellTakesSlot
  PROVE  Inv' /\ Quiet
<1> DEFINE s == [pc |-> "word", type |-> shell.type, n |-> shell.n, at |-> ring_head]
<1>1. /\ ShellGoes(s) /\ UNCHANGED <<ring, dev>> /\ done' = sent' /\ shell.pc = "slot"
      /\ ring_head' = ring_head + 1
  BY DEF ShellTakesSlot
<1>2. /\ Guarded' /\ Quiet /\ UNCHANGED <<owner, torn>> /\ shell' = s /\ (torn \/ Driven)
  BY <1>1, ShellAside
<1>3. ASSUME Driven PROVE Driven'
  <2>1. /\ shell.type \in Types /\ shell.n \in Nat /\ Payload[shell.type] \in 0 .. 5
        /\ RING_WORDS \in Nat
    BY <1>1, <1>3, PacketTypes, GraphicsAssumption DEF Driven, Shells, Resting
  <2>2. /\ Size' = Size /\ (Room => Room') /\ (Written(shell.n - 1) => Written(shell.n - 1)')
    BY <1>1, <1>2 DEF Size, Room, Written
  <2>3. QED
    BY <1>1, <1>2, <1>3, <2>1, <2>2 DEF Driven, Shells
<1>4. QED
  BY <1>2, <1>3 DEF Inv

LEMMA ShellWritesStep ==
  ASSUME Inv, ShellWrites
  PROVE  Inv' /\ Quiet
<1> DEFINE w == PacketWords(shell.type, owner)
           s == [pc |-> IF shell.n = Len(w) THEN "publish" ELSE "slot", type |-> shell.type, n |-> shell.n + 1]
<1>1. /\ ShellGoes(s) /\ UNCHANGED <<ring_head, dev>> /\ done' = sent' /\ shell.pc = "word"
      /\ ring' = [a \in Words |-> IF a = shell.at THEN w[shell.n] ELSE ring[a]]
  BY DEF ShellWrites
<1>2. /\ Guarded' /\ Quiet /\ UNCHANGED <<owner, torn>> /\ shell' = s /\ (torn \/ Driven)
      /\ owner \in Nat
  BY <1>1, ShellAside
<1>3. ASSUME Driven PROVE Driven'
  <2>1. /\ shell.type \in Types /\ Payload[shell.type] \in 0 .. 5
        /\ RING_WORDS \in Nat /\ dev.tail \in Nat /\ ring \in [Words -> Nat] /\ ring_head \in Nat
        /\ shell.n \in 1 .. Size /\ ring_head = dev.tail + shell.n /\ shell.at = ring_head - 1
        /\ Written(shell.n - 1) /\ dev.tail = dev.head /\ Room /\ dev \in [head : Nat, tail : Nat]
    BY <1>1, <1>3, PacketTypes, GraphicsAssumption DEF Driven, Shells, Resting
  <2>2. w \in Seq(Nat) /\ Len(w) = Size
    BY <1>2, <2>1, PacketFacts DEF Size
  <2>3. Size \in Nat
    BY <2>1 DEF Size
  <2>4. ring' \in [Words -> Nat]
    <3>1. w[shell.n] \in Nat
      <4>1. shell.n \in 1 .. Len(w)
        BY <2>1, <2>2
      <4> HIDE DEF w
      <4>2. QED
        BY <4>1, <2>2
    <3> HIDE DEF w
    <3>2. QED
      BY <1>1, <2>1, <3>1
  <2>5. Size' = Size /\ Room'
    BY <1>1, <1>2, <2>1 DEF Size, Room
  <2>6. PacketWords(shell.type, owner)' = w
    BY <1>2
  <2> HIDE DEF w
  <2>7. ASSUME NEW j \in 1 .. shell.n PROVE ring'[dev.tail + j - 1] = w[j]
    <3>1. dev.tail + j - 1 \in Words
      <4>1. j >= 1 /\ j <= Size /\ j \in Int
        BY <2>1, <2>3
      <4>2. dev.tail \in Nat /\ dev.tail + Size <= RING_WORDS /\ RING_WORDS \in Nat
        BY <2>1 DEF Room
      <4>3. QED
        BY <2>3, <4>1, <4>2 DEF Words, SLACK
    <3>2. CASE j = shell.n
      BY <1>1, <2>1, <3>1, <3>2
    <3>3. CASE j # shell.n
      <4>1. j \in 1 .. shell.n - 1 /\ dev.tail + j - 1 # shell.at
        BY <2>1, <2>3, <3>3
      <4>2. ring[dev.tail + j - 1] = w[j]
        BY <2>1, <4>1 DEF Written, w
      <4>3. QED
        BY <1>1, <3>1, <4>1, <4>2
    <3>4. QED
      BY <3>2, <3>3
  <2>8. \A k \in 0 .. shell.n : Written(k)'
    <3>1. ASSUME NEW k \in 0 .. shell.n, NEW j \in 1 .. k PROVE ring'[dev'.tail + j - 1] = w[j]
      <4>1. j \in 1 .. shell.n /\ dev' = dev
        BY <1>1, <2>1, <2>3
      <4>2. QED
        BY <2>7, <4>1
    <3>2. QED
      BY <2>6, <3>1 DEF Written
  <2>9. shell' \in Shells /\ shell'.type = shell.type /\ shell'.n = shell.n + 1
    BY <1>2, <2>1 DEF Shells
  <2>10. CASE shell.n = Size
    <3>1. shell'.pc = "publish"
      BY <1>2, <2>2, <2>10 
    <3>2. Written(Size)'
      BY <2>3, <2>5, <2>8, <2>10
    <3>3. QED
      BY <1>1, <2>1, <2>3, <2>4, <2>5, <2>9, <2>10, <3>1, <3>2 DEF Driven
  <2>11. CASE shell.n # Size
    <3>1. shell'.pc = "slot"
      BY <1>2, <2>2, <2>11
    <3>2. shell'.n \in 1 .. Size /\ shell'.n - 1 = shell.n
      BY <2>1, <2>3, <2>9, <2>11
    <3>3. Written(shell.n - 1)'
      BY <2>1, <2>3, <2>8, <3>2
    <3>4. QED
      BY <1>1, <2>1, <2>3, <2>4, <2>5, <2>9, <3>1, <3>2, <3>3 DEF Driven
  <2>12. QED
    BY <2>10, <2>11
<1>4. QED
  BY <1>2, <1>3 DEF Inv

LEMMA ShellPublishesStep ==
  ASSUME Inv, ShellPublishes
  PROVE  Inv' /\ Quiet
<1> DEFINE s == [pc |-> "bell", type |-> shell.type]
<1>1. /\ ShellGoes(s) /\ UNCHANGED <<ring, ring_head>> /\ done' = sent' /\ shell.pc = "publish"
      /\ dev' = [dev EXCEPT !.head = ring_head]
  BY DEF ShellPublishes
<1>2. /\ Guarded' /\ Quiet /\ UNCHANGED <<owner, torn>> /\ shell' = s /\ (torn \/ Driven)
  BY <1>1, ShellAside
<1>3. ASSUME Driven PROVE Driven'
  <2>1. /\ shell.type \in Types /\ ring_head = dev.tail + Size /\ Room /\ Written(Size)
        /\ ring_head \in Nat /\ dev \in [head : Nat, tail : Nat] /\ ring \in [Words -> Nat]
    BY <1>1, <1>3 DEF Driven, Shells, Resting
  <2>2. dev' = [head |-> ring_head, tail |-> dev.tail]
    BY <1>1, <2>1
  <2>3. shell' \in Shells /\ shell'.type = shell.type /\ shell'.pc = "bell"
    BY <1>2, <2>1 DEF Shells
  <2>4. Size' = Size /\ Room' /\ Written(Size)'
    BY <1>1, <1>2, <2>1, <2>2, <2>3 DEF Size, Room, Written
  <2>5. QED
    BY <1>1, <2>1, <2>2, <2>3, <2>4 DEF Driven
<1>4. QED
  BY <1>2, <1>3 DEF Inv

LEMMA ShellRingsStep ==
  ASSUME Inv, ShellRings
  PROVE  Inv' /\ Quiet
<1>1. /\ ShellGoes(Resting) /\ shell.pc = "bell" /\ UNCHANGED ring_head
      /\ dev' = [dev EXCEPT !.tail = dev.head]
      /\ done' = Decode(ring, dev.tail, dev.head)
      /\ sent' = <<[type |-> Code[shell.type], owner |-> owner]>>
      /\ ring' = Forget(ring, dev.head)
  BY DEF ShellRings
<1>2. /\ Guarded' /\ Quiet /\ UNCHANGED <<owner, torn>> /\ shell' = Resting /\ (torn \/ Driven)
      /\ owner \in Nat
  BY <1>1, ShellAside
<1>3. ASSUME Driven PROVE Driven'
  <2>1. /\ shell.type \in Types /\ dev.head = dev.tail + Size /\ Room /\ Written(Size)
        /\ ring_head = dev.head /\ Payload[shell.type] \in 0 .. 5 /\ RING_WORDS \in Nat
        /\ dev \in [head : Nat, tail : Nat] /\ ring \in [Words -> Nat]
    BY <1>1, <1>3, PacketTypes, GraphicsAssumption DEF Driven, Shells, Resting
  <2>2. /\ dev.tail \in Nat /\ dev.head = dev.tail + 3 + Payload[shell.type]
        /\ dev.tail + 3 + Payload[shell.type] <= RING_WORDS
    BY <2>1 DEF Size, Room
  <2>3. \A k \in 1 .. 3 + Payload[shell.type] : ring[dev.tail + k - 1] = PacketWords(shell.type, owner)[k]
    BY <2>1 DEF Size, Written
  <2>4. Decode(ring, dev.tail, dev.head) = <<[type |-> Code[shell.type], owner |-> owner]>>
    <3>1. Decode(ring, dev.tail, dev.tail + 3 + Payload[shell.type]) = <<[type |-> Code[shell.type], owner |-> owner]>>
      BY <1>2, <2>1, <2>2, <2>3, DecodePacket, ZenonT(60)
    <3>2. QED
      BY <3>1, <2>2
  <2>5. Forget(ring, dev.head) \in [Words -> Nat]
    BY <2>1 DEF Forget
  <2>6. dev' = [head |-> dev.head, tail |-> dev.head]
    BY <1>1, <2>1
  <2>7. QED
    BY <1>1, <1>2, <2>1, <2>2, <2>4, <2>5, <2>6 DEF Driven, Resting, Shells
<1>4. QED
  BY <1>2, <1>3 DEF Inv

LEMMA StepInv == Inv /\ [Next]_vars => Inv' /\ (Quiet \/ UNCHANGED vars)
<1> SUFFICES ASSUME Inv, [Next]_vars PROVE Inv' /\ (Quiet \/ UNCHANGED vars)
  OBVIOUS
<1>1. CASE UNCHANGED vars
  <2>1. Guarded' /\ (torn \/ Driven)'
    BY <1>1 DEF Inv, Guarded, Driven, Size, Written, Room, vars
  <2>2. QED
    BY <1>1, <2>1 DEF Inv
<1>2. ASSUME NEW p \in Procs, Process(p) \/ Create(p) PROVE Inv' /\ Quiet
  BY <1>2, GpuDrawStep, WriteFbStep, OtherCallStep, ForkCreateStep DEF Process
<1>3. CASE Timer
  BY <1>3, TimerStep
<1>4. CASE Shell
  BY <1>4, ShellTestsStep, ShellResetsStep, ShellTakesSlotStep, ShellWritesStep,
     ShellPublishesStep, ShellRingsStep DEF Shell
<1>5. QED
  BY <1>1, <1>2, <1>3, <1>4 DEF Next

THEOREM Invariant == Spec => []Inv
<1>1. Init => Inv
  BY InitInv
<1>2. Inv /\ [Next]_vars => Inv'
  BY StepInv
<1>3. QED
  BY <1>1, <1>2, PTL DEF Spec

\* Neither end of the ring leaves its words for the framebuffer behind them.
LEMMA InsideTheRing == ASSUME Inv, ~torn PROVE InWindow
<1>1. Driven /\ RING_WORDS \in Nat /\ RING_WORDS > 8
  BY GraphicsAssumption DEF Inv
<1>2. CASE shell.pc \in {"rest", "ctrl", "zero", "head"}
  BY <1>1, <1>2 DEF Driven, InWindow
<1>3. CASE shell.pc \in {"slot", "word", "publish", "bell"}
  <2>1. Payload[shell.type] \in 0 .. 5 /\ dev.tail \in Nat
    BY <1>1, <1>3, PacketTypes DEF Driven, Shells, Resting
  <2>2. QED
    BY <1>1, <1>3, <2>1 DEF Driven, Room, Size, InWindow
<1>4. QED
  BY <1>1, <1>2, <1>3 DEF Driven, Shells, Resting

\* The device decodes exactly the packets that the driver was given, wherever
\* in the ring they lie, for a ring and a frame of any size, and neither side
\* leaves the ring.
THEOREM DecodedAsSent == Spec => []RunsAsSent
<1>1. Inv => RunsAsSent
  BY InsideTheRing DEF Inv, Driven, RunsAsSent
<1>2. QED
  BY <1>1, Invariant, PTL

\* Quarantine: a process whose faults are used up draws nothing, whichever
\* call it makes, until it is reset.
THEOREM QuarantineKept == Spec => QuarantineHolds
<1>1. Inv /\ [Next]_vars => Quiet \/ UNCHANGED vars
  BY StepInv
<1>2. QED
  BY <1>1, Invariant, PTL DEF Spec, QuarantineHolds, Quiet

=============================================================================
