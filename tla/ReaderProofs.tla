---------------------------- MODULE ReaderProofs ----------------------------
(***************************************************************************)
(* Proofs about the two ends of a connection.  sent is one stream of       *)
(* packets; the bytes a receiver holds and those on the wire are what      *)
(* remains of it, from a position on: the server's is always the start of  *)
(* the packet after the processed ones, the client's that start or a place *)
(* within the body that follows, as long as no chunk has ended within a    *)
(* header.  Lengths, weights and positions are recursive functions; what   *)
(* they compute follows from the least element of a set of naturals.       *)
(***************************************************************************)
EXTENDS MCReaders, StreamProofs

\* The weights of a header's bytes are positive and satisfy their recursion.
LEMMA WeightIs ==
  /\ Weight \in [0 .. HeaderSize -> Nat \ {0}]
  /\ Weight[0] = 1
  /\ \A i \in 1 .. HeaderSize : Weight[i] = Base * Weight[i - 1]
<1>. DEFINE P == Nat \ {0}
            step == [vi \in P \X Nat |-> Base * vi[1]]
            Eq(g) == g = [i \in 0 .. HeaderSize |-> IF i = 0 THEN 1 ELSE Base * g[i - 1]]
<1>0. HeaderSize \in Nat /\ Base \in P
  BY FramingAssumption
<1>1. \A v \in P : Base * v \in P
  BY <1>0, Z3
<1>2. \E f : Unfolds(f, P, HeaderSize, 1, step)
  <2>1. 1 \in P /\ step \in [P \X Nat -> P]
    BY <1>1
  <2>2. HeaderSize \in Nat
    BY <1>0
  <2>. HIDE DEF step, P
  <2>. QED
    BY ONLY <2>1, <2>2, Recursion
<1>3. PICK f : f \in [0 .. HeaderSize -> P] /\ f[0] = 1 /\ \A i \in 1 .. HeaderSize : f[i] = step[<<f[i - 1], i>>]
  BY <1>2 DEF Unfolds
<1>4. Eq(f)
  <2>1. \A i \in 1 .. HeaderSize : i - 1 \in 0 .. HeaderSize /\ f[i - 1] \in P /\ i \in Nat
    BY <1>3, <1>0
  <2>2. \A i \in 1 .. HeaderSize : f[i] = Base * f[i - 1]
    BY <1>3, <2>1
  <2>3. \A i \in 0 .. HeaderSize : i # 0 => i \in 1 .. HeaderSize
    BY <1>0
  <2>. HIDE DEF P, step
  <2>. QED
    BY <1>3, <2>2, <2>3
<1>5. Eq(Weight)
  <2>. HIDE DEF P, step
  <2>. QED
    BY <1>4 DEF Weight
<1>6. Weight[0] = 1 /\ \A i \in 1 .. HeaderSize : Weight[i] = Base * Weight[i - 1]
  <2>1. 0 \in 0 .. HeaderSize /\ \A i \in 1 .. HeaderSize : i \in 0 .. HeaderSize /\ i # 0
    BY <1>0
  <2>. HIDE DEF P, step
  <2>. QED
    BY <1>5, <2>1
<1>. DEFINE T == {i \in 0 .. HeaderSize : Weight[i] \in P}
<1>7. \A i \in 0 .. HeaderSize : i \in T
  <2>1. 0 \in T
    BY <1>0, <1>6
  <2>2. ASSUME NEW i \in 1 .. HeaderSize, i - 1 \in T PROVE i \in T
    BY <1>0, <1>1, <1>6, <2>2
  <2>. HIDE DEF T
  <2>. QED
    BY <1>0, <2>1, <2>2, Induction
<1>. QED
  <2>. HIDE DEF step
  <2>. QED
    BY <1>5, <1>6, <1>7

\* Division by d undoes d * p + t.
LEMMA DivUnique ==
  ASSUME NEW d \in Nat \ {0}, NEW p \in Nat, NEW t \in Nat, t < d
  PROVE  (d * p + t) \div d = p
<1>. DEFINE a == d * p + t
            q == a \div d
            r == a % d
<1>1. a \in Nat /\ q \in Nat /\ r \in Nat /\ r < d /\ a = d * q + r
  BY Z3
<1>2. d * (p - q) = r - t
  BY <1>1, Z3
<1>3. ~ p > q
  <2>1. ASSUME p - q >= 1 PROVE d * (p - q) >= d
    BY <2>1, <1>1, Z3
  <2>. HIDE DEF q, r, a
  <2>. QED
    BY <2>1, <1>1, <1>2
<1>4. ~ q > p
  <2>1. ASSUME p - q <= -1 PROVE d * (p - q) <= -d
    BY <2>1, <1>1, Z3
  <2>. HIDE DEF q, r, a
  <2>. QED
    BY <2>1, <1>1, <1>2
<1>. QED
  <2>. HIDE DEF q, r, a
  <2>1. q = p
    BY <1>1, <1>3, <1>4
  <2>. USE DEF q, a
  <2>. QED
    BY <2>1

\* One more digit of n in base b: what htonl shifts out, ntohl shifts back in.
LEMMA NextDigit ==
  ASSUME NEW n \in Nat, NEW w \in Nat \ {0}, NEW b \in Nat \ {0}
  PROVE  n \div w = b * (n \div (b * w)) + ((n \div w) % b)
<1>. DEFINE q == n \div w
            r == n % w
            p == q \div b
            s == q % b
<1>1. q \in Nat /\ r \in Nat /\ r < w /\ n = w * q + r
  BY Z3
<1>2. p \in Nat /\ s \in Nat /\ s < b /\ q = b * p + s
  <2>. HIDE DEF q
  <2>. QED
    BY <1>1, Z3
<1>3. b * w \in Nat \ {0}
  BY Z3
<1>4. w * s + r \in Nat /\ w * s + r < b * w
  <2>. HIDE DEF q, r, p, s
  <2>1. w * s <= w * (b - 1)
    BY <1>1, <1>2, Z3
  <2>2. w * (b - 1) + w = b * w /\ w * s \in Nat
    BY <1>1, <1>2, Z3
  <2>. QED
    BY <1>1, <2>1, <2>2
<1>5. n = (b * w) * p + (w * s + r)
  <2>. HIDE DEF q, r, p, s
  <2>. QED
    BY <1>1, <1>2, Z3
<1>6. n \div (b * w) = p
  <2>. HIDE DEF q, r, p, s
  <2>. QED
    BY <1>1, <1>2, <1>3, <1>4, <1>5, DivUnique
<1>. QED
  BY <1>2, <1>6
-----------------------------------------------------------------------------
\* Length unfolds: each byte of a header is one step of Horner's rule.
LEMMA LengthIs ==
  ASSUME NEW bytes, \A i \in 1 .. HeaderSize : bytes[i] \in Nat
  PROVE  \E v \in [0 .. HeaderSize -> Nat] :
           /\ v[0] = 0
           /\ \A i \in 1 .. HeaderSize : v[i] = Base * v[i - 1] + bytes[i]
           /\ Length(bytes) = v[HeaderSize]
<1>. DEFINE D == Nat
            step == [vi \in D \X Nat |-> IF vi[2] \in 1 .. HeaderSize THEN Base * vi[1] + bytes[vi[2]] ELSE 0]
            Eq(g) == g = [i \in 0 .. HeaderSize |-> IF i = 0 THEN 0 ELSE Base * g[i - 1] + bytes[i]]
            value == CHOOSE g : Eq(g)
<1>0. HeaderSize \in Nat /\ Base \in Nat
  BY FramingAssumption
<1>1. step \in [D \X Nat -> D]
  <2>1. ASSUME NEW x \in Nat, NEW i \in 1 .. HeaderSize PROVE Base * x + bytes[i] \in Nat
    <3>1. Base * x \in Nat /\ bytes[i] \in Nat
      BY <1>0, Z3
    <3>. QED
      BY <3>1
  <2>. QED
    BY <2>1
<1>2. \E f : Unfolds(f, D, HeaderSize, 0, step)
  <2>1. 0 \in D
    OBVIOUS
  <2>. HIDE DEF step, D
  <2>. QED
    BY <1>0, <1>1, <2>1, Recursion
<1>3. PICK f : f \in [0 .. HeaderSize -> D] /\ f[0] = 0 /\ \A i \in 1 .. HeaderSize : f[i] = step[<<f[i - 1], i>>]
  BY <1>2 DEF Unfolds
<1>4. Eq(f)
  <2>1. \A i \in 1 .. HeaderSize : i - 1 \in 0 .. HeaderSize /\ f[i - 1] \in D /\ i \in Nat
    <3>1. f \in [0 .. HeaderSize -> D]
      BY <1>3
    <3>2. \A i \in 1 .. HeaderSize : i - 1 \in 0 .. HeaderSize /\ i \in Nat
      BY <1>0
    <3>. HIDE DEF D
    <3>. QED
      BY ONLY <3>1, <3>2
  <2>2. \A i \in 1 .. HeaderSize : f[i] = Base * f[i - 1] + bytes[i]
    BY <1>3, <2>1
  <2>3. \A i \in 0 .. HeaderSize : i # 0 => i \in 1 .. HeaderSize
    BY <1>0
  <2>. HIDE DEF D, step
  <2>. QED
    BY <1>3, <2>2, <2>3
<1>5. Eq(value)
  <2>. HIDE DEF D, step
  <2>. QED
    BY <1>4
<1>6. value[0] = 0 /\ \A i \in 1 .. HeaderSize : value[i] = Base * value[i - 1] + bytes[i]
  <2>1. 0 \in 0 .. HeaderSize /\ \A i \in 1 .. HeaderSize : i \in 0 .. HeaderSize /\ i # 0
    BY <1>0
  <2>. HIDE DEF D, step, value
  <2>. QED
    BY <1>5, <2>1
<1>. DEFINE T == {i \in 0 .. HeaderSize : value[i] \in Nat}
<1>7. \A i \in 0 .. HeaderSize : i \in T
  <2>. HIDE DEF value
  <2>1. 0 \in T
    BY <1>0, <1>6
  <2>2. ASSUME NEW i \in 1 .. HeaderSize, i - 1 \in T PROVE i \in T
    <3>1. i \in 0 .. HeaderSize /\ value[i] = Base * value[i - 1] + bytes[i] /\ value[i - 1] \in Nat
      BY <1>0, <1>6, <2>2
    <3>2. Base * value[i - 1] \in Nat /\ bytes[i] \in Nat
      BY <1>0, <3>1, Z3
    <3>. QED
      BY <3>1, <3>2
  <2>. HIDE DEF T
  <2>. QED
    BY <1>0, <2>1, <2>2, Induction
<1>8. Length(bytes) = value[HeaderSize]
  BY DEF Length
<1>. QED
  <2>. HIDE DEF step, value
  <2>. QED
    BY <1>5, <1>6, <1>7, <1>8

\* htonl yields HeaderSize bytes.
LEMMA HeaderBytes ==
  ASSUME NEW n \in Nat
  PROVE  Header(n) \in [1 .. HeaderSize -> Bytes]
<1>1. HeaderSize \in Nat /\ Base \in Nat \ {0}
  BY FramingAssumption
<1>2. ASSUME NEW i \in 1 .. HeaderSize PROVE (n \div Weight[HeaderSize - i]) % Base \in Bytes
  <2>1. Weight[HeaderSize - i] \in Nat \ {0}
    BY <1>1, WeightIs
  <2>2. n \div Weight[HeaderSize - i] \in Nat
    BY <2>1, Z3
  <2>. QED
    BY <1>1, <2>2, Z3 DEF Bytes
<1>. QED
  BY <1>2 DEF Header

\* ntohl undoes htonl: HeaderSize bytes equal to the header of n denote n.
LEMMA LengthOfHeader ==
  ASSUME NEW n \in Nat, n < Weight[HeaderSize],
         NEW bytes, \A i \in 1 .. HeaderSize : bytes[i] = Header(n)[i]
  PROVE  Length(bytes) = n
<1>0. HeaderSize \in Nat \ {0} /\ Base \in Nat \ {0}
  BY FramingAssumption
<1>1. \A i \in 1 .. HeaderSize : bytes[i] \in Nat
  <2>1. \A i \in 1 .. HeaderSize : Header(n)[i] \in Bytes
    BY HeaderBytes
  <2>. QED
    BY <2>1, <1>0 DEF Bytes
<1>2. PICK v \in [0 .. HeaderSize -> Nat] :
        /\ v[0] = 0
        /\ \A i \in 1 .. HeaderSize : v[i] = Base * v[i - 1] + bytes[i]
        /\ Length(bytes) = v[HeaderSize]
  BY <1>1, LengthIs
<1>. DEFINE T == {i \in 0 .. HeaderSize : v[i] = n \div Weight[HeaderSize - i]}
<1>3. 0 \in T
  <2>1. Weight[HeaderSize] \in Nat \ {0}
    BY <1>0, WeightIs
  <2>2. n = Weight[HeaderSize] * 0 + n
    BY <2>1, Z3
  <2>3. n \div Weight[HeaderSize] = 0
    BY <2>1, <2>2, DivUnique
  <2>. QED
    BY <1>0, <1>2, <2>3
<1>4. ASSUME NEW i \in 1 .. HeaderSize, i - 1 \in T PROVE i \in T
  <2>. DEFINE w == Weight[HeaderSize - i]
  <2>1. w \in Nat \ {0} /\ Weight[HeaderSize - (i - 1)] = Base * w
    <3>1. HeaderSize - (i - 1) \in 1 .. HeaderSize /\ (HeaderSize - (i - 1)) - 1 = HeaderSize - i
      BY <1>0
    <3>2. HeaderSize - i \in 0 .. HeaderSize
      BY <1>0
    <3>. QED
      BY <3>1, <3>2, WeightIs
  <2>2. v[i - 1] = n \div (Base * w)
    BY <1>4, <2>1
  <2>3. bytes[i] = (n \div w) % Base
    BY DEF Header
  <2>4. v[i] = Base * v[i - 1] + bytes[i]
    BY <1>2
  <2>. HIDE DEF w
  <2>5. v[i] = n \div w
    <3>1. n \div w = Base * (n \div (Base * w)) + ((n \div w) % Base)
      BY <1>0, <2>1, NextDigit
    <3>. QED
      BY ONLY <2>2, <2>3, <2>4, <3>1
  <2>6. i \in 0 .. HeaderSize
    BY <1>0
  <2>. USE DEF w
  <2>. QED
    BY <2>5, <2>6
<1>5. HeaderSize \in T
  <2>. HIDE DEF T
  <2>1. \A i \in 0 .. HeaderSize : i \in T
    BY <1>0, <1>3, <1>4, Induction
  <2>. QED
    BY <1>0, <2>1
<1>6. v[HeaderSize] = n \div 1
  <2>1. HeaderSize - HeaderSize = 0
    BY <1>0
  <2>. QED
    BY <1>5, <2>1, WeightIs
<1>. QED
  BY <1>2, <1>6

\* A packet is the header of its length followed by the body.
LEMMA PacketIs ==
  ASSUME NEW m \in Messages
  PROVE  /\ m \in Seq(Bytes)
         /\ Packet(m) \in Seq(Bytes)
         /\ Len(Packet(m)) = HeaderSize + Len(m)
         /\ \A j \in 1 .. HeaderSize : Packet(m)[j] = Header(Len(m))[j]
         /\ \A j \in 1 .. Len(m) : Packet(m)[HeaderSize + j] = m[j]
<1>1. m \in Seq(Bytes) /\ Len(m) \in Nat /\ HeaderSize \in Nat
  BY FramingAssumption
<1>2. Header(Len(m)) \in Seq(Bytes) /\ Len(Header(Len(m))) = HeaderSize
  <2>1. Header(Len(m)) \in [1 .. HeaderSize -> Bytes]
    BY <1>1, HeaderBytes
  <2>. QED
    BY <2>1, <1>1
<1>. QED
  BY <1>1, <1>2 DEF Packet
-----------------------------------------------------------------------------
\* The packets of the messages in s, where they begin, and what is left of them.
Starts(s) == Written(Packets(s))
Position(s, rest) == Consumed(Packets(s), rest)
Left(s, rest) == Remains(Packets(s), rest)

\* The packets are the pieces of the stream.
LEMMA PacketsAre ==
  ASSUME NEW s \in Seq(Messages)
  PROVE  /\ Packets(s) \in Seq(Seq(Bytes)) /\ Len(Packets(s)) = Len(s) /\ Len(s) \in Nat
         /\ \A k \in 1 .. Len(s) : Packets(s)[k] = Packet(s[k])
<1>1. \A k \in 1 .. Len(s) : Packet(s[k]) \in Seq(Bytes)
  BY PacketIs
<1>2. Packets(s) \in [1 .. Len(s) -> Seq(Bytes)]
  BY <1>1 DEF Packets
<1>. QED
  BY <1>2 DEF Packets

\* One more message is one more packet.
LEMMA PacketsAppend ==
  ASSUME NEW s \in Seq(Messages), NEW m \in Messages
  PROVE  Packets(Append(s, m)) = Append(Packets(s), Packet(m))
<1>1. /\ Packets(s) \in Seq(Seq(Bytes)) /\ Len(Packets(s)) = Len(s) /\ Len(s) \in Nat
      /\ \A k \in 1 .. Len(s) : Packets(s)[k] = Packet(s[k])
  BY PacketsAre
<1>2. Packet(m) \in Seq(Bytes)
  BY PacketIs
<1>. DEFINE t == Append(s, m)
            l == Packets(t)
            r == Append(Packets(s), Packet(m))
<1>3. /\ t \in Seq(Messages) /\ Len(t) = Len(s) + 1 /\ t[Len(s) + 1] = m
      /\ \A k \in 1 .. Len(s) : t[k] = s[k]
  OBVIOUS
<1>. HIDE DEF t
<1>4. /\ l \in Seq(Seq(Bytes)) /\ Len(l) = Len(s) + 1
      /\ \A k \in 1 .. Len(s) + 1 : l[k] = Packet(t[k])
  BY <1>3, PacketsAre
<1>5. /\ r \in Seq(Seq(Bytes)) /\ Len(r) = Len(s) + 1 /\ r[Len(s) + 1] = Packet(m)
      /\ \A k \in 1 .. Len(s) : r[k] = Packets(s)[k]
  BY <1>1, <1>2
<1>. HIDE DEF l, r
<1>6. ASSUME NEW k \in 1 .. Len(s) + 1 PROVE l[k] = r[k]
  <2>1. CASE k \in 1 .. Len(s)
    <3>1. l[k] = Packet(s[k]) /\ r[k] = Packet(s[k])
      BY <1>1, <1>3, <1>4, <1>5, <2>1
    <3>. QED
      BY <3>1
  <2>2. CASE k = Len(s) + 1
    <3>1. l[k] = Packet(t[k])
      BY <1>4
    <3>. QED
      BY <1>3, <1>5, <2>2, <3>1
  <2>. QED
    BY <1>1, <2>1, <2>2
<1>7. l = r
  BY ONLY <1>4, <1>5, <1>6
<1>. QED
  BY <1>7 DEF l, r, t

\* A packet takes HeaderSize bytes and its body.
LEMMA StartsAre ==
  ASSUME NEW s \in Seq(Messages)
  PROVE  /\ Starts(s) \in [0 .. Len(s) -> Nat]
         /\ Starts(s)[0] = 0
         /\ \A k \in 1 .. Len(s) : Starts(s)[k] = Starts(s)[k - 1] + HeaderSize + Len(s[k])
<1>1. /\ Packets(s) \in Seq(Seq(Bytes)) /\ Len(Packets(s)) = Len(s)
      /\ \A k \in 1 .. Len(s) : Packets(s)[k] = Packet(s[k])
  BY PacketsAre
<1>2. /\ Starts(s) \in [0 .. Len(s) -> Nat] /\ Starts(s)[0] = 0
      /\ \A k \in 1 .. Len(s) : Starts(s)[k] = Starts(s)[k - 1] + Len(Packets(s)[k])
  BY <1>1, WrittenIs DEF Starts
<1>3. ASSUME NEW k \in 1 .. Len(s) PROVE Starts(s)[k] = Starts(s)[k - 1] + HeaderSize + Len(s[k])
  <2>. DEFINE w == Starts(s)[k - 1]
              l == Len(s[k])
  <2>1. Starts(s)[k] = w + Len(Packet(s[k]))
    BY <1>1, <1>2
  <2>2. s[k] \in Messages
    OBVIOUS
  <2>3. Len(Packet(s[k])) = HeaderSize + l /\ l \in Nat /\ HeaderSize \in Nat
    BY SMTT(20), <2>2, PacketIs, FramingAssumption
  <2>4. w \in Nat
    <3>1. k - 1 \in 0 .. Len(s)
      OBVIOUS
    <3>. QED
      BY <1>2, <3>1
  <2>5. w + (HeaderSize + l) = w + HeaderSize + l
    <3>. HIDE DEF w, l
    <3>. QED
      BY <2>3, <2>4
  <2>. QED
    BY <2>1, <2>3, <2>5
<1>. QED
  BY <1>2, <1>3

\* One more message moves none of the packets before it.
LEMMA StartsAppend ==
  ASSUME NEW s \in Seq(Messages), NEW m \in Messages
  PROVE  /\ \A k \in 0 .. Len(s) : Starts(Append(s, m))[k] = Starts(s)[k]
         /\ Starts(Append(s, m))[Len(s) + 1] = Starts(s)[Len(s)] + HeaderSize + Len(m)
<1>1. Packets(s) \in Seq(Seq(Bytes)) /\ Len(Packets(s)) = Len(s) /\ Packet(m) \in Seq(Bytes)
  BY PacketsAre, PacketIs
<1>2. \A k \in 0 .. Len(s) : Starts(Append(s, m))[k] = Starts(s)[k]
  <2>1. \A k \in 0 .. Len(s) : Written(Append(Packets(s), Packet(m)))[k] = Written(Packets(s))[k]
    BY <1>1, WrittenAppend
  <2>. QED
    BY <2>1, PacketsAppend DEF Starts
<1>3. Starts(Append(s, m))[Len(s) + 1] = Starts(s)[Len(s)] + HeaderSize + Len(m)
  <2>. DEFINE t == Append(s, m)
  <2>1. /\ t \in Seq(Messages) /\ Len(t) = Len(s) + 1 /\ t[Len(s) + 1] = m /\ Len(s) \in Nat
    OBVIOUS
  <2>. HIDE DEF t
  <2>2. Starts(t)[Len(s) + 1] = Starts(t)[(Len(s) + 1) - 1] + HeaderSize + Len(t[Len(s) + 1])
    <3>1. Len(s) + 1 \in 1 .. Len(t)
      BY <2>1
    <3>. QED
      BY <2>1, <3>1, StartsAre
  <2>3. (Len(s) + 1) - 1 = Len(s) /\ Len(s) \in 0 .. Len(s)
    BY <2>1
  <2>. QED
    BY <1>2, <2>1, <2>2, <2>3 DEF t
<1>. QED
  BY <1>2, <1>3

\* Nothing is left of no messages.
LEMMA LeftEmpty ==
  Left(<<>>, <<>>) /\ Position(<<>>, <<>>) = 0
<1>1. Packets(<<>>) = <<>>
  <2>1. <<>> \in Seq(Messages) /\ Len(<<>>) = 0
    OBVIOUS
  <2>2. Packets(<<>>) \in Seq(Seq(Bytes)) /\ Len(Packets(<<>>)) = 0
    BY <2>1, PacketsAre
  <2>. QED
    BY <2>2
<1>. QED
  BY <1>1, RemainsEmpty DEF Left, Position

\* A packet of the stream ends within it.
LEMMA PacketFits ==
  ASSUME NEW s \in Seq(Messages), NEW k \in 1 .. Len(s)
  PROVE  /\ s[k] \in Messages /\ Len(s[k]) \in Nat
         /\ Starts(s)[k - 1] \in Nat /\ Starts(s)[Len(s)] \in Nat
<1>1. s[k] \in Messages /\ Len(s) \in Nat /\ k - 1 \in 0 .. Len(s) /\ Len(s) \in 0 .. Len(s)
  OBVIOUS
<1>2. Len(s[k]) \in Nat
  BY <1>1, PacketIs
<1>3. Starts(s)[k - 1] \in Nat /\ Starts(s)[Len(s)] \in Nat
  BY <1>1, StartsAre
<1>. QED
  BY <1>1, <1>2, <1>3

\* Writing a packet lengthens what is left, and moves no position.
LEMMA LeftAppend ==
  ASSUME NEW s \in Seq(Messages), NEW rest \in Seq(Bytes), Left(s, rest),
         NEW m \in Messages
  PROVE  /\ Left(Append(s, m), rest \o Packet(m))
         /\ Position(Append(s, m), rest \o Packet(m)) = Position(s, rest)
<1>1. Packets(s) \in Seq(Seq(Bytes)) /\ Packet(m) \in Seq(Bytes) /\ Remains(Packets(s), rest)
  BY PacketsAre, PacketIs DEF Left
<1>2. /\ Remains(Append(Packets(s), Packet(m)), rest \o Packet(m))
      /\ Consumed(Append(Packets(s), Packet(m)), rest \o Packet(m)) = Consumed(Packets(s), rest)
  BY <1>1, RemainsAppend
<1>. QED
  BY <1>2, PacketsAppend DEF Left, Position

\* Reading n bytes moves the position by n.
LEMMA LeftDrop ==
  ASSUME NEW s \in Seq(Messages), NEW rest \in Seq(Bytes), Left(s, rest),
         NEW n \in 0 .. Len(rest)
  PROVE  /\ Left(s, Drop(rest, n))
         /\ Position(s, Drop(rest, n)) = Position(s, rest) + n
<1>1. Packets(s) \in Seq(Seq(Bytes)) /\ Remains(Packets(s), rest)
  BY PacketsAre DEF Left
<1>. QED
  BY <1>1, RemainsDrop DEF Left, Position, Drop

\* Within a packet, what is left begins with the rest of that packet.
LEMMA LeftNext ==
  ASSUME NEW s \in Seq(Messages), NEW rest \in Seq(Bytes), Left(s, rest),
         NEW k \in 1 .. Len(s), NEW c \in 0 .. HeaderSize + Len(s[k]),
         Position(s, rest) = Starts(s)[k - 1] + c
  PROVE  /\ Len(rest) >= HeaderSize + Len(s[k]) - c
         /\ \A i \in 1 .. HeaderSize + Len(s[k]) - c : rest[i] = Packet(s[k])[c + i]
<1>1. /\ Packets(s) \in Seq(Seq(Bytes)) /\ k \in 1 .. Len(Packets(s))
      /\ Packets(s)[k] = Packet(s[k]) /\ s[k] \in Messages /\ Remains(Packets(s), rest)
  BY PacketsAre DEF Left
<1>2. Len(Packet(s[k])) = HeaderSize + Len(s[k])
  BY <1>1, PacketIs
<1>3. c \in 0 .. Len(Packets(s)[k]) /\ Consumed(Packets(s), rest) = Written(Packets(s))[k - 1] + c
  BY <1>1, <1>2 DEF Position, Starts
<1>4. /\ Len(rest) >= Len(Packets(s)[k]) - c
      /\ \A i \in 1 .. Len(Packets(s)[k]) - c : rest[i] = Packets(s)[k][c + i]
  BY <1>1, <1>3, RemainsNext
<1>. DEFINE l == Len(Packets(s)[k])
            p == Packet(s[k])
            h == HeaderSize + Len(s[k])
<1>5. l = h
  BY <1>1, <1>2
<1>6. Len(rest) >= l - c /\ \A i \in 1 .. l - c : rest[i] = p[c + i]
  BY <1>1, <1>4
<1>7. Len(rest) >= h - c /\ \A i \in 1 .. h - c : rest[i] = p[c + i]
  <2>. HIDE DEF l, p, h
  <2>. QED
    BY ONLY <1>5, <1>6
<1>8. h - c = HeaderSize + Len(s[k]) - c
  <2>1. HeaderSize \in Nat /\ Len(s[k]) \in Nat
    BY <1>1, FramingAssumption
  <2>2. \A x, y, z \in Int : (x + y) - z = x + y - z
    OBVIOUS
  <2>. QED
    BY <2>1, <2>2
<1>. QED
  BY <1>7, <1>8

\* The position is where the bytes that are left begin.
LEMMA PositionIs ==
  ASSUME NEW s \in Seq(Messages)
  PROVE  \A rest : Position(s, rest) = Starts(s)[Len(s)] - Len(rest)
BY PacketsAre DEF Position, Starts, Consumed

\* The two parts of a sequence of bytes that is cut after n.
LEMMA CutBytes ==
  ASSUME NEW a \in Seq(Bytes), NEW n \in 0 .. Len(a)
  PROVE  /\ Drop(a, n) \in Seq(Bytes) /\ Len(Drop(a, n)) = Len(a) - n
         /\ \A i \in 1 .. Len(a) - n : Drop(a, n)[i] = a[n + i]
         /\ SubSeq(a, 1, n) \in Seq(Bytes) /\ Len(SubSeq(a, 1, n)) = n
         /\ \A i \in 1 .. n : SubSeq(a, 1, n)[i] = a[i]
BY CutIs DEF Drop

\* Bytes that move from the wire to a buffer, or are taken off the buffer, are moved
\* along, or taken off, one stream.
LEMMA MoveBytes ==
  ASSUME NEW front \in Seq(Bytes), NEW back \in Seq(Bytes), NEW n \in 0 .. Len(back)
  PROVE  /\ front \o SubSeq(back, 1, n) \in Seq(Bytes)
         /\ (front \o SubSeq(back, 1, n)) \o Drop(back, n) = front \o back
BY MoveFront DEF Drop

LEMMA DropBytes ==
  ASSUME NEW front \in Seq(Bytes), NEW back \in Seq(Bytes), NEW n \in 0 .. Len(front)
  PROVE  Drop(front, n) \o back = Drop(front \o back, n)
BY DropFront DEF Drop

\* The server's copies of the framing operators are the framing operators.
LEMMA SameFraming ==
  /\ \A b : S!Length(b) = Length(b)
  /\ \A b, n : S!Drop(b, n) = Drop(b, n)
  /\ \A m : S!Packet(m) = Packet(m)
  /\ S!SendMessage <=> SendMessage
<1>1. \A m : S!Packet(m) = Packet(m)
  <2>1. S!Weight = Weight
    BY DEF S!Weight, Weight
  <2>. QED
    BY <2>1 DEF S!Packet, Packet, S!Header, Header
<1>2. S!SendMessage <=> SendMessage
  BY <1>1 DEF S!SendMessage, SendMessage
<1>3. \A b : S!Length(b) = Length(b)
  BY DEF S!Length, Length
<1>. QED
  BY <1>1, <1>2, <1>3 DEF S!Drop, Drop

\* At the start of a packet, a buffer that holds a header denotes the length of its body.
LEMMA FrontIs ==
  ASSUME NEW s \in Seq(Messages), NEW front \in Seq(Bytes), NEW back \in Seq(Bytes),
         Left(s, front \o back), NEW k \in 1 .. Len(s),
         Position(s, front \o back) = Starts(s)[k - 1]
  PROVE  /\ Len(front \o back) >= HeaderSize + Len(s[k])
         /\ \A i \in 1 .. HeaderSize + Len(s[k]) : (front \o back)[i] = Packet(s[k])[i]
         /\ Len(front) >= HeaderSize => Length(front) = Len(s[k])
<1>. DEFINE rest == front \o back
<1>1. /\ rest \in Seq(Bytes) /\ Len(rest) = Len(front) + Len(back)
      /\ Len(front) \in Nat /\ Len(back) \in Nat
      /\ \A i \in 1 .. Len(front) : rest[i] = front[i]
  OBVIOUS
<1>2. s[k] \in Messages /\ Len(s[k]) \in Nat /\ HeaderSize \in Nat /\ Starts(s)[k - 1] \in Nat
  BY PacketFits, FramingAssumption
<1>. HIDE DEF rest
<1>3. /\ Len(rest) >= HeaderSize + Len(s[k]) - 0
      /\ \A i \in 1 .. HeaderSize + Len(s[k]) - 0 : rest[i] = Packet(s[k])[0 + i]
  <2>1. 0 \in 0 .. HeaderSize + Len(s[k]) /\ Position(s, rest) = Starts(s)[k - 1] + 0
    BY <1>2 DEF rest
  <2>2. Left(s, rest)
    BY DEF rest
  <2>. QED
    BY ONLY <1>1, <2>1, <2>2, LeftNext, s \in Seq(Messages), k \in 1 .. Len(s)
<1>4. /\ Len(rest) >= HeaderSize + Len(s[k])
      /\ \A i \in 1 .. HeaderSize + Len(s[k]) : rest[i] = Packet(s[k])[i]
  <2>1. HeaderSize + Len(s[k]) - 0 = HeaderSize + Len(s[k])
    BY <1>2
  <2>2. \A i \in 1 .. HeaderSize + Len(s[k]) : 0 + i = i
    BY <1>2
  <2>. QED
    BY <1>3, <2>1, <2>2
<1>5. ASSUME Len(front) >= HeaderSize PROVE Length(front) = Len(s[k])
  <2>1. ASSUME NEW i \in 1 .. HeaderSize PROVE front[i] = Header(Len(s[k]))[i]
    <3>1. i \in 1 .. Len(front) /\ i \in 1 .. HeaderSize + Len(s[k])
      BY <1>1, <1>2, <1>5
    <3>. QED
      BY <3>1, <1>1, <1>2, <1>4, PacketIs
  <2>2. Len(s[k]) < Weight[HeaderSize]
    BY <1>2, FramingAssumption
  <2>. QED
    BY <1>2, <2>1, <2>2, LengthOfHeader
<1>. QED
  BY <1>4, <1>5 DEF rest

\* A message that is written is appended whole.
LEMMA WireSend ==
  ASSUME sent \in Seq(Messages), wire \in Seq(Bytes), SendMessage
  PROVE  \E m \in Messages :
           /\ sent' = Append(sent, m) /\ sent' \in Seq(Messages)
           /\ wire' = wire \o Packet(m) /\ wire' \in Seq(Bytes)
           /\ Packet(m) \in Seq(Bytes)
<1>1. PICK m \in Messages : sent' = Append(sent, m) /\ wire' = wire \o Packet(m)
  BY DEF SendMessage
<1>2. Packet(m) \in Seq(Bytes)
  BY PacketIs
<1>3. sent' \in Seq(Messages)
  BY <1>1
<1>4. wire' \in Seq(Bytes)
  BY <1>1, <1>2
<1>. QED
  BY <1>1, <1>2, <1>3, <1>4

-----------------------------------------------------------------------------
\* The server is at the start of the packet after those it has processed, and between
\* two callbacks its buffer holds no whole message.
ServerInv ==
    /\ S!TypeOK
    /\ Len(processed) <= Len(sent)
    /\ \A i \in 1 .. Len(processed) : processed[i] = sent[i]
    /\ Left(sent, input \o wire)
    /\ Position(sent, input \o wire) = Starts(sent)[Len(processed)]
    /\ ~reading => ~S!WholeMessage

\* The invariant holds before anything is sent.
LEMMA ServerInit == S!Init => ServerInv
<1>. SUFFICES ASSUME S!Init PROVE ServerInv
  OBVIOUS
<1>1. sent = <<>> /\ wire = <<>> /\ input = <<>> /\ reading = FALSE /\ processed = <<>>
  BY DEF S!Init, S!WireInit
<1>2. S!TypeOK
  <2>1. <<>> \in Seq(Messages) /\ <<>> \in Seq(S!Bytes) /\ <<>> \in Seq(Seq(S!Bytes)) /\ FALSE \in BOOLEAN
    OBVIOUS
  <2>. QED
    BY <1>1, <2>1 DEF S!TypeOK
<1>3. input \o wire = <<>>
  BY <1>1
<1>4. <<>> \in Seq(Messages) /\ Len(<<>>) = 0
  OBVIOUS
<1>5. Starts(<<>>)[0] = 0
  BY <1>4, StartsAre
<1>6. ~S!WholeMessage
  BY <1>1, FramingAssumption DEF S!WholeMessage
<1>. QED
  BY <1>1, <1>2, <1>3, <1>4, <1>5, <1>6, LeftEmpty DEF ServerInv

\* What WholeMessage finds in the buffer is the next message that was sent.
LEMMA WholeIsNext ==
  ASSUME ServerInv, S!WholeMessage
  PROVE  LET k == Len(processed) + 1
             end == HeaderSize + Length(input)
         IN /\ k \in 1 .. Len(sent)
            /\ end = HeaderSize + Len(sent[k]) /\ end \in 0 .. Len(input)
            /\ SubSeq(input, HeaderSize + 1, end) = sent[k]
<1>. DEFINE k == Len(processed) + 1
            end == HeaderSize + Length(input)
            rest == input \o wire
<1>1. /\ sent \in Seq(Messages) /\ wire \in Seq(Bytes) /\ input \in Seq(Bytes)
      /\ processed \in Seq(Seq(Bytes)) /\ Len(processed) <= Len(sent)
      /\ Left(sent, rest) /\ Position(sent, rest) = Starts(sent)[Len(processed)]
  BY DEF ServerInv, S!TypeOK, S!Bytes, Bytes
<1>2. Len(input) >= HeaderSize /\ Len(input) >= HeaderSize + Length(input)
  BY SameFraming DEF S!WholeMessage
<1>3. HeaderSize \in Nat \ {0} /\ Len(input) \in Nat /\ Len(wire) \in Nat
      /\ Len(rest) = Len(input) + Len(wire) /\ Len(processed) \in Nat /\ Len(sent) \in Nat
  BY <1>1, FramingAssumption
<1>4. Len(processed) # Len(sent)
  <2>1. SUFFICES ASSUME Len(processed) = Len(sent) PROVE FALSE
    OBVIOUS
  <2>2. Len(sent) \in 0 .. Len(sent)
    BY <1>3
  <2>3. Starts(sent)[Len(sent)] \in Nat
    BY <1>1, <2>2, StartsAre
  <2>4. Starts(sent)[Len(sent)] - Len(rest) = Starts(sent)[Len(sent)]
    BY <1>1, <2>1, PositionIs
  <2>. HIDE DEF rest
  <2>. QED
    BY <1>2, <1>3, <2>3, <2>4
<1>5. k \in 1 .. Len(sent) /\ k - 1 = Len(processed)
  BY <1>1, <1>3, <1>4
<1>. HIDE DEF k
<1>6. /\ Len(rest) >= HeaderSize + Len(sent[k])
      /\ \A i \in 1 .. HeaderSize + Len(sent[k]) : rest[i] = Packet(sent[k])[i]
      /\ Length(input) = Len(sent[k])
  <2>1. Position(sent, input \o wire) = Starts(sent)[k - 1]
    BY <1>1, <1>5
  <2>. QED
    BY <1>1, <1>2, <1>5, <2>1, FrontIs
<1>7. sent[k] \in Messages /\ sent[k] \in Seq(Bytes) /\ Len(sent[k]) \in Nat
  BY <1>1, <1>5, PacketIs
<1>8. end = HeaderSize + Len(sent[k]) /\ end \in 0 .. Len(input)
  BY <1>2, <1>3, <1>6, <1>7
<1>9. SubSeq(input, HeaderSize + 1, end) = sent[k]
  <2>. DEFINE body == SubSeq(input, HeaderSize + 1, end)
  <2>. HIDE DEF end
  <2>1. body \in Seq(Bytes) /\ Len(body) = Len(sent[k])
    BY <1>1, <1>3, <1>7, <1>8
  <2>2. ASSUME NEW i \in 1 .. Len(sent[k]) PROVE body[i] = sent[k][i]
    <3>1. HeaderSize + i \in 1 .. HeaderSize + Len(sent[k]) /\ HeaderSize + i \in 1 .. Len(input)
      BY <1>3, <1>7, <1>8
    <3>2. body[i] = input[HeaderSize + i]
      BY <1>1, <1>3, <1>7, <1>8, <3>1
    <3>3. rest[HeaderSize + i] = input[HeaderSize + i]
      BY <1>1, <3>1
    <3>4. rest[HeaderSize + i] = Packet(sent[k])[HeaderSize + i]
      BY <1>6, <3>1
    <3>5. Packet(sent[k])[HeaderSize + i] = sent[k][i]
      BY <1>7, PacketIs
    <3>. QED
      BY <3>2, <3>3, <3>4, <3>5
  <2>. HIDE DEF body
  <2>3. body = sent[k]
    BY ONLY <2>1, <2>2, <1>7
  <2>. QED
    BY <2>3 DEF body
<1>. QED
  BY <1>5, <1>8, <1>9 DEF k

\* Every step of the server's end preserves the invariant.
LEMMA ServerStep ==
  ServerInv /\ [S!Next]_S!vars => ServerInv'
<1>. SUFFICES ASSUME ServerInv, [S!Next]_S!vars PROVE ServerInv'
  OBVIOUS
<1>0. /\ sent \in Seq(Messages) /\ wire \in Seq(Bytes) /\ input \in Seq(Bytes) /\ reading \in BOOLEAN
      /\ processed \in Seq(Seq(Bytes)) /\ Len(processed) <= Len(sent)
      /\ \A i \in 1 .. Len(processed) : processed[i] = sent[i]
      /\ Left(sent, input \o wire) /\ Position(sent, input \o wire) = Starts(sent)[Len(processed)]
      /\ ~reading => ~S!WholeMessage
  BY DEF ServerInv, S!TypeOK, S!Bytes, Bytes
<1>1. ASSUME SendMessage, UNCHANGED <<input, reading, processed>> PROVE ServerInv'
  <2>1. PICK m \in Messages :
           /\ sent' = Append(sent, m) /\ sent' \in Seq(Messages)
           /\ wire' = wire \o Packet(m) /\ wire' \in Seq(Bytes)
           /\ Packet(m) \in Seq(Bytes)
    BY <1>0, <1>1, WireSend
  <2>2. input' \o wire' = (input \o wire) \o Packet(m) /\ input \o wire \in Seq(Bytes)
    BY SMTT(20), <1>0, <1>1, <2>1
  <2>3. Left(sent', input' \o wire') /\ Position(sent', input' \o wire') = Position(sent, input \o wire)
    BY ZenonT(40), <1>0, <2>1, <2>2, LeftAppend
  <2>4. Starts(sent')[Len(processed)] = Starts(sent)[Len(processed)]
    <3>1. Len(processed) \in 0 .. Len(sent)
      BY <1>0
    <3>. QED
      BY <1>0, <2>1, <3>1, StartsAppend
  <2>5. Len(processed) <= Len(sent') /\ \A i \in 1 .. Len(processed) : processed[i] = sent'[i]
    BY <1>0, <2>1
  <2>6. S!TypeOK'
    BY <1>0, <1>1, <2>1 DEF S!TypeOK, S!Bytes, Bytes
  <2>7. (~reading => ~S!WholeMessage)'
    BY <1>0, <1>1 DEF S!WholeMessage
  <2>. QED
    BY <1>0, <1>1, <2>3, <2>4, <2>5, <2>6, <2>7 DEF ServerInv
<1>2. ASSUME S!Arrive PROVE ServerInv'
  <2>1. PICK n \in 1 .. Len(wire) : input' = input \o SubSeq(wire, 1, n) /\ wire' = Drop(wire, n)
    BY <1>2, SameFraming DEF S!Arrive
  <2>2. input' \in Seq(Bytes) /\ wire' \in Seq(Bytes) /\ input' \o wire' = input \o wire
    <3>1. n \in 0 .. Len(wire)
      BY <1>0
    <3>. QED
      BY <1>0, <2>1, <3>1, MoveBytes, CutBytes
  <2>3. reading' = TRUE /\ UNCHANGED <<sent, processed>>
    BY <1>2 DEF S!Arrive
  <2>4. S!TypeOK'
    BY <1>0, <2>2, <2>3 DEF S!TypeOK, S!Bytes, Bytes
  <2>. QED
    BY <1>0, <2>2, <2>3, <2>4 DEF ServerInv
<1>3. ASSUME S!TakeMessage PROVE ServerInv'
  <2>. DEFINE k == Len(processed) + 1
              end == HeaderSize + Length(input)
  <2>1. /\ k \in 1 .. Len(sent)
        /\ end = HeaderSize + Len(sent[k]) /\ end \in 0 .. Len(input)
        /\ SubSeq(input, HeaderSize + 1, end) = sent[k]
    BY <1>3, WholeIsNext DEF S!TakeMessage
  <2>2. /\ processed' = Append(processed, sent[k]) /\ input' = Drop(input, end)
        /\ reading' = TRUE /\ UNCHANGED <<sent, wire>>
    BY <1>3, <2>1, SameFraming DEF S!TakeMessage, S!StillReading, S!wireVars
  <2>. HIDE DEF end
  <2>3. end \in 0 .. Len(input \o wire) /\ input \o wire \in Seq(Bytes)
    BY <1>0, <2>1
  <2>4. input' \o wire' = Drop(input \o wire, end) /\ input' \in Seq(Bytes)
    BY <1>0, <2>1, <2>2, DropBytes, CutBytes
  <2>5. Left(sent, input' \o wire') /\ Position(sent, input' \o wire') = Position(sent, input \o wire) + end
    BY <1>0, <2>3, <2>4, LeftDrop
  <2>6. k - 1 = Len(processed) /\ Len(processed') = k /\ sent[k] \in Seq(Bytes)
    BY <1>0, <2>1, <2>2, PacketIs
  <2>7. Starts(sent)[k] = Starts(sent)[k - 1] + HeaderSize + Len(sent[k])
    BY <1>0, <2>1, StartsAre
  <2>8. Position(sent', input' \o wire') = Starts(sent')[Len(processed')]
    <3>1. Starts(sent)[k - 1] \in Nat /\ Len(sent[k]) \in Nat /\ HeaderSize \in Nat
      BY <1>0, <2>1, PacketFits, FramingAssumption
    <3>. DEFINE w == Starts(sent)[k - 1]
                l == Len(sent[k])
    <3>2. w + HeaderSize + l = w + (HeaderSize + l)
      <4>1. w \in Nat /\ l \in Nat
        BY <3>1
      <4>. HIDE DEF w, l
      <4>. QED
        BY <3>1, <4>1
    <3>. QED
      BY <1>0, <2>1, <2>2, <2>5, <2>6, <2>7, <3>2
  <2>9. \A i \in 1 .. Len(processed') : processed'[i] = sent[i]
    BY <1>0, <2>1, <2>2, <2>6
  <2>10. S!TypeOK'
    BY <1>0, <2>2, <2>4, <2>6 DEF S!TypeOK, S!Bytes, Bytes
  <2>. QED
    BY <2>1, <2>2, <2>5, <2>6, <2>8, <2>9, <2>10 DEF ServerInv
<1>4. ASSUME S!ReadDone PROVE ServerInv'
  <2>1. ~S!WholeMessage /\ reading' = FALSE /\ UNCHANGED <<sent, wire, input, processed>>
    BY <1>4 DEF S!ReadDone, S!wireVars
  <2>2. ~S!WholeMessage'
    BY <2>1 DEF S!WholeMessage
  <2>. QED
    BY <1>0, <2>1, <2>2 DEF ServerInv, S!TypeOK
<1>5. CASE UNCHANGED S!vars
  BY <1>5 DEF ServerInv, S!TypeOK, S!WholeMessage, S!vars, S!wireVars, S!readerVars
<1>. QED
  BY <1>1, <1>2, <1>3, <1>4, <1>5, SameFraming DEF S!Next, S!ReaderStep, S!readerVars

\* The server's invariant holds in every behaviour of its end.
LEMMA ServerAlways == BothSpec => [](reader = "server" => ServerInv)
<1>1. BothInit => (reader = "server" => ServerInv)
  BY ServerInit DEF BothInit
<1>2. (reader = "server" => ServerInv) /\ [BothNext]_bothVars => (reader = "server" => ServerInv)'
  <2>. SUFFICES ASSUME reader = "server" => ServerInv, [BothNext]_bothVars, reader' = "server"
                PROVE  ServerInv'
    OBVIOUS
  <2>1. reader = "server" /\ [S!Next]_S!vars
    BY DEF BothNext, bothVars, vars, wireVars, serverVars, S!vars, S!wireVars, S!readerVars
  <2>. QED
    BY <2>1, ServerStep
<1>. QED
  BY <1>1, <1>2, PTL DEF BothSpec

\* Between two calls of readCallback the server's input buffer holds less than a message,
\* the beginning of the next one: no message that has arrived waits for more bytes.
THEOREM NothingIsLeftBehind == BothSpec => []NothingLeftBehind
<1>1. (reader = "server" => ServerInv) => NothingLeftBehind
  <2>. SUFFICES ASSUME ServerInv, ~reading PROVE S!NothingLeftBehind
    BY DEF NothingLeftBehind, S!NothingLeftBehind
  <2>. DEFINE k == Len(processed) + 1
              next == sent[k]
  <2>0. /\ sent \in Seq(Messages) /\ wire \in Seq(Bytes) /\ input \in Seq(Bytes)
        /\ processed \in Seq(Seq(Bytes)) /\ HeaderSize \in Nat
        /\ Left(sent, input \o wire) /\ Position(sent, input \o wire) = Starts(sent)[Len(processed)]
    BY FramingAssumption DEF ServerInv, S!TypeOK, S!Bytes, Bytes
  <2>1. ~S!WholeMessage
    BY DEF ServerInv
  <2>2. ASSUME Len(processed) < Len(sent), NEW i \in DOMAIN input
        PROVE  i \in DOMAIN Packet(next) /\ input[i] = Packet(next)[i]
    <3>1. k \in 1 .. Len(sent) /\ k - 1 = Len(processed) /\ i \in 1 .. Len(input) /\ Len(input) \in Nat
      BY <2>0, <2>2
    <3>. HIDE DEF k
    <3>2. Position(sent, input \o wire) = Starts(sent)[k - 1]
      BY <2>0, <3>1
    <3>3. /\ \A j \in 1 .. HeaderSize + Len(next) : (input \o wire)[j] = Packet(next)[j]
          /\ Len(input) >= HeaderSize => Length(input) = Len(next)
      BY <2>0, <3>1, <3>2, FrontIs
    <3>4. next \in Messages
      BY <2>0, <3>1
    <3>5. Packet(next) \in Seq(Bytes) /\ Len(Packet(next)) = HeaderSize + Len(next) /\ Len(next) \in Nat
      BY <3>4, PacketIs
    <3>6. Len(input) < HeaderSize + Len(next)
      <4>1. Len(input) < HeaderSize \/ Len(input) < HeaderSize + Length(input)
        <5>1. ~ (Len(input) >= HeaderSize /\ Len(input) >= HeaderSize + Length(input))
          BY <2>1, SameFraming DEF S!WholeMessage
        <5>2. CASE ~ Len(input) >= HeaderSize
          BY <2>0, <3>1, <5>2
        <5>3. CASE Len(input) >= HeaderSize
          <6>1. Length(input) = Len(next)
            BY <3>3, <5>3
          <6>2. ~ Len(input) >= HeaderSize + Len(next)
            BY <5>1, <5>3, <6>1
          <6>. QED
            BY <2>0, <3>1, <3>5, <6>1, <6>2
        <5>. QED
          BY <5>2, <5>3
      <4>2. Len(input) >= HeaderSize => Len(input) < HeaderSize + Len(next)
        BY <2>0, <3>1, <3>3, <3>5, <4>1
      <4>. QED
        BY <2>0, <3>1, <3>5, <4>2
    <3>7. i \in 1 .. HeaderSize + Len(next)
      BY <2>0, <3>1, <3>5, <3>6
    <3>8. (input \o wire)[i] = input[i]
      BY <2>0, <3>1, ConcatIs
    <3>. QED
      BY <3>3, <3>5, <3>7, <3>8
  <2>. QED
    BY <2>1, <2>2, SameFraming DEF S!NothingLeftBehind
<1>. QED
  BY <1>1, ServerAlways, PTL

\* readCallback implements the channel: however the bytes are cut into pieces, every step
\* of the server's end is one of the channel's, or changes nothing the channel sees.  (That
\* it delivers in the end, the fairness of ServerImplementsChannel, is checked by TLC.)
THEOREM ServerIsChannel == BothSpec => ServerChannel!ChanSpec
<1>. DEFINE Inv == reader = "server" => ServerInv
<1>1. BothInit => ServerChannel!ChanInit
  BY DEF BothInit, S!Init, S!WireInit, ServerChannel!ChanInit, Served
<1>2. ASSUME Inv, [BothNext]_bothVars
      PROVE  [ServerChannel!ChanSend \/ ServerChannel!ChanDeliver]_(ServerChannel!chanVars)
  <2>1. CASE reader # "server"
    <3>1. reader' = reader
      BY <1>2 DEF BothNext, bothVars
    <3>. QED
      BY <2>1, <3>1 DEF ServerChannel!chanVars, Served
  <2>2. CASE reader = "server"
    <3>1. ServerInv /\ reader' = "server" /\ [S!Next]_S!vars
      BY <1>2, <2>2 DEF BothNext, bothVars, vars, wireVars, serverVars, S!vars, S!wireVars, S!readerVars
    <3>2. /\ Served(sent) = sent /\ Served(processed) = processed
          /\ Served(sent)' = sent' /\ Served(processed)' = processed'
      BY <2>2, <3>1 DEF Served
    <3>3. CASE S!SendMessage /\ UNCHANGED S!readerVars
      BY <3>2, <3>3, SameFraming DEF SendMessage, S!readerVars, ServerChannel!ChanSend
    <3>4. CASE S!TakeMessage
      <4>1. LET k == Len(processed) + 1
                end == HeaderSize + Length(input)
            IN k \in 1 .. Len(sent) /\ SubSeq(input, HeaderSize + 1, end) = sent[k]
        BY <3>1, <3>4, WholeIsNext DEF S!TakeMessage
      <4>2. /\ processed' = Append(processed, sent[Len(processed) + 1])
            /\ UNCHANGED sent
        BY <3>4, <4>1, SameFraming DEF S!TakeMessage, S!wireVars
      <4>3. Len(processed) < Len(sent)
        BY <3>1, <4>1 DEF ServerInv, S!TypeOK
      <4>. QED
        BY <3>2, <4>2, <4>3 DEF ServerChannel!ChanDeliver
    <3>5. CASE S!Arrive \/ S!ReadDone \/ UNCHANGED S!vars
      <4>1. UNCHANGED <<sent, processed>>
        BY <3>5 DEF S!Arrive, S!ReadDone, S!vars, S!wireVars, S!readerVars
      <4>. QED
        BY <3>2, <4>1 DEF ServerChannel!chanVars
    <3>. QED
      BY <3>1, <3>3, <3>4, <3>5 DEF S!Next, S!ReaderStep
  <2>. QED
    BY <2>1, <2>2
<1>. QED
  BY <1>1, <1>2, ServerAlways, PTL DEF BothSpec, ServerChannel!ChanSpec
-----------------------------------------------------------------------------
\* After the handled messages, the reader is at the next header or within the next body.
InNextBody ==
    LET k == Len(handled) + 1 IN
    /\ k \in 1 .. Len(sent)
    /\ expectedLength = Len(sent[k])
    /\ Len(messageBuffer) <= Len(sent[k])
    /\ messageBuffer = SubSeq(sent[k], 1, Len(messageBuffer))
    /\ Position(sent, chunk \o wire) = Starts(sent)[k - 1] + (HeaderSize + Len(messageBuffer))

\* No chunk ends within a header.
WholeHeaders ==
    \A k \in 1 .. Len(sent) :
        ~ (Starts(sent)[k - 1] < Position(sent, wire)
           /\ Position(sent, wire) < Starts(sent)[k - 1] + HeaderSize)

\* The client has handled the first messages, in order, and its place is the end of their
\* packets, or within the body of the next.
Located ==
    /\ Len(handled) <= Len(sent)
    /\ \A i \in 1 .. Len(handled) : handled[i] = sent[i]
    /\ Left(sent, chunk \o wire)
    /\ readingHeader => Position(sent, chunk \o wire) = Starts(sent)[Len(handled)]
    /\ ~readingHeader => InNextBody
    /\ WholeHeaders

\* As long as no chunk has ended within a header the client knows where it is, and it
\* never holds more of a body than it expects.
ClientInv ==
    /\ TypeOK
    /\ ~readingHeader => Len(messageBuffer) <= expectedLength
    /\ ~cut => Located

\* The invariant holds before anything is sent.
LEMMA ClientInit == Init => ClientInv
<1>. SUFFICES ASSUME Init PROVE ClientInv
  OBVIOUS
<1>1. /\ sent = <<>> /\ wire = <<>> /\ chunk = <<>> /\ readingHeader = TRUE /\ expectedLength = 0
      /\ messageBuffer = <<>> /\ handled = <<>> /\ aborted = FALSE /\ cut = FALSE
  BY DEF Init, WireInit
<1>2. TypeOK
  <2>1. /\ <<>> \in Seq(Messages) /\ <<>> \in Seq(Bytes) /\ <<>> \in Seq(Seq(Bytes)) /\ FALSE \in BOOLEAN
        /\ Len(<<>>) = 0 /\ 0 <= BufferSize /\ 0 \in Nat /\ TRUE \in BOOLEAN
    BY ClientReaderAssumption
  <2>. QED
    BY <1>1, <2>1 DEF TypeOK
<1>3. chunk \o wire = <<>>
  BY <1>1
<1>4. <<>> \in Seq(Messages) /\ Len(<<>>) = 0
  OBVIOUS
<1>5. Starts(<<>>)[0] = 0
  BY <1>4, StartsAre
<1>. QED
  BY <1>1, <1>2, <1>3, <1>4, <1>5, LeftEmpty DEF ClientInv, Located, WholeHeaders

\* A cast to int keeps a number or makes it negative.
LEMMA SignedIs ==
  ASSUME NEW n \in Nat
  PROVE  /\ Signed(n) \in Int /\ Signed(n) <= n
         /\ n < Weight[HeaderSize] /\ Signed(n) >= 0 => Signed(n) = n
         /\ 2 * n < Weight[HeaderSize] => Signed(n) = n
<1>1. Weight[HeaderSize] \in Nat \ {0}
  <2>1. HeaderSize \in 0 .. HeaderSize
    BY FramingAssumption
  <2>. QED
    BY <2>1, WeightIs
<1>. DEFINE w == Weight[HeaderSize]
<1>. HIDE DEF w
<1>2. w \in Nat \ {0} /\ Signed(n) = IF 2 * n >= w THEN n - w ELSE n
  BY <1>1 DEF Signed, w
<1>. QED
  BY <1>2 DEF w

\* What is copied into messageBuffer is in the chunk and fits.
LEMMA CopiedIs ==
  ASSUME TypeOK, ~readingHeader, Len(messageBuffer) <= expectedLength, BytesToCopy >= 0
  PROVE  /\ BytesToCopy \in 0 .. Len(chunk)
         /\ Len(messageBuffer) + BytesToCopy <= expectedLength
         /\ expectedLength < Weight[HeaderSize] /\ BytesToCopy < Len(chunk) =>
              Len(messageBuffer) + BytesToCopy = expectedLength
<1>. DEFINE n == expectedLength - Len(messageBuffer)
<1>1. n \in Nat /\ Len(chunk) \in Nat /\ Len(messageBuffer) \in Nat /\ expectedLength \in Nat
  BY DEF TypeOK
<1>2. /\ Signed(n) \in Int /\ Signed(n) <= n
      /\ n < Weight[HeaderSize] /\ Signed(n) >= 0 => Signed(n) = n
  BY <1>1, SignedIs
<1>3. BytesToCopy = IF Len(chunk) < Signed(n) THEN Len(chunk) ELSE Signed(n)
  BY DEF BytesToCopy
<1>4. Weight[HeaderSize] \in Nat
  <2>1. HeaderSize \in 0 .. HeaderSize
    BY FramingAssumption
  <2>. QED
    BY <2>1, WeightIs
<1>5. expectedLength < Weight[HeaderSize] => n < Weight[HeaderSize]
  BY <1>1, <1>4
<1>6. Len(messageBuffer) + n = expectedLength
  BY <1>1
<1>. HIDE DEF n
<1>. QED
  BY <1>1, <1>2, <1>3, <1>5, <1>6

\* InHeader looks at the position at which the chunk ends.
LEMMA EndIs ==
  ASSUME sent \in Seq(Messages), wire \in Seq(Bytes), NEW n \in 0 .. Len(wire)
  PROVE  Starts(sent)[Len(sent)] - Len(wire) + n = Position(sent, Drop(wire, n))
<1>1. Len(sent) \in 0 .. Len(sent) /\ Len(wire) \in Nat
  OBVIOUS
<1>2. Starts(sent)[Len(sent)] \in Nat
  BY <1>1, StartsAre
<1>3. Len(Drop(wire, n)) = Len(wire) - n
  BY CutBytes
<1>. DEFINE w == Starts(sent)[Len(sent)]
            l == Len(wire)
<1>4. w \in Nat /\ l \in Nat /\ n \in Nat
  BY <1>1, <1>2
<1>5. w - l + n = w - (l - n)
  <2>. HIDE DEF w, l
  <2>. QED
    BY <1>4
<1>. QED
  BY <1>3, <1>5, PositionIs

\* Writing a message does not disturb the reader.
LEMMA ClientSend ==
  ASSUME ClientInv, SendMessage, UNCHANGED readerVars
  PROVE  ClientInv'
<1>0. /\ sent \in Seq(Messages) /\ wire \in Seq(Bytes) /\ chunk \in Seq(Bytes)
      /\ handled \in Seq(Seq(Bytes))
  BY DEF ClientInv, TypeOK
<1>1. PICK m \in Messages :
         /\ sent' = Append(sent, m) /\ sent' \in Seq(Messages)
         /\ wire' = wire \o Packet(m) /\ wire' \in Seq(Bytes)
         /\ Packet(m) \in Seq(Bytes)
  BY <1>0, WireSend
<1>2. UNCHANGED <<chunk, readingHeader, expectedLength, messageBuffer, handled, aborted, cut>>
  BY DEF readerVars
<1>3. TypeOK'
  BY <1>1, <1>2 DEF ClientInv, TypeOK
<1>4. ASSUME ~cut PROVE Located'
  <2>0. Located
    BY <1>4 DEF ClientInv
  <2>1. chunk' \o wire' = (chunk \o wire) \o Packet(m) /\ chunk \o wire \in Seq(Bytes)
    <3>1. (chunk \o wire) \o Packet(m) = chunk \o (wire \o Packet(m))
      BY SMTT(20), <1>0, <1>1, ConcatAssoc
    <3>. QED
      BY <1>0, <1>1, <1>2, <3>1, ConcatIs
  <2>2. Left(sent', chunk' \o wire') /\ Position(sent', chunk' \o wire') = Position(sent, chunk \o wire)
    BY ZenonT(40), <1>0, <1>1, <2>0, <2>1, LeftAppend DEF Located
  <2>3. /\ Len(sent) \in Nat /\ Len(handled) \in Nat /\ Len(sent') = Len(sent) + 1
        /\ Len(handled) <= Len(sent) /\ \A i \in 1 .. Len(sent) : sent'[i] = sent[i]
    BY <1>0, <1>1, <2>0 DEF Located
  <2>4. \A k \in 0 .. Len(sent) : Starts(sent')[k] = Starts(sent)[k]
    BY <1>0, <1>1, StartsAppend
  <2>5. Len(handled)' <= Len(sent') /\ \A i \in 1 .. Len(handled)' : handled'[i] = sent'[i]
    <3>1. \A i \in 1 .. Len(handled) : i \in 1 .. Len(sent)
      BY <2>3
    <3>. QED
      BY <1>2, <2>0, <2>3, <3>1 DEF Located
  <2>6. readingHeader' => Position(sent', chunk' \o wire') = Starts(sent')[Len(handled)']
    <3>1. Len(handled) \in 0 .. Len(sent)
      BY <2>3
    <3>. QED
      BY <1>2, <2>0, <2>2, <2>4, <3>1 DEF Located
  <2>7. ~readingHeader' => InNextBody'
    <3>1. SUFFICES ASSUME ~readingHeader PROVE InNextBody'
      BY <1>2
    <3>. DEFINE k == Len(handled) + 1
    <3>2. /\ k \in 1 .. Len(sent)
          /\ expectedLength = Len(sent[k])
          /\ Len(messageBuffer) <= Len(sent[k])
          /\ messageBuffer = SubSeq(sent[k], 1, Len(messageBuffer))
          /\ Position(sent, chunk \o wire) = Starts(sent)[k - 1] + (HeaderSize + Len(messageBuffer))
      BY <2>0, <3>1 DEF Located, InNextBody
    <3>3. k - 1 \in 0 .. Len(sent) /\ k \in 1 .. Len(sent') /\ sent'[k] = sent[k] /\ k = Len(handled)' + 1
      BY <1>2, <2>3, <3>2
    <3>. HIDE DEF k
    <3>4. Starts(sent')[k - 1] = Starts(sent)[k - 1]
      BY <2>4, <3>3
    <3>. QED
      BY <1>2, <2>2, <3>2, <3>3, <3>4 DEF InNextBody
  <2>8. WholeHeaders'
    <3>1. Position(sent', wire') = Position(sent, wire) /\ Position(sent, wire) <= Starts(sent)[Len(sent)]
      <4>. DEFINE w == Starts(sent)[Len(sent)]
                  l == Len(wire)
                  p == HeaderSize + Len(m)
      <4>1. Len(sent) \in 0 .. Len(sent) /\ l \in Nat
        BY <1>0
      <4>2. w \in Nat
        BY <1>0, <4>1, StartsAre
      <4>3. p \in Nat /\ Len(wire') = l + p
        <5>1. p \in Nat /\ Len(Packet(m)) = p
          BY PacketIs, FramingAssumption
        <5>2. Len(wire \o Packet(m)) = l + Len(Packet(m))
          BY <1>0, <1>1, ConcatIs
        <5>. QED
          BY <1>1, <5>1, <5>2
      <4>4. Starts(sent')[Len(sent')] = w + p
        <5>1. Starts(sent')[Len(sent')] = w + HeaderSize + Len(m)
          BY <1>0, <1>1, <2>3, StartsAppend
        <5>2. HeaderSize \in Nat /\ Len(m) \in Nat
          BY PacketIs, FramingAssumption
        <5>3. w + HeaderSize + Len(m) = w + p
          <6>. HIDE DEF w
          <6>. QED
            BY <4>2, <5>2
        <5>. QED
          BY <5>1, <5>3
      <4>5. (w + p) - (l + p) = w - l /\ w - l <= w
        <5>. HIDE DEF w, l, p
        <5>. QED
          BY <4>1, <4>2, <4>3
      <4>. QED
        BY <1>0, <1>1, <2>3, <4>3, <4>4, <4>5, PositionIs
    <3>2. ASSUME NEW k \in 1 .. Len(sent'),
                 Starts(sent')[k - 1] < Position(sent, wire),
                 Position(sent, wire) < Starts(sent')[k - 1] + HeaderSize
          PROVE  FALSE
      <4>1. k - 1 \in 0 .. Len(sent)
        BY <2>3
      <4>2. Starts(sent')[k - 1] = Starts(sent)[k - 1]
        BY <2>4, <4>1
      <4>3. CASE k \in 1 .. Len(sent)
        BY <2>0, <3>2, <4>2, <4>3 DEF Located, WholeHeaders
      <4>4. CASE k = Len(sent) + 1
        <5>. DEFINE w == Starts(sent)[Len(sent)]
                    at == Position(sent, wire)
        <5>1. k - 1 = Len(sent) /\ Len(sent) \in 0 .. Len(sent) /\ Len(wire) \in Nat
          BY <1>0, <2>3, <4>4
        <5>2. w < at
          BY <3>2, <4>2, <5>1
        <5>3. at <= w
          BY <3>1
        <5>4. w \in Nat /\ at \in Int
          BY <1>0, <5>1, StartsAre, PositionIs
        <5>. HIDE DEF w, at
        <5>. QED
          BY <5>2, <5>3, <5>4
      <4>. QED
        BY <2>3, <4>3, <4>4
    <3>. QED
      BY <3>1, <3>2 DEF WholeHeaders
  <2>. QED
    BY <2>2, <2>5, <2>6, <2>7, <2>8 DEF Located
<1>. QED
  BY <1>2, <1>3, <1>4 DEF ClientInv

\* A chunk moves from the wire into the buffer.
LEMMA ClientRecv ==
  ASSUME ClientInv, Recv
  PROVE  ClientInv'
<1>0. /\ sent \in Seq(Messages) /\ wire \in Seq(Bytes) /\ chunk = <<>> /\ BufferSize \in Nat
      /\ handled \in Seq(Seq(Bytes)) /\ cut \in BOOLEAN
  BY ClientReaderAssumption DEF ClientInv, TypeOK, Recv
<1>1. PICK n \in 1 .. Len(wire) :
         /\ n <= BufferSize
         /\ cut' = (cut \/ InHeader(n))
         /\ chunk' = SubSeq(wire, 1, n)
         /\ wire' = Drop(wire, n)
  BY DEF Recv
<1>2. UNCHANGED <<sent, readingHeader, expectedLength, messageBuffer, handled, aborted>>
  BY DEF Recv
<1>3. n \in 0 .. Len(wire)
  BY <1>0
<1>4. chunk' \in Seq(Bytes) /\ Len(chunk') = n /\ wire' \in Seq(Bytes)
  BY <1>0, <1>1, <1>3, CutBytes
<1>5. TypeOK'
  <2>1. cut' \in BOOLEAN
    BY <1>0, <1>1 DEF InHeader
  <2>. QED
    BY <1>1, <1>2, <1>4, <2>1 DEF ClientInv, TypeOK
<1>6. chunk' \o wire' = chunk \o wire
  <2>1. <<>> \in Seq(Bytes)
    OBVIOUS
  <2>2. (<<>> \o SubSeq(wire, 1, n)) \o Drop(wire, n) = <<>> \o wire
    BY <1>0, <1>3, <2>1, MoveBytes
  <2>3. <<>> \o SubSeq(wire, 1, n) = SubSeq(wire, 1, n)
    BY <1>1, <1>4
  <2>. QED
    BY <1>0, <1>1, <2>2, <2>3
<1>7. ASSUME ~cut' PROVE Located'
  <2>1. ~cut /\ ~InHeader(n)
    BY <1>1, <1>7
  <2>2. Located
    BY <2>1 DEF ClientInv
  <2>3. Starts(sent)[Len(sent)] - Len(wire) + n = Position(sent', wire')
    BY <1>0, <1>1, <1>2, <1>3, EndIs
  <2>4. WholeHeaders'
    BY <1>0, <1>2, <2>1, <2>3, PacketsAre DEF WholeHeaders, InHeader, Starts
  <2>5. InNextBody' <=> InNextBody
    BY <1>2, <1>6 DEF InNextBody
  <2>. QED
    BY <1>2, <1>6, <2>2, <2>4, <2>5 DEF Located
<1>. QED
  BY <1>2, <1>5, <1>7 DEF ClientInv

\* Where a header is expected, it is the one of the next message.
LEMMA ClientHeader ==
  ASSUME ClientInv, ReadHeader
  PROVE  ClientInv'
<1>0. /\ sent \in Seq(Messages) /\ wire \in Seq(Bytes) /\ chunk \in Seq(Bytes)
      /\ handled \in Seq(Seq(Bytes)) /\ HeaderSize \in Nat \ {0}
      /\ BufferSize \in Nat /\ Len(chunk) <= BufferSize
  BY FramingAssumption, ClientReaderAssumption DEF ClientInv, TypeOK
<1>1. /\ chunk # <<>> /\ readingHeader /\ Len(chunk) >= HeaderSize
      /\ expectedLength' = Length(chunk)
      /\ chunk' = Drop(chunk, HeaderSize)
      /\ readingHeader' = FALSE
      /\ messageBuffer' = <<>>
      /\ UNCHANGED <<sent, wire, handled, aborted, cut>>
  BY DEF ReadHeader, HeaderComplete, wireVars
<1>2. HeaderSize \in 0 .. Len(chunk)
  BY <1>0, <1>1
<1>3. chunk' \in Seq(Bytes) /\ Len(chunk') = Len(chunk) - HeaderSize
  BY <1>0, <1>1, <1>2, CutBytes
<1>4. Length(chunk) \in Nat
  <2>1. Base \in Nat
    BY FramingAssumption
  <2>2. \A i \in 1 .. HeaderSize : chunk[i] \in Nat
    BY <1>0, <1>2, <2>1 DEF Bytes
  <2>3. HeaderSize \in 0 .. HeaderSize
    BY <1>0
  <2>. QED
    BY <2>2, <2>3, LengthIs
<1>5. TypeOK'
  <2>1. <<>> \in Seq(Bytes) /\ Len(chunk') <= BufferSize
    BY <1>0, <1>3
  <2>. QED
    BY <1>1, <1>3, <1>4, <2>1 DEF ClientInv, TypeOK
<1>6. Len(messageBuffer') = 0
  BY <1>1
<1>7. ASSUME ~cut PROVE Located'
  <2>. DEFINE k == Len(handled) + 1
              rest == chunk \o wire
  <2>1. /\ Len(handled) <= Len(sent) /\ Left(sent, rest)
        /\ Position(sent, rest) = Starts(sent)[Len(handled)]
        /\ \A i \in 1 .. Len(handled) : handled[i] = sent[i]
        /\ WholeHeaders
    BY <1>1, <1>7 DEF ClientInv, Located
  <2>2. rest \in Seq(Bytes) /\ Len(rest) = Len(chunk) + Len(wire)
    BY <1>0, ConcatIs
  <2>3. Len(handled) # Len(sent)
    <3>1. SUFFICES ASSUME Len(handled) = Len(sent) PROVE FALSE
      OBVIOUS
    <3>2. Len(sent) \in 0 .. Len(sent)
      BY <1>0
    <3>3. Starts(sent)[Len(sent)] \in Nat
      BY <1>0, <3>2, StartsAre
    <3>4. Starts(sent)[Len(sent)] - Len(rest) = Starts(sent)[Len(sent)]
      BY <1>0, <2>1, <3>1, PositionIs
    <3>5. Len(chunk) \in Nat /\ Len(wire) \in Nat
      BY <1>0
    <3>. HIDE DEF rest
    <3>. QED
      BY <1>0, <1>1, <2>2, <3>3, <3>4, <3>5
  <2>4. k \in 1 .. Len(sent) /\ k - 1 = Len(handled)
    BY <1>0, <2>1, <2>3
  <2>. HIDE DEF k
  <2>5. Length(chunk) = Len(sent[k])
    <3>1. Position(sent, chunk \o wire) = Starts(sent)[k - 1] /\ Left(sent, chunk \o wire)
      BY <2>1, <2>4
    <3>. QED
      BY <1>0, <1>1, <2>4, <3>1, FrontIs
  <2>6. chunk' \o wire' = Drop(rest, HeaderSize)
    BY <1>0, <1>1, <1>2, DropBytes
  <2>7. HeaderSize \in 0 .. Len(rest)
    BY <1>0, <1>2, <2>2
  <2>. HIDE DEF rest
  <2>8. Left(sent, chunk' \o wire') /\ Position(sent, chunk' \o wire') = Position(sent, rest) + HeaderSize
    BY <1>0, <2>1, <2>2, <2>6, <2>7, LeftDrop
  <2>9. InNextBody'
    <3>1. sent[k] \in Seq(Bytes) /\ Len(sent[k]) \in Nat
      <4>1. sent[k] \in Messages
        BY <1>0, <2>4
      <4>2. sent[k] \in Seq(Bytes)
        BY <4>1, PacketIs
      <4>. QED
        BY <4>2
    <3>2. <<>> = SubSeq(sent[k], 1, 0)
      BY <3>1
    <3>3. Position(sent, chunk' \o wire') = Starts(sent)[k - 1] + (HeaderSize + 0)
      BY <1>0, <2>1, <2>4, <2>8
    <3>4. k = Len(handled') + 1 /\ 0 <= Len(sent[k])
      BY <1>1, <3>1 DEF k
    <3>. QED
      BY <1>1, <1>6, <2>4, <2>5, <3>2, <3>3, <3>4 DEF InNextBody
  <2>10. WholeHeaders'
    BY <1>1, <2>1 DEF WholeHeaders
  <2>. QED
    BY <1>1, <2>1, <2>8, <2>9, <2>10 DEF Located
<1>. QED
  BY <1>1, <1>4, <1>5, <1>6, <1>7 DEF ClientInv

\* A header is left incomplete only when a chunk has ended within one.
LEMMA ClientBreak ==
  ASSUME ClientInv, BreakHeader
  PROVE  ClientInv' /\ cut
<1>0. /\ sent \in Seq(Messages) /\ wire \in Seq(Bytes) /\ chunk \in Seq(Bytes)
      /\ handled \in Seq(Seq(Bytes)) /\ HeaderSize \in Nat \ {0} /\ BufferSize \in Nat
  BY FramingAssumption, ClientReaderAssumption DEF ClientInv, TypeOK
<1>1. /\ chunk # <<>> /\ readingHeader /\ ~ Len(chunk) >= HeaderSize
      /\ chunk' = <<>>
      /\ UNCHANGED <<sent, wire, readingHeader, expectedLength, messageBuffer, handled, aborted, cut>>
  BY DEF BreakHeader, HeaderComplete, wireVars
<1>2. cut
  <2>. DEFINE k == Len(handled) + 1
              rest == chunk \o wire
              w == Starts(sent)[Len(handled)]
              total == Starts(sent)[Len(sent)]
  <2>0. SUFFICES ASSUME ~cut PROVE FALSE
    OBVIOUS
  <2>1. /\ Len(handled) <= Len(sent) /\ WholeHeaders
        /\ Position(sent, rest) = w
    BY <1>1, <2>0 DEF ClientInv, Located
  <2>2. Len(rest) = Len(chunk) + Len(wire) /\ Len(chunk) \in Nat \ {0} /\ Len(wire) \in Nat
    BY <1>0, <1>1, ConcatIs
  <2>3. Len(sent) \in 0 .. Len(sent) /\ Len(handled) \in 0 .. Len(sent)
    BY <1>0, <2>1
  <2>4. total \in Nat /\ w \in Nat
    BY <1>0, <2>3, StartsAre
  <2>5. total - (Len(chunk) + Len(wire)) = w
    BY <1>0, <2>1, <2>2, PositionIs
  <2>6. Len(handled) # Len(sent)
    <3>1. SUFFICES ASSUME total = w PROVE FALSE
      OBVIOUS
    <3>. HIDE DEF total, w
    <3>. QED
      BY <2>2, <2>4, <2>5, <3>1
  <2>7. k \in 1 .. Len(sent) /\ k - 1 = Len(handled)
    BY <2>3, <2>6
  <2>8. Position(sent, wire) = total - Len(wire)
    BY <1>0, PositionIs
  <2>9. w < total - Len(wire) /\ total - Len(wire) < w + HeaderSize
    <3>. HIDE DEF total, w
    <3>. QED
      BY <1>0, <1>1, <2>2, <2>4, <2>5
  <2>. QED
    BY <2>1, <2>7, <2>8, <2>9 DEF WholeHeaders
<1>3. TypeOK'
  <2>1. <<>> \in Seq(Bytes) /\ Len(<<>>) = 0
    OBVIOUS
  <2>. QED
    BY <1>0, <1>1, <2>1 DEF ClientInv, TypeOK
<1>. QED
  BY <1>1, <1>2, <1>3 DEF ClientInv

\* What is copied continues the next message, and completes it with its last byte.
LEMMA ClientBody ==
  ASSUME ClientInv, ReadBody
  PROVE  ClientInv'
<1>0. /\ sent \in Seq(Messages) /\ wire \in Seq(Bytes) /\ chunk \in Seq(Bytes)
      /\ handled \in Seq(Seq(Bytes)) /\ HeaderSize \in Nat \ {0} /\ messageBuffer \in Seq(Bytes)
      /\ expectedLength \in Nat /\ TypeOK /\ Len(messageBuffer) \in Nat
      /\ BufferSize \in Nat /\ Len(chunk) <= BufferSize /\ Len(chunk) \in Nat
  BY FramingAssumption, ClientReaderAssumption DEF ClientInv, TypeOK
<1>. DEFINE b == BytesToCopy
            body == messageBuffer \o SubSeq(chunk, 1, b)
<1>1. /\ ~readingHeader /\ b >= 0
      /\ messageBuffer' = body
      /\ readingHeader' = (Len(body) = expectedLength)
      /\ handled' = IF Len(body) = expectedLength THEN Append(handled, body) ELSE handled
      /\ chunk' = Drop(chunk, b)
      /\ UNCHANGED <<sent, wire, expectedLength, aborted, cut>>
  BY DEF ReadBody, wireVars
<1>2. /\ b \in 0 .. Len(chunk) /\ Len(messageBuffer) + b <= expectedLength
      /\ Len(messageBuffer) <= expectedLength
  BY <1>0, <1>1, CopiedIs DEF ClientInv
<1>. HIDE DEF b
<1>3. /\ SubSeq(chunk, 1, b) \in Seq(Bytes) /\ Len(SubSeq(chunk, 1, b)) = b
      /\ \A i \in 1 .. b : SubSeq(chunk, 1, b)[i] = chunk[i]
      /\ Drop(chunk, b) \in Seq(Bytes) /\ Len(Drop(chunk, b)) = Len(chunk) - b
  BY <1>0, <1>2, CutBytes
<1>4. /\ body \in Seq(Bytes) /\ Len(body) = Len(messageBuffer) + b
      /\ \A i \in 1 .. Len(messageBuffer) : body[i] = messageBuffer[i]
      /\ \A i \in 1 .. Len(messageBuffer) + b : i > Len(messageBuffer) => body[i] = chunk[i - Len(messageBuffer)]
  <2>. DEFINE copied == SubSeq(chunk, 1, b)
  <2>. HIDE DEF copied
  <2>1. copied \in Seq(Bytes) /\ Len(copied) = b /\ \A i \in 1 .. b : copied[i] = chunk[i]
    BY <1>3 DEF copied
  <2>2. /\ messageBuffer \o copied \in Seq(Bytes) /\ Len(messageBuffer \o copied) = Len(messageBuffer) + b
        /\ \A i \in 1 .. Len(messageBuffer) : (messageBuffer \o copied)[i] = messageBuffer[i]
        /\ \A i \in 1 .. Len(messageBuffer) + b : i > Len(messageBuffer) =>
              (messageBuffer \o copied)[i] = copied[i - Len(messageBuffer)]
    BY ZenonT(40), <1>0, <2>1, ConcatIs
  <2>3. \A i \in 1 .. Len(messageBuffer) + b : i > Len(messageBuffer) => i - Len(messageBuffer) \in 1 .. b
    BY <1>0, <1>2
  <2>. QED
    BY <2>1, <2>2, <2>3 DEF copied
<1>. HIDE DEF body
<1>5. TypeOK'
  <2>1. readingHeader' \in BOOLEAN
    BY <1>1
  <2>2. handled' \in Seq(Seq(Bytes))
    BY <1>0, <1>1, <1>4
  <2>3. Len(chunk') <= BufferSize
    BY <1>0, <1>1, <1>2, <1>3
  <2>. QED
    BY <1>0, <1>1, <1>3, <1>4, <2>1, <2>2, <2>3 DEF TypeOK
<1>6. ~readingHeader' => Len(messageBuffer') <= expectedLength'
  BY <1>1, <1>2, <1>4
<1>7. ASSUME ~cut PROVE Located'
  <2>. DEFINE k == Len(handled) + 1
              rest == chunk \o wire
              c == HeaderSize + Len(messageBuffer)
              next == sent[k]
  <2>1. /\ Len(handled) <= Len(sent) /\ Left(sent, rest)
        /\ \A i \in 1 .. Len(handled) : handled[i] = sent[i]
        /\ WholeHeaders
        /\ k \in 1 .. Len(sent)
        /\ expectedLength = Len(next)
        /\ messageBuffer = SubSeq(next, 1, Len(messageBuffer))
        /\ Position(sent, rest) = Starts(sent)[k - 1] + c
    BY <1>1, <1>7 DEF ClientInv, Located, InNextBody
  <2>2. rest \in Seq(Bytes) /\ Len(rest) = Len(chunk) + Len(wire) /\ \A i \in 1 .. Len(chunk) : rest[i] = chunk[i]
    BY <1>0, ConcatIs
  <2>3. next \in Messages /\ next \in Seq(Bytes) /\ Len(next) \in Nat
    BY SMTT(20), <1>0, <2>1, PacketIs
  <2>4. k - 1 = Len(handled) /\ Len(handled) \in Nat
    BY <1>0
  <2>. HIDE DEF k
  <2>5. c \in 0 .. HeaderSize + Len(next) /\ c \in Nat
    BY SMTT(20), <1>0, <1>2, <2>1, <2>3
  <2>6. b \in 0 .. Len(rest) /\ Len(wire) \in Nat
    BY <1>0, <1>2, <2>2
  <2>7. \A i \in 1 .. HeaderSize + Len(next) - c : rest[i] = Packet(next)[c + i]
    <3>. HIDE DEF rest, c
    <3>. QED
      BY <1>0, <2>1, <2>2, <2>5, LeftNext
  <2>8. chunk' \o wire' = Drop(rest, b)
    BY <1>0, <1>1, <1>2, DropBytes
  <2>9. Left(sent, chunk' \o wire') /\ Position(sent, chunk' \o wire') = (Starts(sent)[k - 1] + c) + b
    <3>. HIDE DEF rest, c
    <3>. QED
      BY <1>0, <2>1, <2>2, <2>6, <2>8, LeftDrop
  <2>10. ASSUME NEW i \in 1 .. Len(body) PROVE body[i] = next[i]
    <3>1. CASE i <= Len(messageBuffer)
      <4>1. body[i] = messageBuffer[i]
        BY <1>0, <1>4, <3>1
      <4>2. SubSeq(next, 1, Len(messageBuffer))[i] = next[i]
        BY <1>0, <1>2, <2>1, <2>3, <3>1
      <4>. QED
        BY <2>1, <4>1, <4>2
    <3>2. CASE i > Len(messageBuffer)
      <4>. DEFINE j == i - Len(messageBuffer)
      <4>0. body[i] = chunk[j]
        BY <1>0, <1>4, <3>2
      <4>1. body[i] = chunk[j] /\ j \in 1 .. Len(chunk) /\ j \in 1 .. HeaderSize + Len(next) - c /\ c + j = HeaderSize + i
            /\ i \in 1 .. Len(next)
        <5>. DEFINE m == Len(messageBuffer)
                    n == Len(next)
                    h == Len(chunk)
                    l == Len(body)
        <5>1. m \in Nat /\ n \in Nat /\ h \in Nat /\ b \in Nat /\ HeaderSize \in Nat
          BY <1>0, <1>2, <2>3
        <5>2. l = m + b /\ b <= h /\ b <= n - m /\ i \in 1 .. l /\ ~ (i <= m)
          BY <1>0, <1>2, <1>4, <2>1, <2>3, <3>2
        <5>3. c = HeaderSize + m /\ j = i - m
          OBVIOUS
        <5>. HIDE DEF m, n, h, l, c, j
        <5>4. j \in 1 .. h /\ j \in 1 .. HeaderSize + n - c /\ c + j = HeaderSize + i /\ i \in 1 .. n
          BY <5>1, <5>2, <5>3
        <5>. QED
          BY <4>0, <5>4 DEF n, h
      <4>2. rest[j] = chunk[j] /\ rest[j] = Packet(next)[c + j]
        <5>. HIDE DEF rest, c, j
        <5>. QED
          BY <2>2, <2>7, <4>1
      <4>3. Packet(next)[HeaderSize + i] = next[i]
        BY <2>3, <4>1, PacketIs
      <4>. QED
        BY <4>1, <4>2, <4>3
    <3>. QED
      BY <1>0, <1>4, <3>1, <3>2
  <2>11. Len(body) <= Len(next) /\ Len(body) = Len(messageBuffer) + b
    BY <1>2, <1>4, <2>1
  <2>12. WholeHeaders'
    BY <1>1, <2>1 DEF WholeHeaders
  <2>13. Starts(sent)[k - 1] \in Nat
    BY <1>0, <2>1, PacketFits
  <2>14. CASE Len(body) = expectedLength
    <3>1. body = next
      BY <1>4, <2>1, <2>3, <2>10, <2>14, SameSeq
    <3>2. handled' = Append(handled, next) /\ readingHeader' = TRUE
      BY <1>1, <2>14, <3>1
    <3>3. Len(handled') = k /\ \A i \in 1 .. Len(handled') : handled'[i] = sent[i]
      BY <1>0, <2>1, <2>3, <2>4, <3>2
    <3>4. (Starts(sent)[k - 1] + c) + b = Starts(sent)[k]
      <4>1. Starts(sent)[k] = Starts(sent)[k - 1] + HeaderSize + Len(next)
        BY <1>0, <2>1, StartsAre
      <4>. DEFINE w == Starts(sent)[k - 1]
                  l == Len(next)
      <4>2. Len(messageBuffer) + b = l
        BY <2>1, <2>11, <2>14
      <4>3. w + (HeaderSize + Len(messageBuffer)) + b = w + HeaderSize + l
        <5>. DEFINE p == Len(messageBuffer)
        <5>1. w \in Nat /\ l \in Nat /\ b \in Nat /\ p \in Nat /\ HeaderSize \in Nat /\ p + b = l
          BY <1>0, <1>2, <2>3, <2>13, <4>2
        <5>2. w + (HeaderSize + p) + b = w + HeaderSize + l
          <6>. HIDE DEF w, l, p
          <6>. QED
            BY ONLY <5>1
        <5>. QED
          BY <5>2
      <4>. QED
        BY <4>1, <4>3
    <3>5. Len(handled') <= Len(sent')
      BY <1>0, <1>1, <2>1, <3>3
    <3>. QED
      BY <1>1, <2>9, <2>12, <3>2, <3>3, <3>4, <3>5 DEF Located
  <2>15. CASE Len(body) # expectedLength
    <3>1. handled' = handled /\ readingHeader' = FALSE
      BY <1>1, <2>15
    <3>2. body = SubSeq(next, 1, Len(body))
      <4>1. Len(body) \in 0 .. Len(next)
        BY <1>4, <2>3, <2>11
      <4>2. /\ SubSeq(next, 1, Len(body)) \in Seq(Bytes) /\ Len(SubSeq(next, 1, Len(body))) = Len(body)
            /\ \A i \in 1 .. Len(body) : SubSeq(next, 1, Len(body))[i] = next[i]
        BY <2>3, <4>1, CutBytes
      <4>. DEFINE front == SubSeq(next, 1, Len(body))
      <4>. HIDE DEF front
      <4>3. body = front
        BY <1>4, <2>10, <4>2, SameSeq DEF front
      <4>. QED
        BY <4>3 DEF front
    <3>3. (Starts(sent)[k - 1] + c) + b = Starts(sent)[k - 1] + (HeaderSize + Len(body))
      <4>. DEFINE w == Starts(sent)[k - 1]
      <4>1. w \in Nat /\ b \in Nat
        BY <1>2, <2>13
      <4>2. w + (HeaderSize + Len(messageBuffer)) + b = w + (HeaderSize + Len(body))
        <5>. HIDE DEF w
        <5>. QED
          BY <1>0, <2>11, <4>1
      <4>. QED
        BY <4>2
    <3>4. InNextBody'
      BY <1>1, <2>1, <2>9, <2>11, <3>1, <3>2, <3>3 DEF InNextBody, k
    <3>. QED
      BY <1>1, <2>1, <2>9, <2>12, <3>1, <3>4 DEF Located
  <2>. QED
    BY <2>14, <2>15
<1>. QED
  BY <1>1, <1>5, <1>6, <1>7 DEF ClientInv

\* Every step of the client's end preserves the invariant.
LEMMA ClientStep ==
  ClientInv /\ [Next]_vars => ClientInv'
<1>. SUFFICES ASSUME ClientInv, [Next]_vars PROVE ClientInv'
  OBVIOUS
<1>1. CASE AppendThrows
  BY <1>1 DEF AppendThrows, wireVars, ClientInv, TypeOK, Located, InNextBody, WholeHeaders
<1>2. CASE UNCHANGED vars
  BY <1>2 DEF vars, wireVars, readerVars, ClientInv, TypeOK, Located, InNextBody, WholeHeaders
<1>. QED
  BY <1>1, <1>2, ClientSend, ClientRecv, ClientHeader, ClientBreak, ClientBody DEF Next, ReaderStep

\* The client's invariant holds in every behaviour of its end.
LEMMA ClientAlways == Spec => []ClientInv
  BY ClientInit, ClientStep, PTL DEF Spec

\* The client's end keeps its types: what it takes for a length is a number, and chunk
\* never holds more than recv was asked for.
THEOREM ClientTypes == Spec => []TypeOK
<1>1. ClientInv => TypeOK
  BY DEF ClientInv
<1>. QED
  BY <1>1, ClientAlways, PTL

\* Until a chunk ends within a header, receiveThreadFunc has handled the messages sent so
\* far, and what it reads next is the next message.
THEOREM ClientInStep == Spec => []InStep
<1>1. ClientInv => InStep
  <2>. SUFFICES ASSUME ClientInv, ~cut PROVE InStep
    BY DEF InStep
  <2>1. handled \in Seq(Seq(Bytes)) /\ Located
    BY DEF ClientInv, TypeOK
  <2>2. DOMAIN handled = 1 .. Len(handled) /\ Len(handled) \in Nat
    BY <2>1
  <2>3. ~readingHeader => Len(handled) < Len(sent)
    BY <2>1, <2>2 DEF Located, InNextBody, ClientInv, TypeOK
  <2>. QED
    BY <2>1, <2>2, <2>3 DEF InStep, Located, InNextBody
<1>. QED
  BY <1>1, ClientAlways, PTL

\* The unsigned subtraction of client.cpp:278 never wraps, wherever the client is in the
\* stream.
THEOREM ClientNeverOverfull == Spec => []NeverOverfull
<1>1. ClientInv => NeverOverfull
  BY DEF ClientInv, NeverOverfull
<1>. QED
  BY <1>1, ClientAlways, PTL

\* When the messages' lengths fit an int, append is called with a negative count only after
\* a chunk has ended within a header.
THEOREM ClientAbortsOnlyCut ==
  ASSUME \A m \in Messages : 2 * Len(m) < Weight[HeaderSize]
  PROVE  Spec => []AbortsOnlyCut
<1>1. Init => AbortsOnlyCut
  BY DEF Init, AbortsOnlyCut
<1>2. ClientInv /\ AbortsOnlyCut /\ [Next]_vars => AbortsOnlyCut'
  <2>. SUFFICES ASSUME ClientInv, AbortsOnlyCut, [Next]_vars PROVE AbortsOnlyCut'
    OBVIOUS
  <2>1. ASSUME AppendThrows, ~cut PROVE FALSE
    <3>1. BytesToCopy < 0 /\ ~readingHeader
      BY <2>1 DEF AppendThrows
    <3>. DEFINE k == Len(handled) + 1
                n == expectedLength - Len(messageBuffer)
    <3>2. k \in 1 .. Len(sent) /\ expectedLength = Len(sent[k]) /\ Len(messageBuffer) <= expectedLength
      BY <2>1, <3>1 DEF ClientInv, Located, InNextBody
    <3>3. /\ Len(chunk) \in Nat /\ Len(messageBuffer) \in Nat /\ expectedLength \in Nat
          /\ sent \in Seq(Messages)
      BY DEF ClientInv, TypeOK
    <3>4. sent[k] \in Messages
      BY <3>2, <3>3
    <3>5. 2 * expectedLength < Weight[HeaderSize]
      BY <3>2, <3>4
    <3>6. Weight[HeaderSize] \in Nat
      <4>1. HeaderSize \in 0 .. HeaderSize
        BY FramingAssumption
      <4>. QED
        BY <4>1, WeightIs
    <3>7. n \in Nat /\ 2 * n < Weight[HeaderSize]
      BY <3>2, <3>3, <3>5, <3>6
    <3>8. Signed(n) = n
      BY <3>7, SignedIs
    <3>9. BytesToCopy \in Nat
      BY <3>3, <3>7, <3>8 DEF BytesToCopy
    <3>. QED
      BY <3>1, <3>9
  <2>2. CASE AppendThrows
    BY <2>1, <2>2 DEF AppendThrows, AbortsOnlyCut
  <2>3. CASE [Next]_vars /\ ~AppendThrows
    <3>1. aborted' = aborted
      BY <2>3 DEF Next, ReaderStep, Recv, ReadHeader, BreakHeader, ReadBody, readerVars, vars
    <3>2. cut => cut'
      BY <2>3 DEF Next, ReaderStep, Recv, ReadHeader, BreakHeader, ReadBody, readerVars, vars
    <3>. QED
      BY <3>1, <3>2 DEF AbortsOnlyCut
  <2>. QED
    BY <2>2, <2>3
<1>. QED
  BY <1>1, <1>2, ClientAlways, PTL DEF Spec

\* And a client whose chunks never end within a header implements the channel too.
THEOREM ClientIsChannel == Spec /\ []~cut => Channel!ChanSpec
<1>1. Init => Channel!ChanInit
  BY DEF Init, WireInit, Channel!ChanInit
<1>2. ASSUME ClientInv, ClientInv', ~cut, ~cut', [Next]_vars
      PROVE  [Channel!ChanSend \/ Channel!ChanDeliver]_(Channel!chanVars)
  <2>1. CASE SendMessage /\ UNCHANGED readerVars
    BY <2>1 DEF SendMessage, readerVars, Channel!ChanSend
  <2>2. CASE ReadBody
    <3>. DEFINE body == messageBuffer \o SubSeq(chunk, 1, BytesToCopy)
    <3>1. /\ handled' = IF Len(body) = expectedLength THEN Append(handled, body) ELSE handled
          /\ sent' = sent
      BY <2>2 DEF ReadBody, wireVars
    <3>. HIDE DEF body
    <3>2. CASE Len(body) = expectedLength
      <4>1. handled \in Seq(Seq(Bytes)) /\ handled' = Append(handled, body)
        BY <1>2, <3>1, <3>2 DEF ClientInv, TypeOK
      <4>2. /\ Len(handled) \in Nat /\ Len(handled') = Len(handled) + 1
            /\ handled'[Len(handled) + 1] = body
        BY <4>1
      <4>3. /\ Len(handled') <= Len(sent)
            /\ \A i \in 1 .. Len(handled') : handled'[i] = sent[i]
        BY <1>2, <3>1 DEF ClientInv, Located
      <4>4. body = sent[Len(handled) + 1]
        BY <4>2, <4>3
      <4>5. Len(handled) < Len(sent)
        BY <1>2, <4>2, <4>3 DEF ClientInv, TypeOK
      <4>. QED
        BY <3>1, <4>1, <4>4, <4>5 DEF Channel!ChanDeliver
    <3>3. CASE Len(body) # expectedLength
      BY <3>1, <3>3 DEF Channel!chanVars
    <3>. QED
      BY <3>2, <3>3
  <2>3. CASE Recv \/ ReadHeader \/ BreakHeader \/ AppendThrows \/ UNCHANGED vars
    <3>1. UNCHANGED <<sent, handled>>
      BY <2>3 DEF Recv, ReadHeader, BreakHeader, AppendThrows, vars, wireVars, readerVars
    <3>. QED
      BY <3>1 DEF Channel!chanVars
  <2>. QED
    BY <1>2, <2>1, <2>2, <2>3 DEF Next, ReaderStep
<1>. QED
  BY <1>1, <1>2, ClientAlways, PTL DEF Spec, Channel!ChanSpec
=============================================================================
