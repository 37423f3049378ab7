-------------------------- MODULE TmReassemblyProofs --------------------------
(***************************************************************************)
(* Theorems about TmReassembly, for any streams of whole packets, sizes of *)
(* frames and packets, period of the frame counter and losses.             *)
(***************************************************************************)
EXTENDS TmReassembly, TLAPS, WellFoundedInduction, SequenceTheorems

(* Octets in the order in which they are sent.                             *)
Chain(d) ==
    /\ d \in Seq(Octets)
    /\ \A j \in 1 .. Len(d) : d[j].at <= d[j].len /\ d[j].len \in HeaderSize + 1 .. MaxPacket
    /\ \A j \in 1 .. Len(d) - 1 : Follows(d[j], d[j + 1])

(* The octet that comes q - p places after a is of the same packet, or of a *)
(* later one that began after the end of a's.                               *)
SamePacket(a, b, n) == b.pkt = a.pkt /\ b.len = a.len /\ b.at = a.at + n
LaterPacket(a, b, n) == b.pkt > a.pkt /\ b.at <= n - (a.len - a.at)

(* Where the packet of the octet at place p begins.                         *)
StartOf(d, p) == p - d[p].at + 1
Ends(o) == o.at = o.len
-----------------------------------------------------------------------------
LEMMA LeastOf ==
  ASSUME NEW T, T \subseteq Nat, T # {}
  PROVE  \E x \in T : \A y \in T : x <= y
<1> DEFINE R == OpToRel(<, Nat)
<1>1. IsWellFoundedOn(R, Nat)
  BY NatLessThanWellFounded, Zenon
<1>2. \A x, y \in Nat : <<x, y>> \in R <=> x < y
  BY DEF OpToRel
<1> HIDE DEF R
<1>3. PICK x \in T : \A y \in T : <<y, x>> \notin R
  BY <1>1, WFMin
<1>4. \A y \in T : ~(y < x)
  BY <1>2, <1>3
<1> QED
  BY <1>4

(* What holds at a number and is handed on to the next holds from there on. *)
LEMMA UpTo ==
  ASSUME NEW T, NEW p \in Nat, NEW n \in Nat, p \in T,
         \A q \in p .. n - 1 : q \in T => q + 1 \in T
  PROVE  \A q \in p .. n : q \in T
<1> DEFINE Bad == {q \in p .. n : q \notin T}
<1> SUFFICES ASSUME Bad # {} PROVE FALSE
  OBVIOUS
<1>1. PICK q \in Bad : \A r \in Bad : q <= r
  <2>1. Bad \subseteq Nat
    OBVIOUS
  <2> HIDE DEF Bad
  <2> QED
    BY <2>1, LeastOf
<1>2. q # p /\ q - 1 \in p .. n - 1 /\ q - 1 \notin Bad
  BY <1>1
<1> QED
  BY <1>2

LEMMA FollowsOn ==
  ASSUME NEW a \in Octets, NEW b \in Octets, NEW c \in Octets, NEW n \in Nat,
         a.at <= a.len, b.at <= b.len, Follows(b, c),
         SamePacket(a, b, n) \/ LaterPacket(a, b, n)
  PROVE  SamePacket(a, c, n + 1) \/ LaterPacket(a, c, n + 1)
<1>n. /\ a.pkt \in Nat /\ a.at \in Nat /\ a.at > 0 /\ a.len \in Nat
      /\ b.pkt \in Nat /\ b.at \in Nat /\ b.at > 0 /\ b.len \in Nat
      /\ c.pkt \in Nat /\ c.at \in Nat /\ c.at > 0 /\ c.len \in Nat
  BY DEF Octets
<1>1. CASE SamePacket(a, b, n)
  BY <1>1, <1>n DEF SamePacket, LaterPacket, Follows
<1>2. CASE LaterPacket(a, b, n)
  BY <1>2, <1>n DEF LaterPacket, Follows
<1> QED
  BY <1>1, <1>2

LEMMA Between ==
  ASSUME NEW d, Chain(d), NEW p \in 1 .. Len(d)
  PROVE  \A q \in p .. Len(d) : SamePacket(d[p], d[q], q - p) \/ LaterPacket(d[p], d[q], q - p)
<1> DEFINE T == {q \in p .. Len(d) : SamePacket(d[p], d[q], q - p) \/ LaterPacket(d[p], d[q], q - p)}
<1>1. Len(d) \in Nat /\ \A q \in 1 .. Len(d) : d[q] \in Octets
  BY DEF Chain
<1>2. p \in T
  BY <1>1 DEF Octets, SamePacket
<1>3. ASSUME NEW q \in p .. Len(d) - 1, q \in T PROVE q + 1 \in T
  <2> DEFINE a == d[p]  b == d[q]  c == d[q + 1]
  <2>1. a \in Octets /\ b \in Octets /\ c \in Octets /\ b.at <= b.len /\ a.at <= a.len
    BY <1>1 DEF Chain
  <2>2. Follows(b, c)
    BY DEF Chain
  <2>3. SamePacket(a, b, q - p) \/ LaterPacket(a, b, q - p)
    BY <1>3
  <2> HIDE DEF a, b, c
  <2>4. q - p \in Nat /\ q + 1 - p = (q - p) + 1
    BY <1>1
  <2>5. SamePacket(a, c, q + 1 - p) \/ LaterPacket(a, c, q + 1 - p)
    BY <2>1, <2>2, <2>3, <2>4, FollowsOn
  <2> QED
    BY <2>5 DEF a, c
<1> HIDE DEF T
<1>4. \A q \in p .. Len(d) : q \in T
  <2>1. p \in Nat /\ Len(d) \in Nat
    BY <1>1
  <2> QED
    BY <2>1, <1>2, <1>3, UpTo
<1> QED
  BY <1>4 DEF T

(* The octets of one packet lie together.                                   *)
LEMMA WithinPacket ==
  ASSUME NEW d, Chain(d), NEW p \in 1 .. Len(d), NEW q \in p .. Len(d),
         q - p <= d[p].len - d[p].at
  PROVE  SamePacket(d[p], d[q], q - p)
<1>1. SamePacket(d[p], d[q], q - p) \/ LaterPacket(d[p], d[q], q - p)
  BY Between
<1>2. d[p] \in Octets /\ d[q] \in Octets
  BY DEF Chain
<1>3. d[p].at \in Nat /\ d[p].len \in Nat /\ d[q].at \in Nat /\ d[q].at > 0 /\ p \in Int /\ q \in Int
  BY <1>2 DEF Octets
<1> HIDE DEF Octets
<1> QED
  BY <1>1, <1>3 DEF LaterPacket

LEMMA AfterEnd ==
  ASSUME NEW d, Chain(d), NEW p \in 1 .. Len(d) - 1
  PROVE  Ends(d[p]) <=> d[p + 1].at = 1
<1>1. d[p] \in Octets /\ d[p + 1] \in Octets /\ Follows(d[p], d[p + 1]) /\ d[p + 1].at <= d[p + 1].len
  BY DEF Chain
<1>2. d[p].at \in Nat /\ d[p].len \in Nat /\ d[p].at > 0 /\ d[p + 1].at \in Nat /\ d[p].pkt \in Nat
  BY <1>1 DEF Octets
<1> QED
  BY <1>1, <1>2 DEF Follows, Ends

LEMMA Starting ==
  ASSUME NEW d, Chain(d), Len(d) > 0, d[1].at = 1, NEW p \in 1 .. Len(d)
  PROVE  /\ StartOf(d, p) \in 1 .. p
         /\ d[StartOf(d, p)].at = 1
         /\ \A q \in StartOf(d, p) .. p : SamePacket(d[StartOf(d, p)], d[q], q - StartOf(d, p))
<1> DEFINE s == StartOf(d, p)
<1>0. \A q \in 1 .. Len(d) : d[q] \in Octets /\ d[q].at <= d[q].len
  BY DEF Chain
<1>1. \A q \in 1 .. Len(d) : d[q].at \in Nat /\ d[q].at > 0 /\ d[q].len \in Nat /\ d[q].at <= d[q].len
  BY <1>0 DEF Octets
<1>2. SamePacket(d[1], d[p], p - 1) \/ LaterPacket(d[1], d[p], p - 1)
  BY Between
<1>3. d[p].at <= p
  BY <1>1, <1>2 DEF SamePacket, LaterPacket
<1>4. s \in 1 .. p
  BY <1>1, <1>3 DEF StartOf
<1>5. p - s = d[p].at - 1
  BY <1>1 DEF StartOf
<1> HIDE DEF s
<1>6. SamePacket(d[s], d[p], p - s) \/ LaterPacket(d[s], d[p], p - s)
  BY <1>4, Between
<1>7. ~LaterPacket(d[s], d[p], p - s)
  BY <1>1, <1>4, <1>5 DEF LaterPacket
<1>8. d[s].at = 1 /\ d[s].len = d[p].len
  BY <1>1, <1>4, <1>5, <1>6, <1>7 DEF SamePacket
<1>9. ASSUME NEW q \in s .. p PROVE SamePacket(d[s], d[q], q - s)
  <2>1. q - s <= d[s].len - d[s].at
    BY <1>1, <1>4, <1>5, <1>8
  <2> QED
    BY <2>1, <1>4, WithinPacket
<1> QED
  BY <1>4, <1>8, <1>9 DEF s
-----------------------------------------------------------------------------
(* split_complete_packets: the recursion ends, and it cuts where packets end. *)

Jump(data, cut, o) ==
    IF Len(data) - o < HeaderSize THEN o
    ELSE LET n == PacketLength(data[o + HeaderSize])
         IN  IF Len(data) - o < n THEN o ELSE cut[o + n]

LEMMA Lengths ==
  ASSUME NEW o \in Octets
  PROVE  PacketLength(o) \in Nat \ {0}
BY ReassemblyAssumption DEF PacketLength, Octets

LEMMA CutsExist ==
  ASSUME NEW d \in Seq(Octets)
  PROVE  \A o \in 0 .. Len(d) : Cuts(d)[o] = Jump(d, Cuts(d), o)
<1> DEFINE L == Len(d)
           Fits(f, k) == \A o \in L - k .. L : f[o] = Jump(d, f, o)
           T == {k \in 0 .. L : ~ \E f \in [0 .. L -> 0 .. L] : Fits(f, k)}
<1>1. L \in Nat /\ HeaderSize \in Nat \ {0}
  BY ReassemblyAssumption
<1>2. ASSUME T # {} PROVE FALSE
  <2>1. PICK k \in T : \A x \in T : k <= x
    <3>1. T \subseteq Nat
      OBVIOUS
    <3> HIDE DEF T
    <3> QED
      BY <3>1, <1>2, LeastOf
  <2>2. k # 0
    <3>1. [o \in 0 .. L |-> L] \in [0 .. L -> 0 .. L] /\ Fits([o \in 0 .. L |-> L], 0)
      BY <1>1 DEF Jump
    <3> QED
      BY <3>1
  <2>3. PICK f \in [0 .. L -> 0 .. L] : Fits(f, k - 1)
    <3>1. k - 1 \in 0 .. L /\ k - 1 \notin T
      <4>1. k \in 0 .. L /\ \A x \in T : k <= x
        BY <2>1
      <4> HIDE DEF T
      <4> QED
        BY <4>1, <2>2
    <3> HIDE DEF Fits
    <3> QED
      BY <3>1
  <2> DEFINE o == L - k
             v == Jump(d, f, o)
             g == [f EXCEPT ![o] = v]
  <2>4. o \in 0 .. L - 1
    BY <2>1, <2>2, <1>1
  <2>5. ASSUME NEW j \in o .. L PROVE Jump(d, g, j) = Jump(d, f, j) /\ Jump(d, f, j) \in 0 .. L
    <3>1. CASE L - j < HeaderSize
      BY <3>1, <2>4 DEF Jump
    <3>2. CASE ~(L - j < HeaderSize)
      <4> DEFINE n == PacketLength(d[j + HeaderSize])
      <4>1. n \in Nat \ {0}
        BY <3>2, <2>4, <1>1, Lengths
      <4> HIDE DEF n
      <4>2. ~(L - j < n) => j + n \in 0 .. L /\ j + n # o
        BY <4>1, <2>4
      <4>3. ~(L - j < n) => g[j + n] = f[j + n] /\ f[j + n] \in 0 .. L
        BY <4>2, <2>3
      <4> QED
        BY <3>2, <4>3, <2>4 DEF Jump, n
    <3> QED
      BY <3>1, <3>2
  <2>6. v \in 0 .. L
    BY <2>4, <2>5
  <2> HIDE DEF v
  <2>7. g \in [0 .. L -> 0 .. L] /\ g[o] = v /\ \A j \in o + 1 .. L : g[j] = f[j]
    BY <2>3, <2>4, <2>6
  <2>8. \A j \in o + 1 .. L : f[j] = Jump(d, f, j)
    BY <2>3, <1>1, <2>1
  <2> HIDE DEF g
  <2>9. \A j \in o .. L : g[j] = Jump(d, g, j)
    <3> SUFFICES ASSUME NEW j \in o .. L PROVE g[j] = Jump(d, g, j)
      OBVIOUS
    <3>1. CASE j = o
      BY <3>1, <2>5, <2>7 DEF v
    <3>2. CASE j \in o + 1 .. L
      BY <3>2, <2>5, <2>7, <2>8
    <3> QED
      BY <3>1, <3>2, <2>4
  <2> QED
    BY <2>1, <2>7, <2>9
<1>3. PICK f \in [0 .. L -> 0 .. L] : Fits(f, L)
  <2>0. L \in 0 .. L
    BY <1>1
  <2>1. L \in 0 .. L /\ L \notin T
    <3> HIDE DEF T
    <3> QED
      BY <2>0, <1>2
  <2> HIDE DEF Fits
  <2> QED
    BY <2>1
<1>4. f = [o \in 0 .. L |-> Jump(d, f, o)]
  BY <1>1, <1>3
<1>5. Cuts(d) = CHOOSE f1 : f1 = [o \in 0 .. L |-> Jump(d, f1, o)]
  BY DEF Cuts, Jump
<1>6. Cuts(d) = [o \in 0 .. L |-> Jump(d, Cuts(d), o)]
  BY <1>4, <1>5
<1> QED
  BY <1>6

(* What is cut off the front of d is whole packets; what remains is the     *)
(* beginning of one.                                                        *)
CutAt(d, o, c) ==
    /\ c \in o .. Len(d)
    /\ c = o \/ Ends(d[c])
    /\ c < Len(d) => d[c + 1].at = 1 /\ Len(d) - c < d[c + 1].len

LEMMA CutsWell ==
  ASSUME NEW d, Chain(d)
  PROVE  \A o \in 0 .. Len(d) : o = Len(d) \/ d[o + 1].at = 1 => CutAt(d, o, Cuts(d)[o])
<1> DEFINE L == Len(d)
           Begins(o) == o = L \/ d[o + 1].at = 1
           T == {k \in 0 .. L : Begins(L - k) /\ ~CutAt(d, L - k, Cuts(d)[L - k])}
<1>1. L \in Nat /\ HeaderSize \in Nat \ {0}
  BY ReassemblyAssumption DEF Chain
<1>2. \A q \in 1 .. L : d[q] \in Octets /\ d[q].at <= d[q].len /\ d[q].len \in HeaderSize + 1 .. MaxPacket
  BY DEF Chain
<1>3. \A q \in 1 .. L : d[q].at \in Nat /\ d[q].at > 0 /\ d[q].len \in Nat /\ d[q].len > HeaderSize
  BY <1>1, <1>2, ReassemblyAssumption DEF Octets
<1>4. \A o \in 0 .. L : Cuts(d)[o] = Jump(d, Cuts(d), o)
  BY CutsExist DEF Chain
<1>5. ASSUME T # {} PROVE FALSE
  <2>1. PICK k \in T : \A x \in T : k <= x
    <3>1. T \subseteq Nat
      OBVIOUS
    <3> HIDE DEF T
    <3> QED
      BY <3>1, <1>5, LeastOf
  <2> DEFINE o == L - k
             c == Cuts(d)[o]
  <2>2. o \in 0 .. L /\ Begins(o) /\ ~CutAt(d, o, c)
    BY <2>1, <1>1
  <2>3. \A j \in o + 1 .. L : Begins(j) => CutAt(d, j, Cuts(d)[j])
    <3> SUFFICES ASSUME NEW j \in o + 1 .. L, Begins(j) PROVE CutAt(d, j, Cuts(d)[j])
      OBVIOUS
    <3>1. L - j \in 0 .. L /\ L - j < k /\ L - (L - j) = j
      BY <2>1, <1>1
    <3>2. L - j \notin T
      <4> HIDE DEF T
      <4>1. k \in Nat
        BY <2>1, <1>1 DEF T
      <4> QED
        BY <2>1, <3>1, <4>1, <1>1
    <3> QED
      BY <3>1, <3>2
  <2> HIDE DEF T
  <2>4. c = Jump(d, Cuts(d), o)
    BY <1>4, <2>2
  <2>5. CASE L - o < HeaderSize
    <3>1. c = o
      BY <2>4, <2>5 DEF Jump
    <3>2. ASSUME o < L PROVE d[o + 1].at = 1 /\ L - o < d[o + 1].len
      <4>1. o + 1 \in 1 .. L /\ o \in Nat /\ o # L
        BY <1>1, <2>2, <3>2
      <4>2. d[o + 1].at = 1
        BY <2>2, <4>1
      <4>3. d[o + 1].len \in Nat /\ d[o + 1].len > HeaderSize
        BY <4>1, <1>3
      <4> QED
        BY <4>1, <4>2, <4>3, <1>1, <2>5
    <3> QED
      BY <3>1, <3>2, <2>2 DEF CutAt
  <2>6. CASE ~(L - o < HeaderSize)
    <3> DEFINE h == o + HeaderSize
               n == d[o + 1].len
    <3>1. o + 1 \in 1 .. L /\ d[o + 1].at = 1 /\ h \in o + 1 .. L /\ n \in HeaderSize + 1 .. MaxPacket
      BY <1>1, <1>2, <2>2, <2>6
    <3>2. SamePacket(d[o + 1], d[h], h - (o + 1))
      <4>1. h - (o + 1) <= d[o + 1].len - d[o + 1].at
        BY <3>1, <1>1, <1>3, <2>2, SMTT(30)
      <4> QED
        BY <3>1, <4>1, WithinPacket
    <3>3. PacketLength(d[h]) = n
      <4>1. d[h].at = 1 + (h - (o + 1)) /\ d[h].len = n
        BY <3>1, <3>2 DEF SamePacket
      <4>2. d[h].at = HeaderSize
        BY <4>1, <1>1, <2>2
      <4> QED
        BY <4>1, <4>2 DEF PacketLength
    <3>4. CASE L - o < n
      <4>1. c = o
        BY <2>4, <2>6, <3>3, <3>4 DEF Jump
      <4> QED
        BY <4>1, <3>1, <3>4, <2>2 DEF CutAt
    <3>5. CASE ~(L - o < n)
      <4>1. c = Cuts(d)[o + n]
        BY <2>4, <2>6, <3>3, <3>5 DEF Jump
      <4>2. o + n \in o + 1 .. L /\ n \in Nat
        BY <1>1, <3>1, <3>5, <2>2
      <4> HIDE DEF n
      <4>3. SamePacket(d[o + 1], d[o + n], (o + n) - (o + 1))
        <5>1. (o + n) - (o + 1) <= d[o + 1].len - d[o + 1].at
          BY <3>1, <4>2, <2>2 DEF n
        <5> QED
          BY <3>1, <4>2, <5>1, WithinPacket
      <4>4. Ends(d[o + n])
        BY <3>1, <4>2, <4>3, <2>2 DEF SamePacket, Ends, n
      <4>5. Begins(o + n)
        <5>1. CASE o + n = L
          BY <5>1
        <5>2. CASE o + n # L
          <6>1. o + n \in 1 .. L - 1
            BY <5>2, <4>2, <2>2
          <6> QED
            BY <6>1, <4>4, AfterEnd
        <5> QED
          BY <5>1, <5>2
      <4>6. CutAt(d, o + n, c)
        BY <4>1, <4>2, <4>5, <2>3
      <4> QED
        BY <4>2, <4>4, <4>6, <2>2 DEF CutAt
    <3> QED
      BY <3>4, <3>5
  <2> QED
    BY <2>2, <2>5, <2>6
<1> SUFFICES ASSUME NEW o \in 0 .. L, Begins(o) PROVE CutAt(d, o, Cuts(d)[o])
  OBVIOUS
<1>6. L - o \in 0 .. L /\ L - (L - o) = o
  BY <1>1
<1>7. L - o \notin T
  <2> HIDE DEF T
  <2> QED
    BY <1>5
<1> QED
  BY <1>6, <1>7

LEMMA CutWell ==
  ASSUME NEW d, Chain(d), Len(d) > 0 => d[1].at = 1
  PROVE  CutAt(d, 0, Cut(d))
<1>1. Len(d) \in Nat
  BY DEF Chain
<1>2. 0 \in 0 .. Len(d) /\ (0 = Len(d) \/ d[0 + 1].at = 1)
  BY <1>1
<1> QED
  BY <1>2, CutsWell DEF Cut
-----------------------------------------------------------------------------
(* Division, for the places where frames begin and the frame counter.       *)

LEMMA DivIs ==
  ASSUME NEW a \in Nat, NEW n \in Nat \ {0}
  PROVE  a \div n \in Nat /\ a % n \in 0 .. n - 1 /\ a = n * (a \div n) + (a % n)
OBVIOUS

LEMMA Grows ==
  ASSUME NEW p \in Nat, NEW q \in Nat, NEW n \in Nat \ {0}, p < q
  PROVE  n * p + n <= n * q
<1>1. q - p - 1 \in Nat
  OBVIOUS
<1>2. n * (q - p - 1) \in Nat
  BY <1>1
<1>3. n * (q - p - 1) = n * q - n * p - n
  OBVIOUS
<1> QED
  BY <1>2, <1>3

LEMMA ModOf ==
  ASSUME NEW q \in Nat, NEW n \in Nat \ {0}, NEW r \in 0 .. n - 1
  PROVE  (n * q + r) % n = r /\ (n * q + r) \div n = q
<1> DEFINE a == n * q + r
<1>1. a \in Nat
  OBVIOUS
<1>2. a \div n \in Nat /\ a % n \in 0 .. n - 1 /\ a = n * (a \div n) + (a % n)
  BY <1>1, DivIs
<1>3. a \div n = q
  <2>1. ~(a \div n < q)
    BY <1>1, <1>2, Grows
  <2>2. ~(q < a \div n)
    BY <1>1, <1>2, Grows
  <2> QED
    BY <1>2, <2>1, <2>2
<1> QED
  BY <1>1, <1>2, <1>3

LEMMA ModIs ==
  ASSUME NEW a \in Nat, NEW n \in Nat \ {0}, NEW q \in Nat, NEW r \in 0 .. n - 1, a = n * q + r
  PROVE  a % n = r /\ a \div n = q
BY ModOf

LEMMA Multiples ==
  ASSUME NEW a \in Nat, NEW b \in Nat, NEW n \in Nat \ {0}, a % n = 0, b % n = 0, a < b
  PROVE  a + n <= b /\ (a + n) % n = 0
<1>1. /\ a \div n \in Nat /\ b \div n \in Nat
      /\ a = n * (a \div n) /\ b = n * (b \div n)
  BY DivIs
<1>2. a \div n < b \div n
  <2>1. ~(b \div n < a \div n)
    BY <1>1, Grows
  <2> QED
    BY <1>1, <2>1
<1>3. a + n <= b
  BY <1>1, <1>2, Grows
<1>4. a + n = n * ((a \div n) + 1) + 0
  BY <1>1
<1> QED
  BY <1>1, <1>3, <1>4, ModOf

LEMMA SameFrame ==
  ASSUME NEW a \in Nat, NEW n \in Nat \ {0}, a % n = 0, NEW i \in Nat
  PROVE  i \div n = a \div n <=> i \in a .. a + n - 1
<1> DEFINE q == a \div n  p == i \div n
<1>1. /\ q \in Nat /\ p \in Nat /\ i % n \in 0 .. n - 1
      /\ a = n * q /\ i = n * p + (i % n)
  BY DivIs
<1> HIDE DEF q, p
<1>2. ASSUME i \in a .. a + n - 1 PROVE p = q
  <2> DEFINE r == i - a
  <2>1. r \in 0 .. n - 1 /\ i = n * q + r
    BY <1>1, <1>2
  <2> HIDE DEF r
  <2> QED
    BY <1>1, <2>1, ModIs DEF p
<1>3. ASSUME p = q PROVE i \in a .. a + n - 1
  BY <1>1, <1>3
<1> QED
  BY <1>2, <1>3 DEF p, q

LEMMA NextMod ==
  ASSUME NEW a \in Nat, NEW n \in Nat \ {0}
  PROVE  ((a % n) + 1) % n = (a + 1) % n
<1> DEFINE q == a \div n  r == a % n  b == a + 1  c == r + 1
<1>1. q \in Nat /\ r \in 0 .. n - 1 /\ a = n * q + r
  BY DivIs
<1> HIDE DEF q, r
<1>2. CASE r = n - 1
  <2> DEFINE k == q + 1
  <2>1. b \in Nat /\ k \in Nat /\ 0 \in 0 .. n - 1 /\ b = n * k + 0
    BY <1>1, <1>2
  <2>2. c \in Nat /\ 1 \in Nat /\ c = n * 1 + 0
    BY <1>1, <1>2
  <2> HIDE DEF b, c, k
  <2>3. b % n = 0 /\ c % n = 0
    BY <2>1, <2>2, ModIs
  <2> QED
    BY <2>3 DEF b, c, r
<1>3. CASE r # n - 1
  <2>1. b \in Nat /\ c \in 0 .. n - 1 /\ b = n * q + c /\ c \in Nat /\ c = n * 0 + c /\ 0 \in Nat
    BY <1>1, <1>3
  <2> HIDE DEF b, c
  <2>2. b % n = c /\ c % n = c
    BY <1>1, <2>1, ModIs
  <2> QED
    BY <2>2 DEF b, c, r
<1> QED
  BY <1>2, <1>3

LEMMA OtherMod ==
  ASSUME NEW a \in Nat, NEW n \in Nat \ {0}, NEW g \in 1 .. n - 1
  PROVE  (a + g) % n # a % n
<1> DEFINE q == a \div n  r == a % n  b == a + g
<1>1. q \in Nat /\ r \in 0 .. n - 1 /\ a = n * q + r
  BY DivIs
<1> HIDE DEF q, r
<1>2. CASE r + g < n
  <2> DEFINE t == r + g
  <2>1. b \in Nat /\ t \in 0 .. n - 1 /\ b = n * q + t /\ t # r
    BY <1>1, <1>2
  <2> HIDE DEF b, t
  <2>2. b % n = t
    BY <1>1, <2>1, ModIs
  <2> QED
    BY <2>1, <2>2 DEF b, r
<1>3. CASE ~(r + g < n)
  <2> DEFINE t == r + g - n  k == q + 1
  <2>1. b \in Nat /\ k \in Nat /\ t \in 0 .. n - 1 /\ b = n * k + t /\ t # r
    BY <1>1, <1>3
  <2> HIDE DEF b, t, k
  <2>2. b % n = t
    BY <2>1, ModIs
  <2> QED
    BY <2>1, <2>2 DEF b, r
<1> QED
  BY <1>2, <1>3
-----------------------------------------------------------------------------
(* The inductive invariant.                                                 *)

(* Frames follow one another, and a loss since the last frame that arrived  *)
(* shows in the frame counter.                                              *)
FramesKept ==
    /\ stream \in Streams /\ sent % FieldSize = 0
    /\ last # None => count = (last + 1 + gap) % Period
    /\ pending # <<>> => last # None
    /\ ~missed => gap < Period

(* The octets sent of the packet that the last octet sent belongs to.       *)
Open == SubSeq(stream, StartOf(stream, sent), sent)
OpenPlaces == StartOf(stream, sent) .. sent

(* If no period was lost and the last frame arrived, what is pending is the *)
(* packet that is being sent.                                               *)
PendingOpen == ~missed /\ gap = 0 /\ pending # <<>> => sent > 0 /\ pending = Open

(* Whatever was lost, a packet being sent of which nothing was lost pends.  *)
OpenKept == sent > 0 /\ ~Ends(stream[sent]) /\ OpenPlaces \subseteq got => gap = 0 /\ pending = Open

(* The last packet that came out was sent before what is pending.           *)
OutBefore == ~missed /\ out # <<>> =>
    /\ sent > 0 /\ out[Len(out)].pkt <= stream[sent].pkt
    /\ gap = 0 /\ pending # <<>> => out[Len(out)].pkt < stream[sent].pkt

IInv ==
    /\ TypeOK /\ FramesKept /\ PendingOpen /\ OpenKept /\ OutBefore
    /\ OnlyWhole /\ PendingBounded /\ Recovered

-----------------------------------------------------------------------------
(* The stream, the next frame of it, and where packets begin in the frame.  *)

LEMMA StreamChain ==
  ASSUME TypeOK, FramesKept
  PROVE  Chain(stream) /\ (Len(stream) > 0 => stream[1].at = 1) /\ Len(stream) \in Nat
BY ReassemblyAssumption DEF TypeOK, FramesKept, Chain

LEMMA Numbers ==
  /\ FieldSize \in Nat \ {0} /\ HeaderSize \in Nat \ {0} /\ Period \in Nat \ {0}
  /\ MaxPacket \in Nat /\ MaxGap \in Nat /\ None \notin Nat
BY ReassemblyAssumption

LEMMA SubChain ==
  ASSUME NEW d, Chain(d), NEW a \in 1 .. Len(d) + 1, NEW b \in a - 1 .. Len(d)
  PROVE  LET e == SubSeq(d, a, b)
         IN  /\ Chain(e) /\ Len(e) = b - a + 1
             /\ \A j \in 1 .. b - a + 1 : e[j] = d[a + j - 1]
             /\ \A q \in a .. b : e[q - a + 1] = d[q]
<1> DEFINE e == SubSeq(d, a, b)
<1>1. d \in Seq(Octets) /\ Len(d) \in Nat
  BY DEF Chain
<1>2. /\ e \in Seq(Octets) /\ Len(e) = b - a + 1
      /\ \A j \in 1 .. b - a + 1 : e[j] = d[a + j - 1]
  BY <1>1, SubSeqProperties
<1> HIDE DEF e
<1>3. \A q \in a .. b : e[q - a + 1] = d[q]
  <2> SUFFICES ASSUME NEW q \in a .. b PROVE e[q - a + 1] = d[q]
    OBVIOUS
  <2> DEFINE j == q - a + 1
  <2>1. j \in 1 .. b - a + 1 /\ a + j - 1 = q
    BY <1>1
  <2> HIDE DEF j
  <2> QED
    BY <2>1, <1>2 DEF j
<1>4. \A j \in 1 .. Len(e) : e[j].at <= e[j].len /\ e[j].len \in HeaderSize + 1 .. MaxPacket
  <2> SUFFICES ASSUME NEW j \in 1 .. Len(e)
               PROVE  e[j].at <= e[j].len /\ e[j].len \in HeaderSize + 1 .. MaxPacket
    OBVIOUS
  <2>1. a + j - 1 \in 1 .. Len(d) /\ e[j] = d[a + j - 1]
    BY <1>1, <1>2
  <2> QED
    BY <2>1 DEF Chain
<1>5. \A j \in 1 .. Len(e) - 1 : Follows(e[j], e[j + 1])
  <2> SUFFICES ASSUME NEW j \in 1 .. Len(e) - 1 PROVE Follows(e[j], e[j + 1])
    OBVIOUS
  <2>1. /\ a + j - 1 \in 1 .. Len(d) - 1 /\ e[j] = d[a + j - 1]
        /\ a + (j + 1) - 1 = (a + j - 1) + 1 /\ e[j + 1] = d[a + (j + 1) - 1]
    BY <1>1, <1>2, SMTT(30)
  <2> QED
    BY <2>1 DEF Chain
<1> QED
  BY <1>2, <1>3, <1>4, <1>5 DEF Chain, e

LEMMA NextField ==
  ASSUME TypeOK, FramesKept, More
  PROVE  /\ sent \in Nat /\ sent + FieldSize \in 1 .. Len(stream) /\ (sent + FieldSize) % FieldSize = 0
         /\ Chain(Field) /\ Len(Field) = FieldSize
         /\ \A j \in 1 .. FieldSize : Field[j] = stream[sent + j]
<1>1. sent \in Nat /\ Len(stream) \in Nat /\ sent < Len(stream) /\ FieldSize \in Nat \ {0}
      /\ sent % FieldSize = 0 /\ Len(stream) % FieldSize = 0 /\ sent \in 0 .. Len(stream)
  BY StreamChain, Numbers, ReassemblyAssumption DEF TypeOK, FramesKept, More
<1>2. sent + FieldSize <= Len(stream) /\ (sent + FieldSize) % FieldSize = 0
  BY <1>1, Multiples
<1>3. sent + 1 \in 1 .. Len(stream) + 1 /\ sent + FieldSize \in (sent + 1) - 1 .. Len(stream)
  BY <1>1, <1>2
<1>4. /\ Chain(Field) /\ Len(Field) = (sent + FieldSize) - (sent + 1) + 1
      /\ \A j \in 1 .. (sent + FieldSize) - (sent + 1) + 1 : Field[j] = stream[(sent + 1) + j - 1]
  BY <1>3, StreamChain, SubChain DEF Field
<1>5. (sent + FieldSize) - (sent + 1) + 1 = FieldSize /\ \A j \in 1 .. FieldSize : (sent + 1) + j - 1 = sent + j
  BY <1>1
<1> QED
  BY <1>1, <1>2, <1>4, <1>5

(* A frame in which no packet begins belongs to the packet that is open.    *)
LEMMA InOnePacket ==
  ASSUME TypeOK, FramesKept, More, Starts = {}
  PROVE  /\ sent > 0 /\ ~Ends(stream[sent])
         /\ StartOf(stream, sent) \in 1 .. sent
         /\ StartOf(stream, sent + FieldSize) = StartOf(stream, sent)
         /\ stream[sent + FieldSize].pkt = stream[sent].pkt
<1> DEFINE z == sent + FieldSize
           s == StartOf(stream, z)
<1>1. /\ sent \in Nat /\ z \in 1 .. Len(stream) /\ FieldSize \in Nat \ {0} /\ Len(stream) \in Nat
      /\ \A j \in 1 .. FieldSize : stream[sent + j].at # 1
  BY NextField, Numbers, StreamChain DEF Starts
<1>2. Chain(stream) /\ (Len(stream) > 0 => stream[1].at = 1)
  BY StreamChain
<1>3. s \in 1 .. z /\ stream[s].at = 1 /\ \A q \in s .. z : SamePacket(stream[s], stream[q], q - s)
  BY <1>1, <1>2, Starting
<1> HIDE DEF s
<1>4. s <= sent
  <2> SUFFICES ASSUME s > sent PROVE FALSE
    BY <1>1, <1>3
  <2>1. s - sent \in 1 .. FieldSize /\ sent + (s - sent) = s
    BY <1>1, <1>3
  <2> QED
    BY <2>1, <1>1, <1>3
<1>5. sent \in s .. z /\ sent + 1 \in s .. z /\ sent > 0 /\ sent \in 1 .. Len(stream) /\ sent \in 1 .. Len(stream) - 1
  BY <1>1, <1>3, <1>4
<1>6. SamePacket(stream[s], stream[sent], sent - s) /\ SamePacket(stream[s], stream[z], z - s)
  BY <1>1, <1>3, <1>5
<1>7. stream[sent].at = 1 + (sent - s) /\ stream[z].pkt = stream[sent].pkt
  BY <1>3, <1>6 DEF SamePacket
<1>8. StartOf(stream, sent) = s
  BY <1>1, <1>3, <1>4, <1>7 DEF StartOf
<1>9. ~Ends(stream[sent])
  <2>1. 1 \in 1 .. FieldSize /\ stream[sent + 1].at # 1
    BY <1>1
  <2> QED
    BY <2>1, <1>2, <1>5, AfterEnd
<1> QED
  BY <1>3, <1>4, <1>5, <1>7, <1>8, <1>9, <1>1 DEF s

(* The first packet that begins in a frame.                                 *)
LEMMA FirstStart ==
  ASSUME TypeOK, FramesKept, More, Starts # {}
  PROVE  /\ First \in 1 .. FieldSize /\ stream[sent + First].at = 1
         /\ \A j \in 1 .. First - 1 : stream[sent + j].at # 1
<1>1. Starts \subseteq Nat
  BY Numbers DEF Starts
<1>2. \E j \in Starts : \A i \in Starts : j <= i
  BY <1>1, LeastOf
<1>3. First \in Starts /\ \A i \in Starts : First <= i
  BY <1>2 DEF First
<1>4. First \in 1 .. FieldSize /\ \A j \in 1 .. FieldSize : Field[j] = stream[sent + j]
  BY <1>3, NextField DEF Starts
<1>5. \A j \in 1 .. First - 1 : j \in 1 .. FieldSize /\ j \notin Starts
  BY <1>3, <1>4, Numbers
<1> QED
  BY <1>3, <1>4, <1>5 DEF Starts

LEMMA SubSub ==
  ASSUME NEW d, Chain(d), NEW a \in 1 .. Len(d) + 1, NEW z \in a - 1 .. Len(d),
         NEW i \in 1 .. z - a + 2, NEW j \in i - 1 .. z - a + 1
  PROVE  SubSeq(SubSeq(d, a, z), i, j) = SubSeq(d, a + i - 1, a + j - 1)
<1> DEFINE e == SubSeq(d, a, z)  u == a + i - 1  v == a + j - 1
<1>1. Chain(e) /\ Len(e) = z - a + 1 /\ (\A k \in 1 .. z - a + 1 : e[k] = d[a + k - 1]) /\ Len(d) \in Nat
  BY SubChain DEF Chain
<1>2. /\ i \in 1 .. Len(e) + 1 /\ j \in i - 1 .. Len(e)
      /\ u \in 1 .. Len(d) + 1 /\ v \in u - 1 .. Len(d) /\ v - u = j - i
  BY <1>1
<1>d. a \in Nat /\ i \in Nat /\ j \in Int /\ i > 0 /\ u = a + i - 1 /\ z - a + 1 = Len(e)
  BY <1>1
<1> HIDE DEF e, u, v
<1>3. /\ SubSeq(e, i, j) \in Seq(Octets) /\ Len(SubSeq(e, i, j)) = j - i + 1
      /\ \A k \in 1 .. j - i + 1 : SubSeq(e, i, j)[k] = e[i + k - 1]
  BY <1>1, <1>2, SubChain DEF Chain
<1>4. /\ SubSeq(d, u, v) \in Seq(Octets) /\ Len(SubSeq(d, u, v)) = v - u + 1
      /\ \A k \in 1 .. v - u + 1 : SubSeq(d, u, v)[k] = d[u + k - 1]
  BY <1>2, SubChain DEF Chain
<1>5. ASSUME NEW k \in 1 .. j - i + 1 PROVE SubSeq(e, i, j)[k] = SubSeq(d, u, v)[k]
  <2>1. SubSeq(e, i, j)[k] = e[i + k - 1] /\ SubSeq(d, u, v)[k] = d[u + k - 1]
    BY <1>2, <1>3, <1>4
  <2>2. i + k - 1 \in 1 .. z - a + 1 /\ a + (i + k - 1) - 1 = u + k - 1
    BY <1>2, <1>d
  <2> QED
    BY <2>1, <2>2, <1>1
<1>6. j - i + 1 = v - u + 1
  BY <1>2, <1>d
<1> QED
  BY <1>3, <1>4, <1>5, <1>6, SeqEqual DEF e, u, v

LEMMA Rising ==
  ASSUME NEW d, Chain(d), NEW p \in 1 .. Len(d), NEW q \in p .. Len(d)
  PROVE  /\ d[p].pkt <= d[q].pkt
         /\ p < q /\ d[q].at = 1 => d[p].pkt < d[q].pkt
<1>1. SamePacket(d[p], d[q], q - p) \/ LaterPacket(d[p], d[q], q - p)
  BY Between
<1>2. d[p] \in Octets /\ d[q] \in Octets
  BY DEF Chain
<1>3. d[p].at \in Nat /\ d[p].at > 0 /\ d[p].pkt \in Nat /\ d[q].pkt \in Nat /\ p \in Int /\ q \in Int
  BY <1>2 DEF Octets
<1> QED
  BY <1>1, <1>3 DEF SamePacket, LaterPacket

Rest == SubSeq(Field, First, FieldSize)
LastCut == sent + First + Cut(Rest) - 1

LEMMA RestCut ==
  ASSUME TypeOK, FramesKept, More, Starts # {}
  PROVE  /\ LastCut \in sent + First - 1 .. sent + FieldSize
         /\ Complete(Rest) = SubSeq(stream, sent + First, LastCut)
         /\ Partial(Rest) = SubSeq(stream, LastCut + 1, sent + FieldSize)
         /\ LastCut >= sent + First => Ends(stream[LastCut])
         /\ LastCut < sent + FieldSize => /\ stream[LastCut + 1].at = 1
                                          /\ StartOf(stream, sent + FieldSize) = LastCut + 1
                                          /\ ~Ends(stream[sent + FieldSize])
                                          /\ (sent + FieldSize) - LastCut < stream[LastCut + 1].len
<1> DEFINE d == stream  a == sent + First  z == sent + FieldSize
           c == Cut(Rest)  b == LastCut  n == FieldSize - First + 1
<1>1. /\ sent \in Nat /\ z \in 1 .. Len(d) /\ FieldSize \in Nat \ {0} /\ Len(d) \in Nat
      /\ First \in 1 .. FieldSize /\ d[a].at = 1 /\ Chain(d)
  BY NextField, Numbers, StreamChain, FirstStart
<1>2. Rest = SubSeq(d, a, z)
  <2>1. /\ sent + 1 \in 1 .. Len(d) + 1 /\ z \in (sent + 1) - 1 .. Len(d)
        /\ First \in 1 .. z - (sent + 1) + 2 /\ FieldSize \in First - 1 .. z - (sent + 1) + 1
        /\ (sent + 1) + First - 1 = a /\ (sent + 1) + FieldSize - 1 = z
    BY <1>1
  <2> QED
    BY <2>1, <1>1, SubSub DEF Rest, Field
<1>3. a \in 1 .. Len(d) + 1 /\ z \in a - 1 .. Len(d) /\ z - a + 1 = n /\ n \in Nat \ {0}
  BY <1>1
<1>4. Chain(Rest) /\ Len(Rest) = n /\ \A j \in 1 .. n : Rest[j] = d[a + j - 1]
  BY <1>1, <1>2, <1>3, SubChain
<1>0. a \in Nat /\ a > 0 /\ z \in Nat /\ a <= z /\ z <= Len(d) /\ b = a + c - 1 /\ n = z - a + 1
      /\ a - 1 = sent + First - 1
  BY <1>1 DEF LastCut
<1> HIDE DEF a, z, b, c, n
<1>5. Rest[1].at = 1
  BY <1>1, <1>3, <1>4
<1>6. CutAt(Rest, 0, c)
  BY <1>4, <1>5, CutWell DEF c
<1>7. c \in 0 .. n /\ b = a + c - 1 /\ b + 1 = a + (c + 1) - 1 /\ a + n - 1 = z
  <2>1. c \in 0 .. n
    BY <1>3, <1>4, <1>6 DEF CutAt
  <2>2. c \in Int /\ n \in Int
    BY <2>1, <1>3
  <2> QED
    BY <2>1, <2>2, <1>0
<1>8. b \in a - 1 .. z
  BY <1>0, <1>3, <1>7
<1>9. Complete(Rest) = SubSeq(d, a, b)
  <2>1. 1 \in 1 .. z - a + 2 /\ c \in 1 - 1 .. z - a + 1 /\ a + 1 - 1 = a
    BY <1>0, <1>3, <1>7
  <2>2. Complete(Rest) = SubSeq(SubSeq(d, a, z), 1, c)
    BY <1>2 DEF Complete, c
  <2>3. SubSeq(SubSeq(d, a, z), 1, c) = SubSeq(d, a + 1 - 1, a + c - 1)
    BY <2>1, <1>1, <1>3, SubSub
  <2> QED
    BY <2>1, <2>2, <2>3, <1>7
<1>10. Partial(Rest) = SubSeq(d, b + 1, z)
  <2>1. c + 1 \in 1 .. z - a + 2 /\ n \in (c + 1) - 1 .. z - a + 1
    BY <1>0, <1>3, <1>7
  <2>2. Partial(Rest) = SubSeq(SubSeq(d, a, z), c + 1, n)
    BY <1>2, <1>4 DEF Partial, c
  <2>3. SubSeq(SubSeq(d, a, z), c + 1, n) = SubSeq(d, a + (c + 1) - 1, a + n - 1)
    <3> DEFINE m == c + 1
    <3>1. m \in 1 .. z - a + 2 /\ n \in m - 1 .. z - a + 1
      BY <2>1
    <3> HIDE DEF m
    <3>2. SubSeq(SubSeq(d, a, z), m, n) = SubSeq(d, a + m - 1, a + n - 1)
      BY <3>1, <1>1, <1>3, SubSub
    <3> QED
      BY <3>2 DEF m
  <2> QED
    BY <2>2, <2>3, <1>7
<1>11. ASSUME b >= a PROVE Ends(d[b])
  <2>0. c \in 1 .. n
    BY <1>0, <1>3, <1>7, <1>11
  <2>1. Ends(Rest[c]) /\ Rest[c] = d[a + c - 1]
    BY <2>0, <1>4, <1>6 DEF CutAt
  <2> QED
    BY <2>1, <1>7
<1>12. ASSUME b < z
       PROVE  d[b + 1].at = 1 /\ StartOf(d, z) = b + 1 /\ ~Ends(d[z]) /\ z - b < d[b + 1].len
  <2>1. c < n /\ c + 1 \in 1 .. n
    BY <1>0, <1>3, <1>7, <1>12
  <2>2. Rest[c + 1].at = 1 /\ n - c < Rest[c + 1].len /\ Rest[c + 1] = d[b + 1]
    BY <2>1, <1>4, <1>6, <1>7 DEF CutAt
  <2>3. d[b + 1].at = 1 /\ z - b < d[b + 1].len
    BY <2>2, <1>0, <1>3, <1>7
  <2>4. b + 1 \in 1 .. Len(d) /\ z \in b + 1 .. Len(d) /\ b \in Int /\ z \in Int
    BY <1>0, <1>1, <1>8, <1>12
  <2>5. d[b + 1].len \in Nat
    <3>1. d[b + 1] \in Octets
      BY <1>1, <2>4 DEF Chain
    <3> QED
      BY <3>1 DEF Octets
  <2>6. SamePacket(d[b + 1], d[z], z - (b + 1))
    <3>1. z - (b + 1) <= d[b + 1].len - d[b + 1].at
      BY <2>3, <2>4, <2>5
    <3> QED
      BY <3>1, <2>4, <1>1, WithinPacket
  <2>7. d[z].at = z - b /\ d[z].len = d[b + 1].len
    BY <2>3, <2>4, <2>6 DEF SamePacket
  <2>8. StartOf(d, z) = b + 1 /\ ~Ends(d[z])
    BY <2>3, <2>4, <2>5, <2>7 DEF StartOf, Ends
  <2> QED
    BY <2>3, <2>8
<1> QED
  <2>1. LastCut \in a - 1 .. z /\ a - 1 = sent + First - 1
    BY <1>0, <1>8 DEF b
  <2>2. LastCut \in sent + First - 1 .. sent + FieldSize
    BY <2>1 DEF z
  <2>3. Complete(Rest) = SubSeq(stream, sent + First, LastCut)
    BY <1>9 DEF a, b
  <2>4. Partial(Rest) = SubSeq(stream, LastCut + 1, sent + FieldSize)
    BY <1>10 DEF b, z
  <2>5. LastCut >= sent + First => Ends(stream[LastCut])
    BY <1>11 DEF a, b
  <2>6. LastCut < sent + FieldSize => /\ stream[LastCut + 1].at = 1
                                      /\ StartOf(stream, sent + FieldSize) = LastCut + 1
                                      /\ ~Ends(stream[sent + FieldSize])
                                      /\ (sent + FieldSize) - LastCut < stream[LastCut + 1].len
    <3> SUFFICES ASSUME LastCut < sent + FieldSize
                 PROVE  /\ stream[LastCut + 1].at = 1
                        /\ StartOf(stream, sent + FieldSize) = LastCut + 1
                        /\ ~Ends(stream[sent + FieldSize])
                        /\ (sent + FieldSize) - LastCut < stream[LastCut + 1].len
      OBVIOUS
    <3>1. b < z
      BY DEF b, z
    <3>2. d[b + 1].at = 1 /\ StartOf(d, z) = b + 1 /\ ~Ends(d[z]) /\ z - b < d[b + 1].len
      BY <3>1, <1>12
    <3>3. stream[LastCut + 1].at = 1 /\ ~Ends(stream[sent + FieldSize])
      BY <3>2 DEF b, z
    <3>4. StartOf(stream, sent + FieldSize) = LastCut + 1
      BY <3>2 DEF b, z
    <3>5. (sent + FieldSize) - LastCut < stream[LastCut + 1].len
      BY <3>2 DEF b, z
    <3> QED
      BY <3>3, <3>4, <3>5
  <2> QED
    BY <2>2, <2>3, <2>4, <2>5, <2>6

(* What pends is completed by the octets before the first header.           *)
LEMMA OpenJoined ==
  ASSUME TypeOK, FramesKept, More, Starts # {}, sent > 0
  PROVE  LET s == StartOf(stream, sent)  y == sent + First - 1
         IN  /\ s \in 1 .. sent /\ stream[s].at = 1
             /\ Open \o SubSeq(Field, 1, First - 1) = SubSeq(stream, s, y)
<1> DEFINE d == stream  s == StartOf(d, sent)  y == sent + First - 1
<1>1. /\ sent \in Nat /\ sent + FieldSize \in 1 .. Len(d) /\ FieldSize \in Nat \ {0} /\ Len(d) \in Nat
      /\ First \in 1 .. FieldSize /\ Chain(d) /\ (Len(d) > 0 => d[1].at = 1)
  BY NextField, Numbers, StreamChain, FirstStart
<1>2. sent \in 1 .. Len(d) /\ Len(d) > 0
  BY <1>1
<1>3. s \in 1 .. sent /\ d[s].at = 1
  BY <1>1, <1>2, Starting
<1>4. SubSeq(Field, 1, First - 1) = SubSeq(d, sent + 1, y)
  <2>1. /\ sent + 1 \in 1 .. Len(d) + 1 /\ sent + FieldSize \in (sent + 1) - 1 .. Len(d)
        /\ 1 \in 1 .. (sent + FieldSize) - (sent + 1) + 2
        /\ First - 1 \in 1 - 1 .. (sent + FieldSize) - (sent + 1) + 1
        /\ (sent + 1) + 1 - 1 = sent + 1 /\ (sent + 1) + (First - 1) - 1 = y
    BY <1>1
  <2> QED
    BY <2>1, <1>1, SubSub DEF Field
<1>5. s \in 1 .. Len(d) + 1 /\ sent \in s - 1 .. Len(d) /\ y \in sent .. Len(d)
  BY <1>1, <1>2, <1>3
<1> HIDE DEF s, y
<1>6. SubSeq(d, s, sent) \o SubSeq(d, sent + 1, y) = SubSeq(d, s, y)
  BY <1>1, <1>5, ConcatAdjacentSubSeq DEF Chain
<1> QED
  BY <1>3, <1>4, <1>6 DEF Open, s, y

-----------------------------------------------------------------------------
(* Steps.                                                                   *)

LEMMA SentWell ==
  ASSUME TypeOK, FramesKept, NEW kind, Sent(kind)
  PROVE  /\ kind = "idle" => sent' = sent
         /\ kind # "idle" => More /\ sent' = sent + FieldSize
         /\ sent' \in sent .. Len(stream) /\ sent' % FieldSize = 0
         /\ count' = (count + 1) % Period /\ count' \in 0 .. Period - 1
<1>1. sent \in Nat /\ Len(stream) \in Nat /\ sent <= Len(stream) /\ sent % FieldSize = 0 /\ count \in Nat
  BY StreamChain DEF TypeOK, FramesKept
<1>2. count' = (count + 1) % Period /\ count' \in 0 .. Period - 1
  BY <1>1, Numbers, DivIs DEF Sent
<1>3. CASE kind = "idle"
  BY <1>1, <1>2, <1>3 DEF Sent
<1>4. CASE kind # "idle"
  <2>1. More /\ sent' = sent + FieldSize
    BY <1>4 DEF Sent, CanSend
  <2> QED
    BY <1>1, <1>2, <1>4, <2>1, NextField, Numbers
<1> QED
  BY <1>3, <1>4

LEMMA HeldIs ==
  ASSUME TypeOK, FramesKept
  PROVE  /\ Held = <<>> \/ Held = pending
         /\ gap = 0 => Held = pending
         /\ ~missed /\ gap # 0 => Held = <<>>
<1>1. Held = <<>> \/ Held = pending
  BY DEF Held
<1>2. ASSUME last = None PROVE pending = <<>>
  BY <1>2 DEF FramesKept
<1>3. ASSUME last # None
      PROVE  last + 1 \in Nat /\ count = ((last + 1) + gap) % Period /\ gap \in Nat
  BY <1>3, Numbers DEF TypeOK, FramesKept
<1>4. ASSUME gap = 0 PROVE Held = pending
  <2>1. CASE last = None
    BY <1>2, <2>1 DEF Held
  <2>2. CASE last # None
    <3>1. (last + 1) + gap = last + 1
      BY <1>3, <1>4, <2>2
    <3>2. count = (last + 1) % Period
      BY <3>1, <1>3, <2>2
    <3> QED
      BY <3>2 DEF Held
  <2> QED
    BY <2>1, <2>2
<1>5. ASSUME ~missed, gap # 0 PROVE Held = <<>>
  <2>1. CASE last = None
    BY <1>1, <1>2, <2>1
  <2>2. CASE last # None
    <3>1. gap \in 1 .. Period - 1
      BY <1>3, <1>5, <2>2, Numbers DEF FramesKept
    <3>2. ((last + 1) + gap) % Period # (last + 1) % Period
      BY <1>3, <2>2, <3>1, Numbers, OtherMod
    <3> QED
      BY <1>3, <2>2, <3>2 DEF Held
  <2> QED
    BY <2>1, <2>2
<1> QED
  BY <1>1, <1>4, <1>5

LEMMA HeldOpen ==
  ASSUME TypeOK, FramesKept, PendingOpen, ~missed, Held # <<>>
  PROVE  gap = 0 /\ sent > 0 /\ Held = Open /\ pending # <<>>
BY HeldIs DEF PendingOpen

LEMMA Kindly ==
  /\ RIdle => Sent("idle") /\ last' = count /\ gap' = 0 /\ UNCHANGED <<stream, missed>> /\ pending' = <<>> /\ UNCHANGED <<out, got>>
  /\ RBeyond => Sent("bad") /\ last' = count /\ gap' = 0 /\ UNCHANGED <<stream, missed>> /\ pending' = <<>> /\ UNCHANGED <<out, got>>
  /\ RContinue => Sent("data") /\ last' = count /\ gap' = 0 /\ UNCHANGED <<stream, missed>> /\ got' = got \cup Places /\ UNCHANGED out
  /\ RHeader => Sent("data") /\ last' = count /\ gap' = 0 /\ UNCHANGED <<stream, missed>> /\ got' = got \cup Places
                /\ pending' = Partial(Rest) /\ out' = out \o Joined(Held) \o Complete(Rest)
BY DEF RIdle, RBeyond, RContinue, RHeader, Arrived, Seen, Rest

LEMMA FramesStep ==
  ASSUME TypeOK, FramesKept, Next
  PROVE  FramesKept'
<1>1. count \in Nat /\ count # None /\ gap \in Nat /\ Period \in Nat \ {0}
  BY Numbers DEF TypeOK
<1>2. CASE Lose
  <2>1. PICK kind \in Kinds : Sent(kind)
    BY <1>2 DEF Lose
  <2>2. /\ UNCHANGED <<stream, pending, last>> /\ gap' = gap + 1 /\ missed' = (missed \/ gap' >= Period)
    BY <1>2 DEF Lose
  <2>3. sent' % FieldSize = 0 /\ count' = (count + 1) % Period
    BY <2>1, SentWell
  <2>4. ASSUME last # None PROVE count' = (last + 1 + gap') % Period
    <3> DEFINE a == last + 1 + gap
    <3>1. a \in Nat /\ count = a % Period /\ last + 1 + gap' = a + 1
      BY <1>1, <2>2, <2>4, Numbers DEF TypeOK, FramesKept
    <3> HIDE DEF a
    <3>2. ((a % Period) + 1) % Period = (a + 1) % Period
      BY <3>1, <1>1, NextMod
    <3> QED
      BY <2>3, <3>1, <3>2
  <2>5. ASSUME ~missed' PROVE gap' < Period
    <3>1. ~(gap' >= Period)
      BY <2>2, <2>5, Zenon
    <3> QED
      BY <3>1, <1>1, <2>2
  <2> QED
    BY <2>2, <2>3, <2>4, <2>5 DEF FramesKept
<1>3. ASSUME NEW kind, Sent(kind), last' = count, gap' = 0, UNCHANGED <<stream, missed>> PROVE FramesKept'
  <2>1. sent' % FieldSize = 0 /\ count' = (count + 1) % Period
    BY <1>3, SentWell
  <2>2. last' + 1 + gap' = count + 1
    BY <1>1, <1>3
  <2>3. gap' < Period
    BY <1>1, <1>3
  <2> QED
    BY <2>1, <2>2, <2>3, <1>1, <1>3 DEF FramesKept
<1> QED
  BY <1>2, <1>3, Kindly DEF Next

LEMMA FieldOctets ==
  ASSUME TypeOK, FramesKept, More
  PROVE  /\ Field \in Seq(Octets)
         /\ Starts # {} => SubSeq(Field, 1, First - 1) \in Seq(Octets)
         /\ Starts # {} => Complete(Rest) \in Seq(Octets) /\ Partial(Rest) \in Seq(Octets)
         /\ Starts # {} => Len(Partial(Rest)) <= MaxPacket
<1>1. Field \in Seq(Octets) /\ Len(Field) = FieldSize
  BY NextField DEF Chain
<1>2. ASSUME Starts # {}
      PROVE  /\ SubSeq(Field, 1, First - 1) \in Seq(Octets)
             /\ Complete(Rest) \in Seq(Octets) /\ Partial(Rest) \in Seq(Octets)
             /\ Len(Partial(Rest)) <= MaxPacket
  <2>1. /\ First \in 1 .. FieldSize /\ sent \in Nat /\ sent + FieldSize \in 1 .. Len(stream)
        /\ FieldSize \in Nat /\ Chain(Field) /\ Chain(stream) /\ Len(stream) \in Nat
    BY <1>2, FirstStart, NextField, Numbers, StreamChain
  <2>2. 1 \in 1 .. Len(Field) + 1 /\ First - 1 \in 1 - 1 .. Len(Field)
    BY <1>1, <2>1
  <2>3. SubSeq(Field, 1, First - 1) \in Seq(Octets)
    BY <2>1, <2>2, SubChain DEF Chain
  <2> DEFINE b == LastCut  z == sent + FieldSize  a == sent + First
  <2>a. b \in a - 1 .. z
    <3>1. LastCut \in sent + First - 1 .. sent + FieldSize /\ sent + First - 1 = (sent + First) - 1
      BY <1>2, <2>1, RestCut
    <3> QED
      BY <3>1
  <2>b. Complete(Rest) = SubSeq(stream, a, b) /\ Partial(Rest) = SubSeq(stream, b + 1, z)
    BY <1>2, RestCut
  <2>4. b \in a - 1 .. z /\ Complete(Rest) = SubSeq(stream, a, b) /\ Partial(Rest) = SubSeq(stream, b + 1, z)
    BY <2>a, <2>b
  <2>c. b < z => z - b < stream[b + 1].len
    BY <1>2, RestCut
  <2>5. a \in 1 .. Len(stream) + 1 /\ z \in 1 .. Len(stream) /\ a <= z
    BY <2>1
  <2> HIDE DEF a, b, z
  <2>6. b \in a - 1 .. Len(stream) /\ b + 1 \in 1 .. Len(stream) + 1 /\ z \in (b + 1) - 1 .. Len(stream) /\ b \in Int
    BY <2>1, <2>4, <2>5
  <2>7. SubSeq(stream, a, b) \in Seq(Octets)
    BY <2>1, <2>5, <2>6, SubChain DEF Chain
  <2>8. SubSeq(stream, b + 1, z) \in Seq(Octets) /\ Len(SubSeq(stream, b + 1, z)) = z - (b + 1) + 1
    BY <2>1, <2>6, SubChain DEF Chain
  <2>9. z - (b + 1) + 1 <= MaxPacket
    <3>1. CASE b < z
      <4>1. b + 1 \in 1 .. Len(stream)
        BY <2>1, <2>5, <2>6, <3>1
      <4>2. stream[b + 1].len \in HeaderSize + 1 .. MaxPacket
        BY <2>1, <4>1 DEF Chain
      <4> QED
        BY <2>c, <2>4, <2>5, <2>6, <3>1, <4>2, Numbers
    <3>2. CASE ~(b < z)
      BY <3>2, <2>4, <2>5, <2>6, Numbers
    <3> QED
      BY <3>1, <3>2
  <2> QED
    BY <2>3, <2>4, <2>7, <2>8, <2>9
<1> QED
  BY <1>1, <1>2

LEMMA TypeStep ==
  ASSUME TypeOK, FramesKept, PendingBounded, Next
  PROVE  TypeOK' /\ PendingBounded'
<1>1. /\ stream \in Seq(Octets) /\ pending \in Seq(Octets) /\ out \in Seq(Octets) /\ count \in 0 .. Period - 1
      /\ sent \in Nat /\ FieldSize \in Nat /\ 0 \in 0 .. MaxGap /\ missed \in BOOLEAN /\ got \subseteq 1 .. sent
  BY Numbers, StreamChain DEF TypeOK
<1>2. ASSUME NEW kind, Sent(kind)
      PROVE  /\ sent' \in 0 .. Len(stream) /\ sent' \in sent .. Len(stream) /\ count' \in 0 .. Period - 1
             /\ got \subseteq 1 .. sent'
             /\ kind # "idle" => got \cup Places \subseteq 1 .. sent'
  <2>1. /\ sent' \in sent .. Len(stream) /\ count' \in 0 .. Period - 1
        /\ kind # "idle" => sent' = sent + FieldSize
    BY <1>2, SentWell
  <2> QED
    BY <2>1, <1>1, StreamChain DEF Places
<1>3. CASE Lose
  <2>1. PICK kind \in Kinds : Sent(kind)
    BY <1>3 DEF Lose
  <2>2. UNCHANGED <<stream, pending, last, out, got>> /\ gap' \in 0 .. MaxGap /\ missed' \in BOOLEAN
    BY <1>3, Numbers DEF Lose, TypeOK
  <2> QED
    BY <1>1, <1>2, <2>1, <2>2 DEF TypeOK, PendingBounded
<1>4. ASSUME NEW kind, Sent(kind), last' = count, gap' = 0, UNCHANGED <<stream, missed>>,
             pending' \in Seq(Octets), Len(pending') <= MaxPacket, out' \in Seq(Octets),
             got' = got \/ (kind # "idle" /\ got' = got \cup Places)
      PROVE  TypeOK' /\ PendingBounded'
  BY <1>1, <1>2, <1>4 DEF TypeOK, PendingBounded
<1>e. <<>> \in Seq(Octets) /\ Len(<<>>) <= MaxPacket
  BY Numbers
<1>5. CASE RIdle
  <2>1. /\ last' = count /\ gap' = 0 /\ UNCHANGED <<stream, missed>> /\ pending' = <<>> /\ out' = out /\ got' = got
    BY <1>5, Kindly
  <2>k. Sent("idle")
    BY <1>5, Kindly
  <2>2. pending' \in Seq(Octets) /\ Len(pending') <= MaxPacket /\ out' \in Seq(Octets)
    BY <2>1, <1>1, <1>e
  <2> QED
    BY <2>1, <2>k, <2>2, <1>4
<1>6. CASE RBeyond
  <2>1. /\ last' = count /\ gap' = 0 /\ UNCHANGED <<stream, missed>> /\ pending' = <<>> /\ out' = out /\ got' = got
    BY <1>6, Kindly
  <2>k. Sent("bad")
    BY <1>6, Kindly
  <2>2. pending' \in Seq(Octets) /\ Len(pending') <= MaxPacket /\ out' \in Seq(Octets)
    BY <2>1, <1>1, <1>e
  <2> QED
    BY <2>1, <2>k, <2>2, <1>4
<1>h. Held \in Seq(Octets)
  BY <1>1, <1>e, HeldIs
<1>7. CASE RContinue
  <2>1. Sent("data") /\ "data" # "idle"
    BY <1>7, Kindly
  <2>2. Field \in Seq(Octets)
    BY <2>1, SentWell, FieldOctets
  <2>3. Held \o Field \in Seq(Octets)
    BY <2>2, <1>h
  <2>4. pending' = <<>> \/ (pending' = Held \o Field /\ ~(Len(Held \o Field) > MaxPacket))
    <3>1. pending' = IF Held = <<>> THEN <<>> ELSE Limited(Held \o Field)
      BY <1>7 DEF RContinue
    <3>2. \A d : Limited(d) = <<>> \/ (Limited(d) = d /\ ~(Len(d) > MaxPacket))
      BY DEF Limited
    <3> QED
      BY <3>1, <3>2
  <2>5. pending' \in Seq(Octets) /\ Len(pending') <= MaxPacket
    <3>1. CASE pending' = <<>>
      BY <3>1, <1>e
    <3>2. CASE pending' = Held \o Field /\ ~(Len(Held \o Field) > MaxPacket)
      <4>1. pending' \in Seq(Octets) /\ ~(Len(pending') > MaxPacket)
        BY <2>3, <3>2, Zenon
      <4> QED
        BY <4>1, Numbers
    <3> QED
      BY <2>4, <3>1, <3>2
  <2> QED
    BY <1>1, <1>4, <1>7, <2>1, <2>5, Kindly
<1>8. CASE RHeader
  <2>1. Sent("data") /\ "data" # "idle" /\ Starts # {}
    BY <1>8, Kindly DEF RHeader
  <2>2. /\ SubSeq(Field, 1, First - 1) \in Seq(Octets) /\ Complete(Rest) \in Seq(Octets)
        /\ Partial(Rest) \in Seq(Octets) /\ Len(Partial(Rest)) <= MaxPacket
    BY <2>1, SentWell, FieldOctets
  <2>3. Joined(Held) \in Seq(Octets)
    BY <2>2, <1>h, <1>e DEF Joined
  <2>4. out \o Joined(Held) \o Complete(Rest) \in Seq(Octets)
    BY <2>2, <2>3, <1>1
  <2> QED
    BY <1>1, <1>4, <1>8, <2>1, <2>2, <2>4, Kindly
<1> QED
  BY <1>3, <1>5, <1>6, <1>7, <1>8 DEF Next

LEMMA ContinueOpen ==
  ASSUME TypeOK, FramesKept, More, Starts = {}
  PROVE  /\ Limited(Open \o Field) = SubSeq(stream, StartOf(stream, sent + FieldSize), sent + FieldSize)
         /\ Open # <<>>
<1> DEFINE s == StartOf(stream, sent)  z == sent + FieldSize
<1>1. /\ sent \in Nat /\ sent > 0 /\ z \in 1 .. Len(stream) /\ Len(stream) \in Nat /\ sent <= z
      /\ s \in 1 .. sent /\ StartOf(stream, z) = s /\ Chain(stream)
  BY InOnePacket, NextField, StreamChain, Numbers
<1>2. s \in 1 .. Len(stream) + 1 /\ sent \in s - 1 .. Len(stream) /\ z \in sent .. Len(stream) /\ z \in s - 1 .. Len(stream)
  BY <1>1
<1>3. Open \o Field = SubSeq(stream, s, z)
  <2> HIDE DEF s, z
  <2>1. SubSeq(stream, s, sent) \o SubSeq(stream, sent + 1, z) = SubSeq(stream, s, z)
    BY <1>1, <1>2, ConcatAdjacentSubSeq DEF Chain
  <2> QED
    BY <2>1 DEF Open, Field, s, z
<1>4. Len(SubSeq(stream, s, z)) = z - s + 1 /\ Len(Open) = sent - s + 1 /\ Open \in Seq(Octets)
  BY <1>1, <1>2, SubChain DEF Open, Chain
<1>5. z - s + 1 = stream[z].at /\ stream[z].at <= MaxPacket
  <2>1. stream[z] \in Octets /\ stream[z].at <= stream[z].len /\ stream[z].len \in HeaderSize + 1 .. MaxPacket
    BY <1>1 DEF Chain
  <2>2. stream[z].at \in Nat
    BY <2>1 DEF Octets
  <2>3. s = z - stream[z].at + 1
    BY <1>1 DEF StartOf
  <2>4. z \in Nat /\ s \in Nat /\ z - s + 1 = stream[z].at
    <3> HIDE DEF z, s
    <3> QED
      BY <1>1, <2>2, <2>3
  <2> HIDE DEF z, s
  <2> QED
    BY <2>1, <2>2, <2>4, Numbers
<1>6. Open # <<>>
  <2>1. Len(Open) # 0
    BY <1>1, <1>4
  <2> QED
    BY <2>1
<1>7. Limited(Open \o Field) = Open \o Field
  <2>1. Len(Open \o Field) = z - s + 1 /\ z - s + 1 \in Int
    BY <1>1, <1>3, <1>4
  <2> HIDE DEF z, s
  <2>2. ~(Len(Open \o Field) > MaxPacket)
    BY <1>5, <2>1, Numbers
  <2> QED
    BY <2>2 DEF Limited
<1> QED
  BY <1>1, <1>3, <1>6, <1>7

LEMMA HeaderOpen ==
  ASSUME TypeOK, FramesKept, More, Starts # {},
         Partial(Rest) # <<>> \/ ~Ends(stream[sent + FieldSize])
  PROVE  /\ Partial(Rest) = SubSeq(stream, StartOf(stream, sent + FieldSize), sent + FieldSize)
         /\ LastCut < sent + FieldSize
<1> DEFINE b == LastCut  z == sent + FieldSize
<1>1. sent \in Nat /\ First \in 1 .. FieldSize /\ z \in Nat /\ sent + First \in Nat /\ sent + First <= z
  BY FirstStart, NextField, Numbers
<1>2. LastCut \in sent + First - 1 .. sent + FieldSize /\ sent + First - 1 = (sent + First) - 1
  BY <1>1, RestCut
<1>3. b <= z /\ b \in Int
  BY <1>1, <1>2
<1>4. b # z
  <2> SUFFICES ASSUME b = z PROVE FALSE
    OBVIOUS
  <2>1. Ends(stream[z])
    BY <1>1, RestCut
  <2>2. Partial(Rest) = SubSeq(stream, z + 1, z)
    BY RestCut
  <2>3. SubSeq(stream, z + 1, z) = <<>>
    BY <1>1, SubSeqEmpty
  <2> QED
    BY <2>1, <2>2, <2>3
<1>5. b < z
  BY <1>1, <1>3, <1>4
<1> QED
  BY <1>5, RestCut

LEMMA OpenStep ==
  ASSUME TypeOK, FramesKept, PendingOpen, OpenKept, Next
  PROVE  PendingOpen' /\ OpenKept'
<1> DEFINE z == sent + FieldSize  s == StartOf(stream, sent)
<1>1. /\ sent \in Nat /\ FieldSize \in Nat \ {0} /\ gap \in Nat /\ got \subseteq 1 .. sent
      /\ Chain(stream) /\ (Len(stream) > 0 => stream[1].at = 1) /\ Len(stream) \in Nat /\ sent <= Len(stream)
  BY Numbers, StreamChain DEF TypeOK
<1>z. z \in Nat /\ z > sent
  BY <1>1
<1>2. ASSUME NEW kind, Sent(kind), UNCHANGED <<stream, got>> PROVE OpenKept'
  <2>1. CASE kind = "idle"
    <3>1. sent' = sent /\ (sent > 0 => Ends(stream[sent]))
      BY <1>2, <2>1 DEF Sent, CanSend, CanIdle, Ends
    <3> QED
      BY <3>1, <1>2 DEF OpenKept
  <2>2. CASE kind # "idle"
    <3>1. sent' = z /\ z \in 1 .. Len(stream) /\ More
      BY <1>2, <2>2, SentWell, NextField
    <3>2. StartOf(stream, z) \in 1 .. z
      BY <3>1, <1>1, Starting
    <3>3. z \in StartOf(stream, z) .. z /\ z \notin got
      BY <3>1, <3>2, <1>1
    <3> QED
      BY <3>1, <3>3, <1>2 DEF OpenKept, OpenPlaces
  <2> QED
    BY <2>1, <2>2
<1>3. CASE Lose
  <2>1. PICK kind \in Kinds : Sent(kind)
    BY <1>3 DEF Lose
  <2>2. gap' # 0 /\ UNCHANGED <<stream, got>>
    BY <1>1, <1>3 DEF Lose
  <2> QED
    BY <1>2, <2>1, <2>2 DEF PendingOpen
<1>4. CASE RIdle
  BY <1>2, <1>4, Kindly DEF PendingOpen
<1>5. CASE RBeyond
  BY <1>2, <1>5, Kindly DEF PendingOpen
<1>6. CASE RContinue
  <2>1. /\ More /\ sent' = z /\ Starts = {} /\ UNCHANGED <<stream, missed>> /\ gap' = 0 /\ got' = got \cup Places
        /\ pending' = IF Held = <<>> THEN <<>> ELSE Limited(Held \o Field)
    <3>1. Sent("data") /\ "data" # "idle"
      BY <1>6, Kindly
    <3> QED
      BY <3>1, <1>6, SentWell, Kindly DEF RContinue
  <2>2. /\ sent > 0 /\ ~Ends(stream[sent]) /\ s \in 1 .. sent /\ StartOf(stream, z) = s
        /\ Limited(Open \o Field) = SubSeq(stream, s, z) /\ Open # <<>>
    BY <2>1, InOnePacket, ContinueOpen
  <2>3. ASSUME Held = Open PROVE pending' = SubSeq(stream, s, z)
    BY <2>1, <2>2, <2>3
  <2> HIDE DEF s, z
  <2>4. PendingOpen'
    <3>1. ASSUME ~missed', pending' # <<>> PROVE sent' > 0 /\ pending' = SubSeq(stream', StartOf(stream', sent'), sent')
      <4>1. Held # <<>> /\ ~missed
        BY <2>1, <3>1
      <4>2. Held = Open
        BY <4>1, HeldOpen
      <4> QED
        BY <2>1, <2>2, <2>3, <4>2, <1>1, <1>z
    <3> QED
      BY <3>1 DEF PendingOpen, Open
  <2>5. OpenKept'
    <3>1. ASSUME StartOf(stream', sent') .. sent' \subseteq got'
          PROVE  gap' = 0 /\ pending' = SubSeq(stream', StartOf(stream', sent'), sent')
      <4>1. s .. z \subseteq got \cup Places
        BY <2>1, <2>2, <3>1
      <4>2. s .. sent \subseteq got
        BY <4>1, <1>1, <1>z, <2>2 DEF Places
      <4>3. gap = 0 /\ pending = Open
        BY <4>2, <2>2 DEF OpenKept, OpenPlaces, s
      <4>4. Held = Open
        BY <4>3, HeldIs
      <4> QED
        BY <2>1, <2>2, <2>3, <4>4
    <3> QED
      BY <3>1 DEF OpenKept, OpenPlaces, Open
  <2> QED
    BY <2>4, <2>5
<1>7. CASE RHeader
  <2>1. More /\ sent' = z /\ Starts # {} /\ UNCHANGED <<stream, missed>> /\ gap' = 0 /\ pending' = Partial(Rest) /\ z > 0
    <3>1. Sent("data") /\ "data" # "idle"
      BY <1>7, Kindly
    <3> QED
      BY <3>1, <1>1, <1>7, SentWell, Kindly DEF RHeader
  <2>2. pending' # <<>> \/ ~Ends(stream[z]) => pending' = SubSeq(stream, StartOf(stream, z), z)
    BY <2>1, HeaderOpen
  <2> QED
    BY <2>1, <2>2 DEF PendingOpen, OpenKept, Open
<1> QED
  BY <1>3, <1>4, <1>5, <1>6, <1>7 DEF Next

LEMMA Emits ==
  ASSUME TypeOK, FramesKept, More, Starts # {},
         NEW held, held = <<>> \/ (sent > 0 /\ held = Open)
  PROVE  \E a \in 1 .. sent + First :
            /\ Joined(held) \o Complete(Rest) = SubSeq(stream, a, LastCut)
            /\ stream[a].at = 1
            /\ a = sent + First \/ (held # <<>> /\ sent > 0 /\ a = StartOf(stream, sent))
<1> DEFINE w == sent + First  y == sent + First - 1  s == StartOf(stream, sent)  b == LastCut
<1>1. /\ sent \in Nat /\ First \in 1 .. FieldSize /\ w \in 1 .. Len(stream) /\ y = w - 1
      /\ stream[w].at = 1 /\ stream \in Seq(Octets) /\ Len(stream) \in Nat /\ sent + FieldSize <= Len(stream)
  BY FirstStart, NextField, StreamChain, Numbers, SMTT(30) DEF Chain
<1>2. b \in y .. sent + FieldSize /\ Complete(Rest) = SubSeq(stream, w, b)
  BY RestCut
<1>3. b \in y .. Len(stream) /\ Complete(Rest) \in Seq(Octets)
  <2>1. b \in Int /\ y <= b /\ b <= sent + FieldSize
    BY <1>1, <1>2, Numbers
  <2>2. Complete(Rest) \in Seq(Octets)
    BY FieldOctets
  <2> HIDE DEF b, y
  <2> QED
    BY <2>1, <2>2, <1>1, Numbers
<1>4. CASE Joined(held) = <<>>
  <2>1. Joined(held) \o Complete(Rest) = SubSeq(stream, w, b)
    BY <1>2, <1>3, <1>4
  <2>2. w \in 1 .. w
    BY <1>1
  <2> QED
    BY <1>1, <2>1, <2>2
<1>5. CASE Joined(held) # <<>>
  <2>1. held # <<>> /\ Joined(held) = held \o SubSeq(Field, 1, First - 1) /\ sent > 0 /\ held = Open
    BY <1>5 DEF Joined
  <2>2. s \in 1 .. sent /\ stream[s].at = 1 /\ Joined(held) = SubSeq(stream, s, y)
    BY <2>1, OpenJoined
  <2>i. /\ w \in 1 .. Len(stream) /\ y = w - 1 /\ Len(stream) \in Nat /\ sent \in Nat /\ sent < w
        /\ s \in 1 .. sent /\ b \in y .. Len(stream)
    BY <1>1, <1>3, <2>2
  <2> HIDE DEF s, y, w, b
  <2>3. s \in 1 .. Len(stream) + 1 /\ y \in s - 1 .. Len(stream) /\ b \in y .. Len(stream) /\ y + 1 = w
    BY <2>i
  <2>4. SubSeq(stream, s, y) \o SubSeq(stream, y + 1, b) = SubSeq(stream, s, b)
    BY <1>1, <2>3, ConcatAdjacentSubSeq
  <2>5. s \in 1 .. w
    BY <2>2, <1>1 DEF w
  <2> QED
    BY <1>2, <2>1, <2>2, <2>3, <2>4, <2>5 DEF s, b, w
<1> QED
  BY <1>4, <1>5

(* Whole packets, in the order in which they were sent.                     *)
Whole(o) ==
    /\ \A j \in 1 .. Len(o) - 1 :
          \/ Follows(o[j], o[j + 1])
          \/ o[j].at = o[j].len /\ o[j + 1].at = 1 /\ o[j].pkt < o[j + 1].pkt
    /\ o # <<>> => o[1].at = 1 /\ o[Len(o)].at = o[Len(o)].len

LEMMA Appended ==
  ASSUME NEW d, Chain(d), NEW o \in Seq(Octets), Whole(o),
         NEW a \in 1 .. Len(d), NEW b \in a .. Len(d), d[a].at = 1, Ends(d[b]),
         o # <<>> => o[Len(o)].pkt < d[a].pkt
  PROVE  LET r == o \o SubSeq(d, a, b)
         IN  Whole(r) /\ r # <<>> /\ r[Len(r)] = d[b]
<1> DEFINE e == SubSeq(d, a, b)  r == o \o e
<1>1. /\ Chain(e) /\ Len(e) = b - a + 1 /\ Len(d) \in Nat
      /\ \A j \in 1 .. b - a + 1 : e[j] = d[a + j - 1]
  <2>1. a \in 1 .. Len(d) + 1 /\ b \in a - 1 .. Len(d)
    BY DEF Chain
  <2> QED
    BY <2>1, SubChain DEF Chain
<1>2. Len(e) \in Nat \ {0} /\ e \in Seq(Octets) /\ Len(o) \in Nat
  BY <1>1 DEF Chain
<1>3. e[1] = d[a] /\ e[Len(e)] = d[b]
  BY <1>1
<1> HIDE DEF e
<1>4. /\ r \in Seq(Octets) /\ Len(r) = Len(o) + Len(e)
      /\ \A j \in 1 .. Len(o) : r[j] = o[j]
      /\ \A j \in 1 .. Len(e) : r[Len(o) + j] = e[j]
  BY <1>2, ConcatProperties
<1> HIDE DEF r
<1>5. r # <<>> /\ r[Len(r)] = d[b]
  BY <1>2, <1>3, <1>4
<1>6. r[1].at = 1
  <2>1. CASE o = <<>>
    BY <1>2, <1>3, <1>4, <2>1
  <2>2. CASE o # <<>>
    BY <1>2, <1>4, <2>2, SMTT(30) DEF Whole
  <2> QED
    BY <2>1, <2>2
<1>7. ASSUME NEW j \in 1 .. Len(r) - 1
      PROVE  \/ Follows(r[j], r[j + 1])
             \/ r[j].at = r[j].len /\ r[j + 1].at = 1 /\ r[j].pkt < r[j + 1].pkt
  <2>j. j \in Nat /\ j > 0 /\ j < Len(o) + Len(e)
    BY <1>2, <1>4
  <2>1. CASE j < Len(o)
    <3>0. j \in 1 .. Len(o) - 1 /\ j \in 1 .. Len(o) /\ j + 1 \in 1 .. Len(o)
      BY <1>2, <2>1, <2>j
    <3>1. r[j] = o[j] /\ r[j + 1] = o[j + 1]
      BY <1>4, <3>0
    <3> QED
      BY <3>0, <3>1 DEF Whole
  <2>2. CASE j = Len(o)
    <3>1. o # <<>> /\ r[j] = o[Len(o)] /\ r[j + 1] = d[a]
      BY <1>2, <1>3, <1>4, <2>2
    <3> QED
      BY <3>1 DEF Whole
  <2>3. CASE j > Len(o)
    <3> DEFINE i == j - Len(o)
    <3>1. i \in 1 .. Len(e) - 1 /\ i \in 1 .. Len(e) /\ i + 1 \in 1 .. Len(e) /\ Len(o) + i = j /\ Len(o) + (i + 1) = j + 1
      BY <1>2, <2>j, <2>3
    <3> HIDE DEF i
    <3>2. r[Len(o) + i] = e[i] /\ r[Len(o) + (i + 1)] = e[i + 1]
      BY <1>4, <3>1
    <3>3. r[j] = e[i] /\ r[j + 1] = e[i + 1]
      BY <3>1, <3>2
    <3> QED
      BY <1>1, <3>1, <3>3 DEF Chain
  <2> QED
    BY <2>1, <2>2, <2>3, <2>j, <1>2
<1>8. Whole(r)
  BY <1>5, <1>6, <1>7 DEF Whole, Ends
<1> QED
  BY <1>5, <1>8 DEF r, e

LEMMA OutStep ==
  ASSUME TypeOK, FramesKept, PendingOpen, OutBefore, OnlyWhole, Next
  PROVE  OutBefore' /\ OnlyWhole'
<1> DEFINE z == sent + FieldSize
<1>1. /\ sent \in Nat /\ FieldSize \in Nat \ {0} /\ gap \in Nat /\ out \in Seq(Octets)
      /\ Chain(stream) /\ (Len(stream) > 0 => stream[1].at = 1) /\ Len(stream) \in Nat /\ sent <= Len(stream)
  BY Numbers, StreamChain DEF TypeOK
<1>2. \A j \in 1 .. Len(stream) : stream[j].pkt \in Nat
  <2>1. \A j \in 1 .. Len(stream) : stream[j] \in Octets
    BY <1>1 DEF Chain
  <2> QED
    BY <2>1 DEF Octets
<1>o. out # <<>> => out[Len(out)].pkt \in Nat
  <2>1. out # <<>> => out[Len(out)] \in Octets
    BY <1>1
  <2> QED
    BY <2>1 DEF Octets
<1>w. (OnlyWhole <=> (~missed => Whole(out))) /\ (OnlyWhole' <=> (~missed' => Whole(out')))
  BY DEF OnlyWhole, Whole
(* Without output, what was sent can only be later.                         *)
<1>3. ASSUME NEW kind, Sent(kind), UNCHANGED <<stream, out>>, ~missed' => ~missed,
             ~missed /\ out # <<>> /\ gap' = 0 /\ pending' # <<>> => out[Len(out)].pkt < stream[sent'].pkt
      PROVE  OutBefore'
  <2>1. sent' \in sent .. Len(stream)
    BY <1>3, SentWell
  <2>2. ASSUME ~missed', out # <<>> PROVE ~missed /\ sent' > 0 /\ out[Len(out)].pkt <= stream[sent'].pkt
    <3>1. ~missed /\ sent > 0 /\ out[Len(out)].pkt <= stream[sent].pkt
      BY <1>3, <2>2 DEF OutBefore, TypeOK
    <3>2. sent \in 1 .. Len(stream) /\ sent' \in sent .. Len(stream) /\ sent' \in 1 .. Len(stream)
      BY <1>1, <2>1, <3>1
    <3>3. stream[sent].pkt <= stream[sent'].pkt
      BY <1>1, <3>2, Rising
    <3> QED
      BY <1>2, <1>o, <2>2, <3>1, <3>2, <3>3
  <2> QED
    BY <1>3, <2>2 DEF OutBefore
<1>4. CASE Lose
  <2>1. PICK kind \in Kinds : Sent(kind)
    BY <1>4 DEF Lose
  <2>2. gap' # 0 /\ UNCHANGED <<stream, out>>
    BY <1>1, <1>4 DEF Lose
  <2>3. ~missed' => ~missed
    BY <1>4, Zenon DEF Lose
  <2>4. OutBefore'
    BY <1>3, <2>1, <2>2, <2>3
  <2> QED
    BY <1>w, <2>2, <2>3, <2>4
<1>5. CASE RIdle
  <2>1. Sent("idle") /\ UNCHANGED <<stream, out, missed>> /\ pending' = <<>>
    BY <1>5, Kindly
  <2>2. OutBefore'
    BY <1>3, <2>1
  <2> QED
    BY <1>w, <2>1, <2>2
<1>6. CASE RBeyond
  <2>1. Sent("bad") /\ UNCHANGED <<stream, out, missed>> /\ pending' = <<>>
    BY <1>6, Kindly
  <2>2. OutBefore'
    BY <1>3, <2>1
  <2> QED
    BY <1>w, <2>1, <2>2
<1>7. CASE RContinue
  <2>1. /\ Sent("data") /\ UNCHANGED <<stream, out, missed>> /\ Starts = {}
        /\ Held = <<>> => pending' = <<>>
    BY <1>7, Kindly DEF RContinue
  <2>2. More /\ sent' = z
    BY <2>1, SentWell
  <2>3. ASSUME ~missed, out # <<>>, pending' # <<>> PROVE out[Len(out)].pkt < stream[sent'].pkt
    <3>1. gap = 0 /\ pending # <<>>
      BY <2>1, <2>3, HeldOpen
    <3>2. out[Len(out)].pkt < stream[sent].pkt
      BY <2>3, <3>1 DEF OutBefore
    <3> QED
      BY <2>1, <2>2, <3>2, InOnePacket
  <2>4. OutBefore'
    BY <1>3, <2>1, <2>3
  <2> QED
    BY <1>w, <2>1, <2>4
<1>8. CASE RHeader
  <2> DEFINE b == LastCut
  <2>1. /\ Sent("data") /\ UNCHANGED <<stream, missed>> /\ Starts # {} /\ pending' = Partial(Rest)
        /\ out' = out \o Joined(Held) \o Complete(Rest)
    BY <1>8, Kindly DEF RHeader
  <2>2. More /\ sent' = z
    BY <2>1, SentWell
  <2> SUFFICES ASSUME ~missed PROVE OutBefore' /\ OnlyWhole'
    BY <2>1 DEF OutBefore, OnlyWhole
  <2>3. Held = <<>> \/ (sent > 0 /\ Held = Open)
    BY HeldOpen
  <2>4. PICK a \in 1 .. sent + First :
            /\ Joined(Held) \o Complete(Rest) = SubSeq(stream, a, b)
            /\ stream[a].at = 1
            /\ a = sent + First \/ (Held # <<>> /\ sent > 0 /\ a = StartOf(stream, sent))
    BY <2>1, <2>2, <2>3, Emits
  <2>5. /\ First \in 1 .. FieldSize /\ z \in 1 .. Len(stream) /\ sent + First \in 1 .. Len(stream)
        /\ stream[sent + First].at = 1
    BY <1>1, <2>1, <2>2, FirstStart, NextField
  <2>6. b \in Int /\ (sent + First) - 1 <= b /\ b <= z
    <3>1. LastCut \in sent + First - 1 .. sent + FieldSize /\ sent + First - 1 = (sent + First) - 1
      BY <1>1, <2>1, <2>2, <2>5, RestCut
    <3> QED
      BY <3>1, <1>1, <2>5
  <2>7. /\ b >= sent + First => Ends(stream[b])
        /\ b < z => stream[b + 1].at = 1
        /\ pending' # <<>> => b < z
    BY <2>1, <2>2, RestCut, HeaderOpen
  <2>8. out' = out \o SubSeq(stream, a, b)
    <3>1. Joined(Held) \in Seq(Octets) /\ Complete(Rest) \in Seq(Octets)
      <4>1. /\ SubSeq(Field, 1, First - 1) \in Seq(Octets) /\ Complete(Rest) \in Seq(Octets)
        BY <2>1, <2>2, FieldOctets
      <4>2. Held \in Seq(Octets)
        <5>1. <<>> \in Seq(Octets) /\ pending \in Seq(Octets)
          BY DEF TypeOK
        <5> QED
          BY <5>1, HeldIs
      <4> QED
        BY <4>1, <4>2 DEF Joined
    <3>2. ASSUME NEW t \in Seq(Octets), NEW u \in Seq(Octets) PROVE (out \o t) \o u = out \o (t \o u)
      <4>1. out \in Seq(Octets)
        BY <1>1
      <4> QED
        BY <4>1, ConcatAssociative, SMTT(30)
    <3>3. (out \o Joined(Held)) \o Complete(Rest) = out \o (Joined(Held) \o Complete(Rest))
      BY <3>1, <3>2, Zenon
    <3> QED
      BY <2>1, <2>4, <3>3
  <2> HIDE DEF b, z
  <2>p. ASSUME out' # <<>> => b >= 1 /\ out'[Len(out')].pkt \in Nat /\ out'[Len(out')].pkt <= stream[b].pkt
        PROVE  OutBefore'
    <3> SUFFICES ASSUME out' # <<>>
                 PROVE  /\ z > 0 /\ out'[Len(out')].pkt <= stream[z].pkt
                        /\ pending' # <<>> => out'[Len(out')].pkt < stream[z].pkt
      BY <2>1, <2>2 DEF OutBefore
    <3>1. b \in 1 .. Len(stream) /\ z \in b .. Len(stream) /\ z \in 1 .. Len(stream)
      BY <2>5, <2>6, <2>p
    <3>2. stream[b].pkt <= stream[z].pkt
      BY <1>1, <3>1, Rising
    <3>3. ASSUME b < z PROVE stream[b].pkt < stream[z].pkt
      <4>1. b + 1 \in 1 .. Len(stream) /\ b + 1 \in b .. Len(stream) /\ z \in b + 1 .. Len(stream) /\ b < b + 1
        BY <3>1, <3>3, <1>1
      <4>2. stream[b].pkt < stream[b + 1].pkt
        BY <1>1, <2>7, <3>1, <3>3, <4>1, Rising
      <4>3. stream[b + 1].pkt <= stream[z].pkt
        BY <1>1, <4>1, Rising
      <4> QED
        BY <1>2, <3>1, <4>1, <4>2, <4>3
    <3> QED
      BY <1>2, <2>7, <2>p, <3>1, <3>2, <3>3
  <2>9. CASE b < a
    <3>1. SubSeq(stream, a, b) = <<>>
      BY <2>4, <2>6, <2>9, SubSeqEmpty
    <3>2. out' = out
      BY <1>1, <2>8, <3>1
    <3>3. Whole(out')
      BY <1>w, <3>2
    <3>4. out # <<>> => out[Len(out)].pkt <= stream[sent].pkt /\ sent > 0
      BY DEF OutBefore
    <3>5. out # <<>> => b >= 1 /\ out[Len(out)].pkt <= stream[b].pkt
      <4> SUFFICES ASSUME out # <<>> PROVE b >= 1 /\ out[Len(out)].pkt <= stream[b].pkt
        OBVIOUS
      <4>1. sent \in 1 .. Len(stream) /\ b \in sent .. Len(stream) /\ b \in 1 .. Len(stream)
        BY <1>1, <2>5, <2>6, <3>4, SMTT(30)
      <4>2. stream[sent].pkt <= stream[b].pkt
        BY <1>1, <4>1, Rising
      <4> QED
        BY <1>2, <1>o, <3>4, <4>1, <4>2
    <3>6. OutBefore'
      BY <2>p, <3>2, <3>5, <1>o
    <3> QED
      BY <3>3, <3>6, <1>w
  <2>10. CASE ~(b < a)
    <3>1. a \in 1 .. Len(stream) /\ b \in a .. Len(stream) /\ b \in 1 .. Len(stream)
      BY <1>1, <2>4, <2>5, <2>6, <2>10
    <3>2. Ends(stream[b])
      <4>1. CASE b >= sent + First
        BY <4>1, <2>7
      <4>2. CASE ~(b >= sent + First)
        <5>1. b + 1 = sent + First /\ b \in 1 .. Len(stream) - 1
          BY <4>2, <1>1, <2>5, <2>6, <3>1
        <5> QED
          BY <5>1, <1>1, <2>5, AfterEnd
      <4> QED
        BY <4>1, <4>2
    <3>3. ASSUME out # <<>> PROVE out[Len(out)].pkt < stream[a].pkt
      <4>1. out[Len(out)].pkt <= stream[sent].pkt /\ sent > 0 /\ sent \in 1 .. Len(stream)
        BY <1>1, <3>3 DEF OutBefore
      <4>2. CASE a = sent + First
        <5>1. a \in sent .. Len(stream) /\ sent < a
          BY <1>1, <2>5, <3>1, <4>2
        <5>2. stream[sent].pkt < stream[a].pkt
          BY <1>1, <2>4, <4>1, <5>1, Rising
        <5> QED
          BY <1>2, <1>o, <3>1, <3>3, <4>1, <5>2
      <4>3. CASE Held # <<>> /\ sent > 0 /\ a = StartOf(stream, sent)
        <5>1. out[Len(out)].pkt < stream[sent].pkt
          BY <3>3, <4>3, HeldOpen DEF OutBefore
        <5>2. sent \in a .. sent /\ SamePacket(stream[a], stream[sent], sent - a)
          <6>1. Len(stream) > 0
            BY <1>1, <4>1
          <6> QED
            BY <1>1, <4>1, <4>3, <6>1, Starting
        <5> QED
          BY <5>1, <5>2 DEF SamePacket
      <4> QED
        BY <2>4, <4>2, <4>3
    <3>4. Whole(out') /\ out' # <<>> /\ out'[Len(out')] = stream[b]
      BY <1>1, <1>w, <2>4, <2>8, <3>1, <3>2, <3>3, Appended
    <3>5. OutBefore'
      BY <1>2, <2>p, <3>1, <3>4
    <3> QED
      BY <1>w, <3>4, <3>5
  <2> QED
    BY <2>9, <2>10
<1> QED
  BY <1>4, <1>5, <1>6, <1>7, <1>8 DEF Next

LEMMA WholeJoined ==
  ASSUME TypeOK, FramesKept, More, Starts # {}, sent > 0
  PROVE  /\ Joined(Open) = SubSeq(stream, StartOf(stream, sent), (sent + First) - 1)
         /\ StartOf(stream, sent) \in 1 .. sent
<1> DEFINE s == StartOf(stream, sent)  w == sent + First  y == w - 1  e == SubSeq(stream, s, y)
<1>1. /\ sent \in Nat /\ First \in 1 .. FieldSize /\ w \in sent + 1 .. Len(stream) /\ stream[w].at = 1
      /\ Chain(stream) /\ Len(stream) \in Nat /\ Len(stream) > 0 /\ stream[1].at = 1 /\ sent \in 1 .. Len(stream)
      /\ y = sent + First - 1
  BY FirstStart, NextField, StreamChain, Numbers
<1>2. /\ s \in 1 .. sent /\ stream[s].at = 1
      /\ \A q \in s .. sent : SamePacket(stream[s], stream[q], q - s)
  BY <1>1, Starting
<1>3. Open \o SubSeq(Field, 1, First - 1) = e
  BY <1>1, OpenJoined
<1>4. s \in 1 .. Len(stream) + 1 /\ y \in s - 1 .. Len(stream) /\ y \in s .. Len(stream) /\ y \in 1 .. Len(stream) - 1 /\ y + 1 = w
  BY <1>1, <1>2
<1>y. \A q \in sent + 1 .. y : stream[q].at # 1
  <2> SUFFICES ASSUME NEW q \in sent + 1 .. y PROVE stream[q].at # 1
    OBVIOUS
  <2> DEFINE j == q - sent
  <2>1. j \in 1 .. First - 1 /\ sent + j = q
    BY <1>1
  <2> HIDE DEF j
  <2>2. stream[sent + j].at # 1
    BY <2>1, FirstStart
  <2> QED
    BY <2>1, <2>2
<1> HIDE DEF s, w, y, e
<1>5. Chain(e) /\ Len(e) = y - s + 1 /\ (\A j \in 1 .. y - s + 1 : e[j] = stream[s + j - 1]) /\ Len(e) \in Nat \ {0}
  BY <1>1, <1>4, SubChain DEF e
<1>6. e[1] = stream[s]
  BY <1>4, <1>5
<1> DEFINE c == Cut(e)
<1>7. CutAt(e, 0, c)
  BY <1>2, <1>5, <1>6, CutWell
<1>8. c = Len(e)
  <2> SUFFICES ASSUME c # Len(e) PROVE FALSE
    OBVIOUS
  <2>1. c \in 0 .. Len(e) - 1 /\ e[c + 1].at = 1 /\ Len(e) - c < e[c + 1].len
    BY <1>5, <1>7 DEF CutAt
  <2> HIDE DEF c
  <2>2. e[c + 1] = stream[s + c] /\ s + c \in s .. y
    BY <1>4, <1>5, <2>1
  <2>3. c = 0
    <3> SUFFICES ASSUME c # 0 PROVE FALSE
      OBVIOUS
    <3>1. CASE s + c <= sent
      <4>1. s + c \in s .. sent
        BY <1>2, <2>1, <3>1
      <4>2. stream[s + c].at = 1 + ((s + c) - s)
        BY <1>2, <4>1 DEF SamePacket
      <4>3. (s + c) - s = c /\ c \in Nat
        BY <1>2, <2>1
      <4> QED
        BY <2>1, <2>2, <4>2, <4>3
    <3>2. CASE ~(s + c <= sent)
      <4>1. s + c \in sent + 1 .. y
        BY <1>1, <1>2, <1>4, <2>1, <2>2, <3>2
      <4> QED
        BY <1>y, <2>1, <2>2, <4>1
    <3> QED
      BY <3>1, <3>2
  <2>4. y - s + 1 < stream[s].len
    <3>1. e[0 + 1] = stream[s] /\ Len(e) - 0 < e[0 + 1].len
      BY <1>6, <2>1, <2>3
    <3>2. Len(e) < stream[s].len
      BY <1>5, <3>1
    <3> QED
      BY <1>5, <3>2
  <2>5. stream[s] \in Octets
    BY <1>1, <1>2 DEF Chain
  <2>6. stream[s].len \in Nat
    BY <2>5 DEF Octets
  <2>7. s \in 1 .. Len(stream) /\ y - s <= stream[s].len - stream[s].at
    <3>1. s \in Nat /\ s > 0 /\ s <= Len(stream) /\ y \in Nat /\ stream[s].at = 1
      BY <1>1, <1>2, <1>4
    <3> QED
      BY <3>1, <1>1, <2>4, <2>6
  <2>8. SamePacket(stream[s], stream[y], y - s)
    BY <1>1, <1>4, <2>7, WithinPacket
  <2>9. Ends(stream[y])
    BY <1>1, <1>4, AfterEnd
  <2> QED
    BY <1>2, <1>4, <2>4, <2>6, <2>8, <2>9 DEF SamePacket, Ends
<1>9. Partial(e) = <<>>
  <2>1. SubSeq(e, Len(e) + 1, Len(e)) = <<>>
    BY <1>5, SubSeqEmpty
  <2> QED
    BY <1>8, <2>1 DEF Partial
<1>10. Open # <<>>
  <2>1. Len(Open) = sent - s + 1 /\ s \in 1 .. Len(stream) + 1 /\ sent \in s - 1 .. Len(stream)
    BY <1>1, <1>2, <1>4, SubChain DEF Open, s
  <2>2. Len(Open) # 0
    BY <2>1, <1>1, <1>2
  <2> QED
    BY <2>2
<1>11. Joined(Open) = e
  BY <1>3, <1>9, <1>10 DEF Joined
<1> QED
  BY <1>2, <1>11 DEF e, s, y, w

(* Octets put out stay out, and those of a stretch appended come out.       *)
LEMMA Adding ==
  ASSUME NEW o \in Seq(Octets), NEW r \in Seq(Octets)
  PROVE  /\ \A i \in 1 .. Len(o) : i \in 1 .. Len(o \o r) /\ (o \o r)[i] = o[i]
         /\ \A i \in 1 .. Len(r) : Len(o) + i \in 1 .. Len(o \o r) /\ (o \o r)[Len(o) + i] = r[i]
BY ConcatProperties

LEMMA Stretch ==
  ASSUME NEW d, Chain(d), NEW a \in 1 .. Len(d) + 1, NEW b \in a - 1 .. Len(d), NEW p \in a .. b
  PROVE  p - a + 1 \in 1 .. Len(SubSeq(d, a, b)) /\ SubSeq(d, a, b)[p - a + 1] = d[p]
<1>1. Len(SubSeq(d, a, b)) = b - a + 1 /\ SubSeq(d, a, b)[p - a + 1] = d[p]
  BY SubChain
<1> QED
  BY <1>1 DEF Chain

(* The octets of a packet lie between where it begins and where it ends.    *)
LEMMA InPacket ==
  ASSUME NEW d, Chain(d), Len(d) > 0, d[1].at = 1, NEW j \in 1 .. Len(d), Ends(d[j]),
         NEW p \in 1 .. Len(d), d[p].pkt = d[j].pkt
  PROVE  p \in StartOf(d, j) .. j
<1> DEFINE s == StartOf(d, j)
<1>1. Len(d) \in Nat /\ \A q \in 1 .. Len(d) : d[q] \in Octets /\ d[q].at <= d[q].len
  BY DEF Chain
<1>2. \A q \in 1 .. Len(d) : d[q].at \in Nat /\ d[q].at > 0 /\ d[q].len \in Nat /\ d[q].pkt \in Nat
  BY <1>1 DEF Octets
<1>3. s \in 1 .. j /\ d[s].at = 1 /\ SamePacket(d[s], d[j], j - s)
  <2>1. s \in 1 .. j /\ d[s].at = 1 /\ \A q \in s .. j : SamePacket(d[s], d[q], q - s)
    BY Starting
  <2> HIDE DEF s
  <2> QED
    BY <2>1
<1> HIDE DEF s
<1>4. s <= p
  <2> SUFFICES ASSUME p < s PROVE FALSE
    BY <1>1, <1>3
  <2>1. s \in p .. Len(d)
    BY <1>1, <1>3
  <2>2. d[p].pkt < d[s].pkt
    BY <1>3, <2>1, Rising
  <2> QED
    BY <1>1, <1>2, <1>3, <2>1, <2>2 DEF SamePacket
<1>5. p <= j
  <2> SUFFICES ASSUME j < p PROVE FALSE
    BY <1>1
  <2>1. p \in j .. Len(d)
    BY <1>1
  <2>2. SamePacket(d[j], d[p], p - j) \/ LaterPacket(d[j], d[p], p - j)
    BY <2>1, Between
  <2>3. SamePacket(d[j], d[p], p - j)
    BY <1>2, <2>2 DEF LaterPacket
  <2>4. d[p].at = d[p].len + (p - j) /\ d[p].at <= d[p].len
    BY <1>1, <2>3 DEF SamePacket, Ends
  <2> QED
    BY <1>2, <2>1, <2>4
<1> QED
  BY <1>1, <1>3, <1>4, <1>5 DEF s

(* Recovered, when the stream is what it was.                               *)
LEMMA Unmoved ==
  ASSUME UNCHANGED stream
  PROVE  /\ Packets' = Packets
         /\ \A k : Of(k)' = Of(k) 
         /\ \A k : EndFrameHasHeader(k)' <=> EndFrameHasHeader(k)
<1>1. Packets' = Packets
  BY DEF Packets
<1>2. ASSUME NEW k PROVE Of(k)' = Of(k)
  BY DEF Of
<1>3. ASSUME NEW k PROVE EndFrameHasHeader(k)' <=> EndFrameHasHeader(k)
  BY DEF EndFrameHasHeader
<1> QED
  BY <1>1, <1>2, <1>3

LEMMA ComesOut ==
  ASSUME UNCHANGED stream,
      \A k \in Packets : Of(k) # {} /\ Of(k) \subseteq got' /\ EndFrameHasHeader(k)
         => \A p \in Of(k) : \E i \in 1 .. Len(out') : out'[i] = stream[p]
  PROVE Recovered'
<1> SUFFICES ASSUME NEW k \in Packets', Received(k)', EndFrameHasHeader(k)' PROVE Emitted(k)'
  BY DEF Recovered
<1>1. Packets' = Packets /\ Of(k)' = Of(k) /\ (EndFrameHasHeader(k)' <=> EndFrameHasHeader(k))
  BY Unmoved
<1>2. Of(k)' # {} /\ Of(k)' \subseteq got'
  BY DEF Received
<1>3. \A p \in Of(k)' : \E i \in 1 .. Len(out') : out'[i] = stream'[p]
  BY <1>1, <1>2
<1> QED
  BY <1>3 DEF Emitted

LEMMA RecoveredStep ==
  ASSUME TypeOK, FramesKept, OpenKept, Recovered, Next
  PROVE  Recovered'
<1> DEFINE z == sent + FieldSize
<1>1. /\ sent \in Nat /\ FieldSize \in Nat \ {0} /\ got \subseteq 1 .. sent /\ out \in Seq(Octets)
      /\ Chain(stream) /\ (Len(stream) > 0 => stream[1].at = 1) /\ Len(stream) \in Nat /\ sent <= Len(stream)
  BY Numbers, StreamChain DEF TypeOK
<1>2. CASE Lose \/ RIdle \/ RBeyond
  <2>1. UNCHANGED <<stream, out, got>>
    BY <1>2, Kindly DEF Lose
  <2> QED
    BY <2>1, ComesOut DEF Recovered, Received, Emitted
<1>4. CASE RContinue \/ RHeader
  <2>1. /\ More /\ sent' = z /\ UNCHANGED stream /\ got' = got \cup Places /\ z \in 1 .. Len(stream)
    <3>1. Sent("data") /\ "data" # "idle"
      BY <1>4, Kindly
    <3> QED
      BY <3>1, <1>4, SentWell, NextField, Kindly
  <2> SUFFICES ASSUME NEW k \in Packets, Of(k) # {}, Of(k) \subseteq got', EndFrameHasHeader(k)
               PROVE  \A p \in Of(k) : \E i \in 1 .. Len(out') : out'[i] = stream[p]
    BY <2>1, ComesOut
  <2>h. Held \in Seq(Octets)
    <3>1. <<>> \in Seq(Octets) /\ pending \in Seq(Octets)
      BY DEF TypeOK
    <3> QED
      BY <3>1, HeldIs
  <2>e. ASSUME RHeader
        PROVE  /\ Starts # {} /\ Joined(Held) \in Seq(Octets) /\ Complete(Rest) \in Seq(Octets)
               /\ out' = out \o Joined(Held) \o Complete(Rest)
    <3>1. Starts # {} /\ out' = out \o Joined(Held) \o Complete(Rest)
      BY <2>e, Kindly DEF RHeader
    <3>2. <<>> \in Seq(Octets) /\ SubSeq(Field, 1, First - 1) \in Seq(Octets) /\ Complete(Rest) \in Seq(Octets)
      BY <2>1, <3>1, FieldOctets
    <3>3. Joined(Held) \in Seq(Octets)
      BY <2>h, <3>2 DEF Joined
    <3> QED
      BY <3>1, <3>2, <3>3
  <2>a. \A i \in 1 .. Len(out) : i \in 1 .. Len(out') /\ out'[i] = out[i]
    <3>1. CASE RContinue
      BY <3>1, Kindly
    <3>2. CASE RHeader
      <4> DEFINE m == out \o Joined(Held)
      <4>1. m \in Seq(Octets) /\ out' = m \o Complete(Rest) /\ Complete(Rest) \in Seq(Octets)
        BY <1>1, <2>e, <3>2
      <4>2. \A i \in 1 .. Len(out) : i \in 1 .. Len(m) /\ m[i] = out[i]
        BY <1>1, <2>e, <3>2, Adding
      <4> HIDE DEF m
      <4>3. \A i \in 1 .. Len(m) : i \in 1 .. Len(out') /\ out'[i] = m[i]
        BY <4>1, Adding
      <4> QED
        BY <4>2, <4>3
    <3> QED
      BY <1>4, <3>1, <3>2
  <2>2. CASE Of(k) \subseteq got
    <3>1. \A p \in Of(k) : \E i \in 1 .. Len(out) : out[i] = stream[p]
      BY <2>2 DEF Recovered, Received, Emitted
    <3> QED
      BY <2>a, <3>1
  <2>3. CASE ~(Of(k) \subseteq got)
    <3>1. PICK q \in Of(k) : q \in Places
      BY <2>1, <2>3
    <3>2. PICK i \in 1 .. Len(stream), j \in 1 .. Len(stream) :
             /\ stream[j].pkt = k /\ Ends(stream[j])
             /\ stream[i].at = 1 /\ FrameOf(i) = FrameOf(j)
      BY DEF EndFrameHasHeader, Ends
    <3> DEFINE s == StartOf(stream, j)
    <3>3. Of(k) \subseteq s .. j /\ j \in Of(k) /\ q \in 1 .. Len(stream)
      <4>1. ASSUME NEW p \in Of(k) PROVE p \in s .. j
        BY <1>1, <3>2, InPacket DEF Of
      <4> QED
        BY <3>1, <3>2, <4>1 DEF Of
    <3>4. s \in 1 .. j /\ stream[s].at = 1 /\ \A p \in s .. j : SamePacket(stream[s], stream[p], p - s)
      BY <1>1, <3>2, Starting
    <3> HIDE DEF s, z
    <3>5. sent < j /\ j <= z /\ j \in 1 .. Len(stream)
      <4>1. j \in 1 .. sent \cup Places /\ q <= j
        BY <1>1, <2>1, <3>1, <3>2, <3>3
      <4> QED
        BY <1>1, <3>1, <4>1, <3>2 DEF Places, z
    <3>6. i \in sent + 1 .. sent + FieldSize
      <4> DEFINE u == i - 1  v == j - 1
      <4>1. u \in Nat /\ v \in Nat /\ v \in sent .. sent + FieldSize - 1 /\ sent % FieldSize = 0 /\ i = u + 1
        BY <1>1, <3>2, <3>5 DEF z, FramesKept
      <4>2. u \div FieldSize = v \div FieldSize
        BY <3>2 DEF FrameOf
      <4> HIDE DEF u, v
      <4>3. v \div FieldSize = sent \div FieldSize
        BY <1>1, <4>1, SameFrame
      <4>4. u \in sent .. sent + FieldSize - 1
        BY <1>1, <4>1, <4>2, <4>3, SameFrame
      <4> QED
        BY <1>1, <4>1, <4>4
    <3>7. i - sent \in Starts
      <4>1. i - sent \in 1 .. FieldSize /\ sent + (i - sent) = i
        BY <1>1, <3>6
      <4>2. Field[i - sent] = stream[i]
        BY <2>1, <4>1, NextField
      <4> QED
        BY <3>2, <4>1, <4>2 DEF Starts
    <3>8. RHeader /\ Starts # {}
      BY <1>4, <3>7 DEF RContinue
    <3> DEFINE w == sent + First  b == LastCut  m == out \o Joined(Held)
    <3>9. /\ First \in 1 .. FieldSize /\ stream[w].at = 1 /\ w \in Nat /\ w > sent /\ w <= z
          /\ \A x \in 1 .. First - 1 : stream[sent + x].at # 1
      BY <1>1, <2>1, <3>8, FirstStart DEF z
    <3>10. /\ b \in Int /\ w - 1 <= b /\ b <= z
           /\ Complete(Rest) = SubSeq(stream, w, b)
           /\ b < z => stream[b + 1].at = 1 /\ z - b < stream[b + 1].len
      <4>1. LastCut \in sent + First - 1 .. sent + FieldSize /\ sent + First - 1 = (sent + First) - 1
        BY <1>1, <2>1, <3>8, <3>9, RestCut
      <4>2. b \in Int /\ w - 1 <= b /\ b <= z
        BY <4>1, <1>1, <3>9 DEF z
      <4>3. /\ Complete(Rest) = SubSeq(stream, w, b)
            /\ b < z => stream[b + 1].at = 1 /\ z - b < stream[b + 1].len
        BY <2>1, <3>8, RestCut DEF z
      <4> QED
        BY <4>2, <4>3
    <3> HIDE DEF b, w
    <3>o. \A x \in 1 .. Len(stream) : stream[x].at \in Nat /\ stream[x].len \in Nat
      <4>1. \A x \in 1 .. Len(stream) : stream[x] \in Octets
        BY <1>1 DEF Chain
      <4> QED
        BY <4>1 DEF Octets
    <3>z. z \in Nat /\ z <= Len(stream)
      BY <2>1
    <3>11. j <= b
      <4> SUFFICES ASSUME b < j PROVE FALSE
        BY <3>5, <3>10
      <4>1. b + 1 \in 1 .. Len(stream) /\ j \in b + 1 .. Len(stream) /\ b < z /\ j - (b + 1) < z - b
        <5>1. b \in Nat /\ j \in Nat /\ b < j /\ j <= z /\ b <= z /\ j <= Len(stream)
          BY <3>5, <3>9, <3>10, <1>1
        <5> QED
          BY <5>1, <3>z, <1>1
      <4>2. stream[b + 1].at = 1 /\ z - b < stream[b + 1].len /\ stream[b + 1].len \in Nat
        BY <3>10, <3>o, <4>1
      <4>3. SamePacket(stream[b + 1], stream[j], j - (b + 1))
        <5>1. j - (b + 1) <= stream[b + 1].len - stream[b + 1].at
          BY <4>1, <4>2, <3>5, <3>10, <3>z
        <5> QED
          BY <5>1, <4>1, <1>1, WithinPacket
      <4>4. stream[b + 1].len = 1 + (j - (b + 1))
        BY <4>2, <4>3, <3>2 DEF SamePacket, Ends
      <4> QED
        BY <4>1, <4>2, <4>4, <3>5, <3>10, <3>z
    <3>m. /\ m \in Seq(Octets) /\ out' = m \o Complete(Rest) /\ Complete(Rest) \in Seq(Octets)
          /\ Joined(Held) \in Seq(Octets)
      BY <1>1, <2>e, <3>8
    <3>12. CASE sent < s
      <4>1. w <= s
        <5> SUFFICES ASSUME s < w PROVE FALSE
          BY <3>4, <3>5, <3>9
        <5> DEFINE x == s - sent
        <5>1. x \in 1 .. First - 1 /\ sent + x = s
          BY <1>1, <3>4, <3>5, <3>9, <3>12 DEF w
        <5> HIDE DEF x
        <5>2. stream[sent + x].at # 1
          BY <3>9, <5>1
        <5> QED
          BY <3>4, <5>1, <5>2
      <4>2. ASSUME NEW p \in s .. j PROVE \E x \in 1 .. Len(out') : out'[x] = stream[p]
        <5>1. w \in 1 .. Len(stream) + 1 /\ b \in w - 1 .. Len(stream) /\ p \in w .. b
          BY <3>4, <3>5, <3>9, <3>10, <3>11, <3>z, <4>1, <1>1
        <5> DEFINE x == p - w + 1
        <5>2. x \in 1 .. Len(Complete(Rest)) /\ Complete(Rest)[x] = stream[p]
          BY <5>1, <3>10, <1>1, Stretch
        <5> HIDE DEF m, x
        <5>3. Len(m) + x \in 1 .. Len(out') /\ out'[Len(m) + x] = Complete(Rest)[x]
          BY <5>2, <3>m, Adding
        <5> QED
          BY <5>2, <5>3
      <4> QED
        BY <4>2, <3>3
    <3>13. CASE s <= sent
      <4>1. sent \in s .. j /\ sent > 0 /\ sent \in 1 .. Len(stream) /\ j \in s .. j
        BY <1>1, <3>4, <3>5, <3>13
      <4>2. SamePacket(stream[s], stream[sent], sent - s) /\ SamePacket(stream[s], stream[j], j - s)
        BY <3>4, <4>1
      <4>3. StartOf(stream, sent) = s /\ ~Ends(stream[sent])
        <5>1. /\ stream[sent].at = 1 + (sent - s) /\ stream[j].at = 1 + (j - s)
              /\ stream[sent].len = stream[j].len
          BY <3>4, <4>2 DEF SamePacket
        <5>2. s \in Int /\ j \in Int /\ sent < j
          BY <3>4, <3>5
        <5> QED
          BY <5>1, <5>2, <1>1, <3>2 DEF StartOf, Ends
      <4>4. s .. sent \subseteq got
        <5> SUFFICES ASSUME NEW p \in s .. sent PROVE p \in got
          OBVIOUS
        <5>1. p \in s .. j /\ p \in 1 .. Len(stream) /\ p \notin Places
          BY <1>1, <3>4, <3>5, <4>1 DEF Places
        <5>2. stream[p].pkt = k
          BY <3>2, <3>4, <4>2, <5>1 DEF SamePacket
        <5> QED
          BY <2>1, <5>1, <5>2 DEF Of
      <4>5. gap = 0 /\ pending = Open
        BY <4>1, <4>3, <4>4 DEF OpenKept, OpenPlaces
      <4>6. Held = Open
        BY <4>5, HeldIs
      <4>7. Joined(Held) = SubSeq(stream, s, w - 1)
        BY <2>1, <3>8, <4>1, <4>3, <4>6, WholeJoined DEF w
      <4>8. j <= w - 1
        <5> SUFFICES ASSUME w <= j PROVE FALSE
          BY <3>5, <3>9
        <5>1. w \in s .. j
          BY <3>4, <3>9, <4>1, <1>1
        <5>2. stream[w].at = 1 + (w - s)
          BY <3>4, <5>1 DEF SamePacket
        <5> QED
          BY <5>1, <5>2, <3>4, <3>9, <4>1, <1>1, SMTT(30)
      <4>9. ASSUME NEW p \in s .. j PROVE \E x \in 1 .. Len(out') : out'[x] = stream[p]
        <5> DEFINE y == w - 1  x == p - s + 1
        <5>1. s \in 1 .. Len(stream) + 1 /\ y \in s - 1 .. Len(stream) /\ p \in s .. y
          <6>1. s \in Nat /\ s > 0 /\ s <= sent /\ y \in Nat /\ j \in Nat /\ j <= y /\ s <= j /\ sent < j /\ y <= Len(stream)
            BY <3>4, <3>5, <3>9, <3>z, <4>1, <4>8, <1>1
          <6> HIDE DEF y
          <6> QED
            BY <6>1, <1>1
        <5>2. x \in 1 .. Len(Joined(Held)) /\ Joined(Held)[x] = stream[p]
          BY <5>1, <4>7, <1>1, Stretch
        <5> HIDE DEF x
        <5>3. Len(out) + x \in 1 .. Len(m) /\ m[Len(out) + x] = Joined(Held)[x]
          BY <5>2, <3>m, <1>1, Adding
        <5> HIDE DEF m
        <5>4. Len(out) + x \in 1 .. Len(out') /\ out'[Len(out) + x] = m[Len(out) + x]
          BY <5>3, <3>m, Adding
        <5> QED
          BY <5>2, <5>3, <5>4
      <4> QED
        BY <4>9, <3>3
    <3> QED
      BY <1>1, <3>4, <3>12, <3>13
  <2> QED
    BY <2>2, <2>3
<1> QED
  BY <1>2, <1>4 DEF Next
-----------------------------------------------------------------------------
LEMMA Initially == Init => IInv
<1> SUFFICES ASSUME Init PROVE IInv
  OBVIOUS
<1>1. /\ stream \in Streams /\ sent = 0 /\ count = 0 /\ gap = 0 /\ missed = FALSE
      /\ pending = <<>> /\ last = None /\ out = <<>> /\ got = {}
  BY DEF Init
<1>2. stream \in Seq(Octets) /\ Len(stream) \in Nat
  BY <1>1, ReassemblyAssumption
<1>3. TypeOK
  <2>1. <<>> \in Seq(Octets) /\ 0 \in 0 .. Len(stream) /\ 0 \in 0 .. Period - 1 /\ 0 \in 0 .. MaxGap
    BY <1>2, Numbers
  <2> QED
    BY <1>1, <1>2, <2>1 DEF TypeOK
<1>4. FramesKept
  <2>1. 0 % FieldSize = 0
    <3>1. 0 = FieldSize * 0 + 0 /\ 0 \in 0 .. FieldSize - 1
      BY Numbers
    <3> QED
      BY <3>1, Numbers, ModIs
  <2> QED
    BY <1>1, <2>1, Numbers DEF FramesKept
<1>5. PendingOpen /\ OpenKept /\ OutBefore
  BY <1>1 DEF PendingOpen, OpenKept, OutBefore
<1>6. OnlyWhole /\ PendingBounded
  BY <1>1, Numbers DEF OnlyWhole, PendingBounded
<1>7. Recovered
  BY <1>1 DEF Recovered, Received
<1> QED
  BY <1>3, <1>4, <1>5, <1>6, <1>7 DEF IInv

LEMMA Inductive == IInv /\ [Next]_vars => IInv'
<1> SUFFICES ASSUME IInv, [Next]_vars PROVE IInv'
  OBVIOUS
<1>1. CASE Next
  BY <1>1, TypeStep, FramesStep, OpenStep, OutStep, RecoveredStep DEF IInv
<1>2. CASE UNCHANGED vars
  <2>1. UNCHANGED <<stream, sent, count, gap, missed, pending, last, out, got>>
    BY <1>2 DEF vars
  <2>2. Recovered'
    BY <2>1, ComesOut DEF IInv, Recovered, Received, Emitted
  <2>3. OutBefore' /\ PendingOpen' /\ OpenKept'
    BY <2>1 DEF IInv, OutBefore, PendingOpen, OpenKept, Open, OpenPlaces, StartOf, Ends
  <2> QED
    BY <2>1, <2>2, <2>3 DEF IInv, TypeOK, FramesKept, OnlyWhole, PendingBounded
<1> QED
  BY <1>1, <1>2

LEMMA Always == Spec => []IInv
BY Initially, Inductive, PTL DEF Spec

(* Types of the state, for any stream, sizes and losses (reassemble).       *)
THEOREM TypeCorrect == Spec => []TypeOK
<1>1. IInv => TypeOK
  BY DEF IInv
<1> QED
  BY <1>1, Always, PTL

(* What reassemble emits is what was sent, whole and in order, as long as   *)
(* fewer frames than a period of the counter are lost in a row; what it     *)
(* holds back is bounded by the largest packet, and a packet received in    *)
(* full whose last frame has a header pointer comes out, whatever is lost.  *)
THEOREM EmitsWhatWasSent == Spec => []Reassembled
<1>1. IInv => Reassembled
  BY DEF IInv, Reassembled
<1> QED
  BY <1>1, Always, PTL
===============================================================================
