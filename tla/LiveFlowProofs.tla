--------------------------- MODULE LiveFlowProofs ---------------------------
(***************************************************************************)
(* Theorems about one live flow, its packets and the vectors computed from *)
(* it: the safety properties of LiveFlow, for any frames, workers, models  *)
(* and numbers of packets, sweeps and switches.                            *)
(***************************************************************************)
EXTENDS LiveFlow, FiniteSetTheorems, SequenceTheorems, WellFoundedInduction, TLAPS

-----------------------------------------------------------------------------
(* Sums of natural numbers.  What Sum computes is shown through the totals  *)
(* that lead to it, which exist and are unique.                            *)

LEMMA LeastExists ==
    ASSUME NEW T, T \subseteq Nat, T # {}
    PROVE  \E x \in T : \A y \in T : x <= y
<1>1. IsWellFoundedOn(OpToRel(<, Nat), Nat)
  BY NatLessThanWellFounded
<1>2. PICK x \in T : \A y \in T : ~(<<y, x>> \in OpToRel(<, Nat))
  BY <1>1, WFMin, Zenon
<1>3. \A y \in T : ~(y < x)
  <2>1. SUFFICES ASSUME NEW y \in T, y < x PROVE FALSE
    OBVIOUS
  <2>2. <<y, x>> \in Nat \X Nat /\ <<y, x>>[1] = y /\ <<y, x>>[2] = x
    OBVIOUS
  <2>3. <<y, x>> \in OpToRel(<, Nat)
    BY <2>1, <2>2, Zenon DEF OpToRel
  <2>. QED
    BY <1>2, <2>3
<1>4. \A y \in T : x <= y
  <2>1. SUFFICES ASSUME NEW y \in T PROVE x <= y
    OBVIOUS
  <2>2. x \in Nat /\ y \in Nat /\ ~(y < x)
    BY <1>3
  <2>. QED
    BY <2>2
<1>. QED
  BY <1>2, <1>4, Zenon

\* g is the list of totals of the numbers f[1], ..., f[n].
Totals(g, f, n) ==
    g \in [0..n -> Nat] /\ g[0] = 0 /\ \A i \in 1..n : g[i] = g[i - 1] + f[i]

LEMMA TotalsExist ==
    ASSUME NEW s \in Seq(Nat)
    PROVE  \E g : Totals(g, s, Len(s))
<1> DEFINE T == {n \in 0..Len(s) : ~\E g : Totals(g, s, n)}
<1>0. Len(s) \in 0..Len(s) /\ T \subseteq Nat
  OBVIOUS
<1> SUFFICES ASSUME T # {} PROVE FALSE
  BY <1>0
<1>1. PICK m \in T : \A y \in T : m <= y
  <2> HIDE DEF T
  <2>. QED
    BY <1>0, LeastExists
<1>2. m # 0
  <2>1. Totals([i \in 0..0 |-> 0], s, 0)
    BY DEF Totals
  <2>. QED
    BY <1>1, <2>1
<1>3. m - 1 \in 0..Len(s) /\ m - 1 \notin T
  BY <1>1, <1>2
<1>4. PICK g : Totals(g, s, m - 1)
  BY <1>3
<1>5. Totals([i \in 0..m |-> IF i = m THEN g[m - 1] + s[m] ELSE g[i]], s, m)
  <2> DEFINE h == [i \in 0..m |-> IF i = m THEN g[m - 1] + s[m] ELSE g[i]]
  <2>1. m \in Nat /\ m - 1 \in Nat /\ m \in 1..Len(s) /\ s[m] \in Nat
    BY <1>1, <1>2
  <2>2. /\ g \in [0..(m - 1) -> Nat] /\ g[0] = 0
        /\ \A i \in 1..(m - 1) : g[i] = g[i - 1] + s[i]
    BY <1>4 DEF Totals
  <2>3. h \in [0..m -> Nat]
    BY <2>1, <2>2
  <2>4. h[0] = 0 /\ h[m] = g[m - 1] + s[m] /\ \A i \in 0..(m - 1) : h[i] = g[i]
    BY <2>1, <2>2
  <2> HIDE DEF h
  <2>5. ASSUME NEW i \in 1..m PROVE h[i] = h[i - 1] + s[i]
    <3>1. i - 1 \in 0..(m - 1)
      BY <2>1
    <3>2. CASE i = m
      BY <2>4, <3>1, <3>2
    <3>3. CASE i # m
      <4>1. i \in 1..(m - 1) /\ i \in 0..(m - 1)
        BY <2>1, <3>3
      <4>. QED
        BY <2>2, <2>4, <3>1, <4>1
    <3>. QED
      BY <3>2, <3>3
  <2>6. Totals(h, s, m)
    BY <2>3, <2>4, <2>5 DEF Totals
  <2>. QED
    BY <2>6 DEF h
<1>. QED
  BY <1>1, <1>5

LEMMA SumIsLast ==
    ASSUME NEW s \in Seq(Nat), NEW g, Totals(g, s, Len(s))
    PROVE  Sum(s) = g[Len(s)]
<1> DEFINE Step(t) == [i \in 0..Len(s) |-> IF i = 0 THEN 0 ELSE t[i - 1] + s[i]]
           total == CHOOSE t : t = Step(t)
           T == {n \in 0..Len(s) : total[n] # g[n]}
<1>1. g = Step(g)
  BY DEF Totals
<1>2. total = Step(total)
  BY <1>1
<1>3. total[0] = 0 /\ \A i \in 1..Len(s) : total[i] = total[i - 1] + s[i]
  <2> HIDE DEF total
  <2>. QED
    BY <1>2
<1>4. T = {}
  <2> HIDE DEF total
  <2> SUFFICES ASSUME T # {} PROVE FALSE
    OBVIOUS
  <2>0. T \subseteq Nat
    OBVIOUS
  <2>1. PICK m \in T : \A y \in T : m <= y
    <3> HIDE DEF T
    <3>. QED
      BY <2>0, LeastExists
  <2>2. m # 0
    BY <1>3, <2>1 DEF Totals
  <2>3. m - 1 \in 0..Len(s) /\ m - 1 \notin T /\ m \in 1..Len(s)
    BY <2>1, <2>2
  <2>. QED
    BY <1>3, <2>1, <2>3 DEF Totals
<1>5. Sum(s) = total[Len(s)]
  BY DEF Sum
<1>6. Len(s) \in 0..Len(s)
  OBVIOUS
<1>. QED
  BY <1>4, <1>5, <1>6

LEMMA SumHasTotals ==
    ASSUME NEW s \in Seq(Nat)
    PROVE  \E g : Totals(g, s, Len(s)) /\ Sum(s) = g[Len(s)]
BY TotalsExist, SumIsLast

LEMMA SumNat ==
    ASSUME NEW s \in Seq(Nat)
    PROVE  Sum(s) \in Nat
BY SumHasTotals DEF Totals

LEMMA SumEmpty == Sum(<<>>) = 0
<1>1. <<>> \in Seq(Nat) /\ Len(<<>>) = 0
  OBVIOUS
<1>2. Totals([i \in 0..0 |-> 0], <<>>, 0)
  BY DEF Totals
<1>. QED
  BY <1>1, <1>2, SumIsLast

LEMMA SumAppend ==
    ASSUME NEW s \in Seq(Nat), NEW x \in Nat
    PROVE  Sum(Append(s, x)) = Sum(s) + x
<1>1. PICK g : Totals(g, s, Len(s)) /\ Sum(s) = g[Len(s)]
  BY SumHasTotals
<1> DEFINE n == Len(s) + 1
           h == [i \in 0..n |-> IF i = n THEN g[Len(s)] + x ELSE g[i]]
<1>2. Append(s, x) \in Seq(Nat) /\ Len(Append(s, x)) = n
  OBVIOUS
<1>3. /\ g \in [0..Len(s) -> Nat] /\ g[0] = 0
      /\ \A i \in 1..Len(s) : g[i] = g[i - 1] + s[i]
  BY <1>1 DEF Totals
<1>4. Len(s) \in Nat /\ n = Len(s) + 1
  OBVIOUS
<1>5. h \in [0..n -> Nat]
  BY <1>3, <1>4
<1>6. h[0] = 0 /\ h[n] = g[Len(s)] + x /\ \A i \in 0..Len(s) : h[i] = g[i]
  BY <1>3, <1>4
<1> HIDE DEF n, h
<1>7. ASSUME NEW i \in 1..n PROVE h[i] = h[i - 1] + Append(s, x)[i]
  <2>1. i - 1 \in 0..Len(s)
    BY <1>4
  <2>2. CASE i = n
    <3>1. Append(s, x)[i] = x
      BY <1>4, <2>2
    <3>. QED
      BY <1>4, <1>6, <2>1, <2>2, <3>1
  <2>3. CASE i # n
    <3>1. i \in 1..Len(s) /\ i \in 0..Len(s)
      BY <1>4, <2>3
    <3>2. Append(s, x)[i] = s[i]
      BY <3>1
    <3>. QED
      BY <1>3, <1>6, <2>1, <3>1, <3>2
  <2>. QED
    BY <2>2, <2>3
<1>8. Totals(h, Append(s, x), n)
  BY <1>5, <1>6, <1>7 DEF Totals
<1>. QED
  BY <1>1, <1>2, <1>6, <1>8, SumIsLast

LEMMA SumConcat ==
    ASSUME NEW s \in Seq(Nat), NEW t \in Seq(Nat)
    PROVE  Sum(s \o t) = Sum(s) + Sum(t)
<1> DEFINE a == Len(s)
           b == Len(t)
           u == s \o t
<1>1. PICK g : Totals(g, s, a) /\ Sum(s) = g[a]
  BY SumHasTotals
<1>2. PICK h : Totals(h, t, b) /\ Sum(t) = h[b]
  BY SumHasTotals
<1>3. a \in Nat /\ b \in Nat /\ u \in Seq(Nat) /\ Len(u) = a + b
  OBVIOUS
<1>4. \A i \in 1..b : t[i] \in Nat
  OBVIOUS
<1>5. \A i \in 1..(a + b) : u[i] = IF i <= a THEN s[i] ELSE t[i - a]
  OBVIOUS
<1> HIDE DEF a, b, u
<1> USE <1>3
<1> DEFINE k == [i \in 0..(a + b) |-> IF i <= a THEN g[i] ELSE g[a] + h[i - a]]
<1>11. g[0] = 0 /\ h[0] = 0 /\ g[a] \in Nat
  BY <1>1, <1>2 DEF Totals
<1>12. \A i \in 0..a : g[i] \in Nat
  BY <1>1 DEF Totals
<1>13. \A i \in 0..b : h[i] \in Nat
  BY <1>2 DEF Totals
<1>14. \A i \in 0..(a + b) : i > a => i - a \in 0..b
  OBVIOUS
<1>15. \A i \in 0..(a + b) : k[i] = IF i <= a THEN g[i] ELSE g[a] + h[i - a]
  OBVIOUS
<1>16. \A i \in 0..(a + b) : k[i] \in Nat
  <2>1. SUFFICES ASSUME NEW i \in 0..(a + b) PROVE k[i] \in Nat
    OBVIOUS
  <2>2. CASE i <= a
    <3>1. k[i] = g[i] /\ i \in 0..a
      BY <1>15, <2>2
    <3>. QED
      BY <1>12, <3>1
  <2>3. CASE i > a
    <3>1. k[i] = g[a] + h[i - a] /\ i - a \in 0..b
      BY <1>14, <1>15, <2>3
    <3>. QED
      BY <1>11, <1>13, <3>1
  <2>. QED
    BY <2>2, <2>3
<1>17. k \in [0..(a + b) -> Nat]
  BY <1>16
<1> HIDE DEF k
<1>18. k[0] = 0
  BY <1>11, <1>15
<1>19. ASSUME NEW i \in 1..(a + b) PROVE k[i] = k[i - 1] + u[i]
  <2>1. CASE i <= a
    <3>1. g[i] = g[i - 1] + s[i] /\ u[i] = s[i]
      BY <1>1, <1>5, <2>1 DEF Totals
    <3>2. k[i] = g[i] /\ k[i - 1] = g[i - 1]
      BY <1>15, <2>1
    <3>. QED
      BY <3>1, <3>2
  <2>2. CASE i > a
    <3>1. i - a \in 1..b /\ (i - a) - 1 \in 0..b /\ (i - 1) - a = (i - a) - 1
      BY <2>2
    <3>2. u[i] = t[i - a] /\ t[i - a] \in Nat
      BY <1>4, <1>5, <2>2, <3>1
    <3>3. h[i - a] = h[(i - a) - 1] + t[i - a]
      BY <1>2, <3>1 DEF Totals
    <3>4. h[(i - a) - 1] \in Nat
      BY <1>13, <3>1
    <3>5. k[i] = g[a] + h[i - a]
      BY <1>15, <2>2
    <3>6. k[i - 1] = g[a] + h[(i - a) - 1]
      <4>1. CASE i = a + 1
        <5>1. k[i - 1] = g[a] /\ (i - a) - 1 = 0
          BY <1>15, <4>1
        <5>. QED
          BY <1>11, <5>1
      <4>2. CASE i > a + 1
        <5>1. i - 1 \in 0..(a + b) /\ ~(i - 1 <= a)
          BY <4>2
        <5>. QED
          BY <1>15, <3>1, <5>1
      <4>. QED
        BY <2>2, <4>1, <4>2
    <3>7. PICK x \in Nat : x = h[(i - a) - 1]
      BY <3>4
    <3>8. PICK y \in Nat : y = t[i - a]
      BY <3>2
    <3>9. h[i - a] = x + y /\ k[i - 1] = g[a] + x /\ u[i] = y
      BY <3>2, <3>3, <3>6, <3>7, <3>8
    <3>10. k[i] = g[a] + (x + y)
      BY <3>5, <3>9
    <3>11. PICK z \in Nat : z = g[a]
      BY <1>11
    <3>12. k[i] = z + (x + y) /\ k[i - 1] = z + x /\ u[i] = y
      BY <3>9, <3>10, <3>11
    <3>13. z + (x + y) = (z + x) + y
      OBVIOUS
    <3>. QED
      BY <3>12, <3>13
  <2>. QED
    BY <2>1, <2>2
<1>20. Totals(k, u, a + b)
  BY <1>17, <1>18, <1>19 DEF Totals
<1>21. k[a + b] = g[a] + h[b]
  <2>1. CASE b = 0
    BY <1>11, <1>15, <2>1
  <2>2. CASE b > 0
    <3>1. a + b \in 0..(a + b) /\ ~(a + b <= a) /\ (a + b) - a = b
      BY <2>2
    <3>. QED
      BY <1>15, <3>1
  <2>. QED
    BY <2>1, <2>2
<1>22. Sum(u) = Sum(s) + Sum(t)
  BY <1>1, <1>2, <1>20, <1>21, SumIsLast
<1>. QED
  BY <1>22 DEF u

LEMMA SumPlus ==
    ASSUME NEW n \in Nat, NEW s \in [1..n -> Nat], NEW t \in [1..n -> Nat]
    PROVE  Sum([i \in 1..n |-> s[i] + t[i]]) = Sum(s) + Sum(t)
<1> DEFINE u == [i \in 1..n |-> s[i] + t[i]]
<1>1. s \in Seq(Nat) /\ t \in Seq(Nat) /\ u \in Seq(Nat) /\ Len(s) = n /\ Len(t) = n /\ Len(u) = n
  OBVIOUS
<1>2. \A i \in 1..n : u[i] = s[i] + t[i]
  OBVIOUS
<1> HIDE DEF u
<1>3. PICK g : Totals(g, s, n) /\ Sum(s) = g[n]
  BY <1>1, SumHasTotals
<1>4. PICK h : Totals(h, t, n) /\ Sum(t) = h[n]
  BY <1>1, SumHasTotals
<1> DEFINE k == [i \in 0..n |-> g[i] + h[i]]
<1>5. Totals(k, u, n) /\ k[n] = g[n] + h[n]
  <2>1. g \in [0..n -> Nat] /\ g[0] = 0 /\ \A i \in 1..n : g[i] = g[i - 1] + s[i]
    BY <1>3 DEF Totals
  <2>2. h \in [0..n -> Nat] /\ h[0] = 0 /\ \A i \in 1..n : h[i] = h[i - 1] + t[i]
    BY <1>4 DEF Totals
  <2>3. k \in [0..n -> Nat] /\ k[0] = 0 /\ \A i \in 0..n : k[i] = g[i] + h[i]
    BY <2>1, <2>2
  <2> HIDE DEF k
  <2>4. ASSUME NEW i \in 1..n PROVE k[i] = k[i - 1] + u[i]
    <3>1. i \in 0..n /\ i - 1 \in 0..n
      OBVIOUS
    <3>2. PICK a \in Nat : a = g[i - 1]
      BY <2>1, <3>1
    <3>3. PICK b \in Nat : b = h[i - 1]
      BY <2>2, <3>1
    <3>4. PICK c \in Nat : c = s[i]
      OBVIOUS
    <3>5. PICK d \in Nat : d = t[i]
      OBVIOUS
    <3>6. k[i] = (a + c) + (b + d) /\ k[i - 1] = a + b /\ u[i] = c + d
      BY <1>2, <2>1, <2>2, <2>3, <3>1, <3>2, <3>3, <3>4, <3>5
    <3>. QED
      BY <3>6
  <2>5. n \in 0..n
    OBVIOUS
  <2>. QED
    BY <2>3, <2>4, <2>5 DEF Totals
<1> HIDE DEF k
<1>6. Sum(u) = Sum(s) + Sum(t)
  BY <1>1, <1>3, <1>4, <1>5, SumIsLast
<1>. QED
  BY <1>6 DEF u

LEMMA SumMonotone ==
    ASSUME NEW n \in Nat, NEW s \in [1..n -> Nat], NEW t \in [1..n -> Nat],
           \A i \in 1..n : s[i] <= t[i]
    PROVE  Sum(s) <= Sum(t)
<1> DEFINE d == [i \in 1..n |-> t[i] - s[i]]
<1>1. d \in [1..n -> Nat] /\ d \in Seq(Nat) /\ s \in Seq(Nat)
  OBVIOUS
<1>2. Sum(t) = Sum(s) + Sum(d)
  <2>1. \A i \in 1..n : t[i] = s[i] + d[i]
    OBVIOUS
  <2>2. t = [i \in 1..n |-> s[i] + d[i]]
    BY <2>1
  <2> HIDE DEF d
  <2>. QED
    BY <1>1, <2>2, SumPlus
<1>3. Sum(s) \in Nat /\ Sum(d) \in Nat
  <2> HIDE DEF d
  <2>. QED
    BY <1>1, SumNat
<1>. QED
  BY <1>2, <1>3

LEMMA SumOfOnes ==
    ASSUME NEW n \in Nat
    PROVE  Sum([i \in 1..n |-> 1]) = n
<1> DEFINE s == [i \in 1..n |-> 1]
<1>1. s \in Seq(Nat) /\ Len(s) = n
  OBVIOUS
<1>2. Totals([i \in 0..n |-> i], s, n)
  BY DEF Totals
<1>. QED
  BY <1>1, <1>2, SumIsLast

-----------------------------------------------------------------------------
(* The packets of a side: their indices, their bytes and their sizes.      *)

Packet ==
    [protocol : {"TCP", "UDP", "ICMP"}, from : {f.from : f \in Frames}, time : Nat,
     length : Nat, flags : SUBSET TcpFlags]

LEMMA PacketAt ==
    ASSUME NEW s \in Seq(Packet), NEW i \in DOMAIN s
    PROVE  /\ s[i] \in Packet
           /\ s[i].length \in Nat /\ s[i].time \in Nat /\ s[i].flags \subseteq TcpFlags
<1>1. s[i] \in Packet
  OBVIOUS
<1>. QED
  BY <1>1 DEF Packet

LEMMA BytesNat ==
    ASSUME NEW s \in Seq(Packet), NEW I
    PROVE  Bytes(s, I) \in Nat
<1> DEFINE f == [i \in DOMAIN s |-> IF i \in I THEN s[i].length ELSE 0]
<1>1. f \in Seq(Nat)
  <2>1. \A i \in DOMAIN s : s[i].length \in Nat
    BY PacketAt
  <2>2. DOMAIN s = 1..Len(s) /\ Len(s) \in Nat
    OBVIOUS
  <2>. QED
    BY <2>1, <2>2
<1> HIDE DEF f
<1>2. Sum(f) \in Nat
  BY <1>1, SumNat
<1>. QED
  BY <1>2 DEF Bytes, f

LEMMA BytesSame ==
    ASSUME NEW s, NEW I, NEW J, \A i \in DOMAIN s : i \in I <=> i \in J
    PROVE  Bytes(s, I) = Bytes(s, J)
<1>1. [i \in DOMAIN s |-> IF i \in I THEN s[i].length ELSE 0]
        = [i \in DOMAIN s |-> IF i \in J THEN s[i].length ELSE 0]
  OBVIOUS
<1>. QED
  BY <1>1, Zenon DEF Bytes

LEMMA BytesMonotone ==
    ASSUME NEW s \in Seq(Packet), NEW I, NEW J, I \subseteq J
    PROVE  Bytes(s, I) <= Bytes(s, J)
<1> DEFINE n == Len(s)
           f == [i \in DOMAIN s |-> IF i \in I THEN s[i].length ELSE 0]
           g == [i \in DOMAIN s |-> IF i \in J THEN s[i].length ELSE 0]
<1>1. \A i \in DOMAIN s : s[i].length \in Nat
  BY PacketAt
<1>2. DOMAIN s = 1..n /\ n \in Nat
  OBVIOUS
<1>3. f \in [1..n -> Nat] /\ g \in [1..n -> Nat] /\ \A i \in 1..n : f[i] <= g[i]
  BY <1>1, <1>2
<1> HIDE DEF n, f, g
<1>4. Sum(f) <= Sum(g)
  BY <1>2, <1>3, SumMonotone
<1>. QED
  BY <1>4 DEF Bytes, f, g

LEMMA BytesDisjoint ==
    ASSUME NEW s \in Seq(Packet), NEW I, NEW J, I \cap J = {}
    PROVE  Bytes(s, I \cup J) = Bytes(s, I) + Bytes(s, J)
<1> DEFINE n == Len(s)
           f == [i \in DOMAIN s |-> IF i \in I THEN s[i].length ELSE 0]
           g == [i \in DOMAIN s |-> IF i \in J THEN s[i].length ELSE 0]
           h == [i \in DOMAIN s |-> IF i \in I \cup J THEN s[i].length ELSE 0]
<1>1. \A i \in DOMAIN s : s[i].length \in Nat
  BY PacketAt
<1>2. DOMAIN s = 1..n /\ n \in Nat
  OBVIOUS
<1>3. f \in [1..n -> Nat] /\ g \in [1..n -> Nat] /\ h \in [1..n -> Nat]
  BY <1>1, <1>2
<1>4. \A i \in 1..n : h[i] = f[i] + g[i]
  BY <1>1, <1>2
<1> HIDE DEF n, f, g, h
<1>5. h = [i \in 1..n |-> f[i] + g[i]]
  BY <1>3, <1>4
<1>6. Sum(h) = Sum(f) + Sum(g)
  BY <1>2, <1>3, <1>5, SumPlus
<1>. QED
  BY <1>6 DEF Bytes, f, g, h

LEMMA BytesAppend ==
    ASSUME NEW s \in Seq(Packet), NEW p \in Packet, NEW I
    PROVE  Bytes(Append(s, p), I)
             = Bytes(s, I) + (IF Len(s) + 1 \in I THEN p.length ELSE 0)
<1> DEFINE n == Len(s)
           t == Append(s, p)
           x == IF n + 1 \in I THEN p.length ELSE 0
           f == [i \in DOMAIN s |-> IF i \in I THEN s[i].length ELSE 0]
           g == [i \in DOMAIN t |-> IF i \in I THEN t[i].length ELSE 0]
<1>1. (\A i \in DOMAIN s : s[i].length \in Nat) /\ x \in Nat
  <2>1. p.length \in Nat
    BY DEF Packet
  <2>. QED
    BY <2>1, PacketAt
<1>2. DOMAIN s = 1..n /\ n \in Nat /\ DOMAIN t = 1..(n + 1)
  OBVIOUS
<1>3. t[n + 1] = p /\ \A i \in 1..n : t[i] = s[i]
  OBVIOUS
<1>4. f \in Seq(Nat) /\ Len(f) = n
  BY <1>1, <1>2
<1>5. g = Append(f, x)
  <2>1. DOMAIN g = 1..(n + 1)
    BY <1>2
  <2>2. Append(f, x) \in Seq(Nat) /\ Len(Append(f, x)) = n + 1
    BY <1>1, <1>4
  <2>3. ASSUME NEW i \in 1..(n + 1) PROVE g[i] = Append(f, x)[i]
    <3>1. CASE i = n + 1
      BY <1>2, <1>3, <1>4, <3>1
    <3>2. CASE i \in 1..n
      BY <1>2, <1>3, <1>4, <3>2
    <3>. QED
      BY <1>2, <3>1, <3>2
  <2>4. g = [i \in 1..(n + 1) |-> g[i]]
    BY <2>1
  <2>5. Append(f, x) = [i \in 1..(n + 1) |-> Append(f, x)[i]]
    BY <2>2
  <2> HIDE DEF f, g, x, n
  <2>. QED
    BY <2>3, <2>4, <2>5
<1> HIDE DEF f, g, x
<1>6. Sum(g) = Sum(f) + x
  BY <1>1, <1>4, <1>5, SumAppend
<1>. QED
  BY <1>6 DEF Bytes, f, g, x

LEMMA OnSideOf ==
    ASSUME NEW s \in Seq(Packet), NEW side
    PROVE  /\ OnSide(s, side) \subseteq 1..Len(s)
           /\ IsFiniteSet(OnSide(s, side))
           /\ Cardinality(OnSide(s, side)) \in Nat
<1>1. OnSide(s, side) \subseteq 1..Len(s)
  BY DEF OnSide
<1>2. IsFiniteSet(1..Len(s))
  BY FS_Interval
<1>. QED
  BY <1>1, <1>2, FS_Subset, FS_CardinalityType

LEMMA SidesArePartition ==
    ASSUME NEW s \in Seq(Packet)
    PROVE  /\ OnSide(s, "fwd") \cup OnSide(s, "bwd") = 1..Len(s)
           /\ OnSide(s, "fwd") \cap OnSide(s, "bwd") = {}
BY DEF OnSide

LEMMA OnSideAppend ==
    ASSUME NEW s \in Seq(Packet), s # <<>>, NEW p \in Packet, NEW side
    PROVE  OnSide(Append(s, p), side)
             = OnSide(s, side) \cup
                 (IF (p.from = s[1].from) <=> (side = "fwd") THEN {Len(s) + 1} ELSE {})
<1>1. DOMAIN Append(s, p) = 1..(Len(s) + 1) /\ DOMAIN s = 1..Len(s)
  OBVIOUS
<1>2. 1 \in 1..Len(s) /\ Append(s, p)[1] = s[1]
  OBVIOUS
<1>3. Append(s, p)[Len(s) + 1] = p /\ \A i \in 1..Len(s) : Append(s, p)[i] = s[i]
  OBVIOUS
<1>. QED
  BY <1>1, <1>2, <1>3 DEF OnSide

LEMMA OnSideOfOne ==
    ASSUME NEW p \in Packet
    PROVE  OnSide(<<p>>, "fwd") = {1} /\ OnSide(<<p>>, "bwd") = {}
BY DEF OnSide

\* Of indices of packets, how many of them fit a bucket.
LEMMA FittingNat ==
    ASSUME NEW s, NEW I, IsFiniteSet(I)
    PROVE  Fitting(s, I) \in Nat
<1>1. {i \in I : s[i].length <= 1514} \subseteq I
  OBVIOUS
<1>. QED
  BY <1>1, FS_Subset, FS_CardinalityType DEF Fitting

LEMMA FittingMonotone ==
    ASSUME NEW s, NEW J, IsFiniteSet(J), NEW I, I \subseteq J
    PROVE  Fitting(s, I) <= Fitting(s, J)
<1>1. {i \in I : s[i].length <= 1514} \subseteq {i \in J : s[i].length <= 1514}
  OBVIOUS
<1>2. IsFiniteSet({i \in J : s[i].length <= 1514})
  BY FS_Subset
<1>. QED
  BY <1>1, <1>2, FS_Subset DEF Fitting

LEMMA FittingDisjoint ==
    ASSUME NEW s, NEW I, NEW J, IsFiniteSet(I), IsFiniteSet(J), I \cap J = {}
    PROVE  Fitting(s, I \cup J) = Fitting(s, I) + Fitting(s, J)
<1> DEFINE A == {i \in I : s[i].length <= 1514}
           B == {i \in J : s[i].length <= 1514}
<1>1. {i \in I \cup J : s[i].length <= 1514} = A \cup B /\ A \cap B = {}
  OBVIOUS
<1>2. IsFiniteSet(A) /\ IsFiniteSet(B)
  BY FS_Subset
<1>3. Cardinality(A \cup B) = Cardinality(A) + Cardinality(B)
  <2> HIDE DEF A, B
  <2>1. Cardinality(A \cap B) = 0
    BY <1>1, FS_EmptySet
  <2>2. Cardinality(A \cup B) = Cardinality(A) + Cardinality(B) - Cardinality(A \cap B)
    BY <1>2, FS_Union
  <2>3. Cardinality(A) \in Nat /\ Cardinality(B) \in Nat
    BY <1>2, FS_CardinalityType
  <2>. QED
    BY <2>1, <2>2, <2>3
<1> HIDE DEF A, B
<1>4. Cardinality({i \in I \cup J : s[i].length <= 1514}) = Cardinality(A) + Cardinality(B)
  BY <1>1, <1>3
<1>. QED
  BY <1>4 DEF Fitting, A, B

-----------------------------------------------------------------------------
(* What a worker has read of a flow, against the packets s of the flow: at *)
(* least what the first n of them, the complete ones when it began, wrote, *)
(* and at most what all of them did.                                       *)

\* How many of some lengths fit a bucket of the histogram.
Fit(lengths) == Sum([i \in DOMAIN lengths |-> IF lengths[i] <= 1514 THEN 1 ELSE 0])

SideUpTo(s, side, n) == {i \in OnSide(s, side) : i <= n}

SeenOk(s, x, n) ==
    /\ x \in Nat
    /\ \A i \in 1..n : s[i].time <= x
    /\ x > 0 => \E i \in DOMAIN s : s[i].time = x

LengthsOk(s, x, n) ==
    /\ x \in Seq(Nat)
    /\ n <= Len(x)
    /\ Fitting(s, 1..n) <= Fit(x) /\ Fit(x) <= Fitting(s, DOMAIN s)
    /\ \A i \in 1..n : s[i].length \in ToSet(x)
    /\ \A y \in ToSet(x) : \E i \in DOMAIN s : s[i].length = y

NumberOk(s, x, n, side) ==
    /\ x \in Nat
    /\ Cardinality(SideUpTo(s, side, n)) <= x
    /\ x <= Cardinality(OnSide(s, side))

BytesOk(s, x, n, side) ==
    /\ x \in Nat
    /\ Bytes(s, SideUpTo(s, side, n)) <= x
    /\ x <= Bytes(s, OnSide(s, side))

FlagOk(s, x, n, side, flag) ==
    /\ x \in BOOLEAN
    /\ (\E i \in SideUpTo(s, side, n) : flag \in s[i].flags) => x
    /\ x => \E i \in OnSide(s, side) : flag \in s[i].flags

ScanOk(s, x, n) ==
    /\ Flags(s, 1..n) \subseteq x
    /\ x \subseteq Flags(s, DOMAIN s)

ReadOk(s, what, x, n) ==
    /\ what = "lastSeen" => SeenOk(s, x, n)
    /\ what = "lengths" => LengthsOk(s, x, n)
    /\ what = "inPkts" => NumberOk(s, x, n, "fwd")
    /\ what = "outPkts" => NumberOk(s, x, n, "bwd")
    /\ what = "inBytes" => BytesOk(s, x, n, "fwd")
    /\ what = "outBytes" => BytesOk(s, x, n, "bwd")
    /\ what = "fwdPsh" => FlagOk(s, x, n, "fwd", "PSH")
    /\ what = "fwdUrg" => FlagOk(s, x, n, "fwd", "URG")
    /\ what = "bwdPsh" => FlagOk(s, x, n, "bwd", "PSH")
    /\ what = "bwdUrg" => FlagOk(s, x, n, "bwd", "URG")

\* One more packet changes nothing about the packets before it.
Adds(s, p, t) == s \in Seq(Packet) /\ p \in Packet /\ t = Append(s, p)

LEMMA Grown ==
    ASSUME NEW s, NEW p, NEW t, Adds(s, p, t)
    PROVE  /\ s \in Seq(Packet) /\ p \in Packet
           /\ t \in Seq(Packet) /\ t # <<>> /\ Len(t) = Len(s) + 1 /\ Len(s) \in Nat
           /\ DOMAIN s = 1..Len(s) /\ DOMAIN t = 1..(Len(s) + 1)
           /\ t[Len(s) + 1] = p
           /\ \A i \in 1..Len(s) : t[i] = s[i]
BY DEF Adds

LEMMA FittingSame ==
    ASSUME NEW I, NEW s, NEW t,
           \A i \in I : s[i].length \in Nat /\ t[i].length = s[i].length
    PROVE  Fitting(t, I) = Fitting(s, I)
<1>1. {i \in I : t[i].length <= 1514} = {i \in I : s[i].length <= 1514}
  OBVIOUS
<1>. QED
  BY <1>1 DEF Fitting

LEMMA GrownSums ==
    ASSUME NEW s, NEW p, NEW t, Adds(s, p, t),
           NEW I, \A i \in I : i \in DOMAIN s
    PROVE  /\ Bytes(t, I) = Bytes(s, I)
           /\ Fitting(t, I) = Fitting(s, I)
           /\ Flags(t, I) = Flags(s, I)
<1>1. Bytes(t, I) = Bytes(s, I)
  <2>1. Len(s) + 1 \notin I
    OBVIOUS
  <2>. QED
    BY <2>1, BytesAppend, BytesNat DEF Adds
<1>2. \A i \in I : t[i] = s[i]
  BY Grown
<1>3. Fitting(t, I) = Fitting(s, I)
  <2>1. \A i \in I : s[i].length \in Nat /\ t[i].length = s[i].length
    BY <1>2, Grown, PacketAt
  <2>. QED
    BY <2>1, FittingSame
<1>4. Flags(t, I) = Flags(s, I)
  BY <1>2 DEF Flags
<1>. QED
  BY <1>1, <1>3, <1>4

LEMMA GrownSides ==
    ASSUME NEW s, NEW p, NEW t, Adds(s, p, t), s # <<>>,
           NEW side, NEW n \in 0..Len(s)
    PROVE  /\ OnSide(s, side) \subseteq OnSide(t, side)
           /\ SideUpTo(t, side, n) = SideUpTo(s, side, n)
           /\ SideUpTo(s, side, n) \subseteq 1..Len(s)
<1>1. OnSide(s, side) \subseteq 1..Len(s) /\ Len(s) \in Nat
  BY Grown, OnSideOf
<1>2. OnSide(t, side) = OnSide(s, side) \/ OnSide(t, side) = OnSide(s, side) \cup {Len(s) + 1}
  <2>1. OnSide(t, side) = OnSide(s, side) \cup
            (IF (p.from = s[1].from) <=> (side = "fwd") THEN {Len(s) + 1} ELSE {})
    BY OnSideAppend DEF Adds
  <2>. QED
    BY <2>1
<1>. QED
  BY <1>1, <1>2 DEF SideUpTo

LEMMA SeenGrows ==
    ASSUME NEW s, NEW p, NEW t, Adds(s, p, t),
           NEW x, NEW n \in 0..Len(s), SeenOk(s, x, n)
    PROVE  SeenOk(t, x, n)
<1>1. /\ DOMAIN s = 1..Len(s) /\ DOMAIN t = 1..(Len(s) + 1) /\ Len(s) \in Nat
      /\ \A i \in 1..Len(s) : t[i] = s[i]
  BY Grown
<1>. QED
  BY <1>1 DEF SeenOk

LEMMA LengthsGrow ==
    ASSUME NEW s, NEW p, NEW t, Adds(s, p, t),
           NEW x, NEW n \in 0..Len(s), LengthsOk(s, x, n)
    PROVE  LengthsOk(t, x, n)
<1>1. /\ DOMAIN s = 1..Len(s) /\ DOMAIN t = 1..(Len(s) + 1) /\ Len(s) \in Nat
      /\ \A i \in 1..Len(s) : t[i] = s[i]
  BY Grown
<1>2. 1..n \subseteq 1..Len(s)
  BY <1>1
<1>3. Fitting(t, 1..n) = Fitting(s, 1..n)
  BY <1>2, GrownSums
<1>4. Fitting(s, DOMAIN s) <= Fitting(t, DOMAIN t)
  <2>1. Fitting(t, 1..Len(s)) = Fitting(s, 1..Len(s))
    BY GrownSums
  <2>2. 1..Len(s) \subseteq 1..(Len(s) + 1) /\ IsFiniteSet(1..(Len(s) + 1))
    <3>1. PICK m \in Nat : m = Len(s)
      BY <1>1
    <3>2. IsFiniteSet(1..(m + 1))
      BY FS_Interval
    <3>3. 1..m \subseteq 1..(m + 1)
      OBVIOUS
    <3>. QED
      BY <3>1, <3>2, <3>3
  <2>3. Fitting(t, 1..Len(s)) <= Fitting(t, 1..(Len(s) + 1))
    BY <2>2, FittingMonotone
  <2>. QED
    BY <1>1, <2>1, <2>3
<1>5. /\ Fit(x) \in Nat /\ Fitting(s, DOMAIN s) \in Nat /\ Fitting(t, DOMAIN t) \in Nat
  <2>1. [i \in DOMAIN x |-> IF x[i] <= 1514 THEN 1 ELSE 0] \in Seq(Nat)
    BY DEF LengthsOk
  <2>2. Fit(x) \in Nat
    BY <2>1, SumNat DEF Fit
  <2>3. IsFiniteSet(1..Len(s)) /\ IsFiniteSet(1..(Len(s) + 1))
    BY <1>1, FS_Interval
  <2>. QED
    BY <1>1, <2>2, <2>3, FittingNat
<1>6. Fit(x) <= Fitting(t, DOMAIN t)
  BY <1>4, <1>5 DEF LengthsOk
<1>7. \A i \in 1..n : t[i].length = s[i].length
  BY <1>1, <1>2
<1>8. \A y \in ToSet(x) : \E i \in DOMAIN t : t[i].length = y
  <2>1. SUFFICES ASSUME NEW y \in ToSet(x) PROVE \E i \in DOMAIN t : t[i].length = y
    OBVIOUS
  <2>2. PICK i \in DOMAIN s : s[i].length = y
    BY DEF LengthsOk
  <2>3. i \in DOMAIN t /\ t[i] = s[i]
    BY <1>1
  <2>. QED
    BY <2>2, <2>3
<1>. QED
  BY <1>3, <1>6, <1>7, <1>8 DEF LengthsOk

LEMMA NumberGrows ==
    ASSUME NEW s, NEW p, NEW t, Adds(s, p, t), s # <<>>,
           NEW x, NEW n \in 0..Len(s), NEW side, NumberOk(s, x, n, side)
    PROVE  NumberOk(t, x, n, side)
<1>1. t \in Seq(Packet)
  BY Grown
<1>2. /\ OnSide(s, side) \subseteq OnSide(t, side)
      /\ SideUpTo(t, side, n) = SideUpTo(s, side, n)
  BY GrownSides
<1>3. IsFiniteSet(OnSide(t, side)) /\ Cardinality(OnSide(t, side)) \in Nat
  BY <1>1, OnSideOf
<1>4. Cardinality(OnSide(s, side)) <= Cardinality(OnSide(t, side))
  BY <1>2, <1>3, FS_Subset
<1>5. Cardinality(OnSide(s, side)) \in Nat
  BY Grown, OnSideOf
<1>6. x <= Cardinality(OnSide(t, side))
  BY <1>3, <1>4, <1>5 DEF NumberOk
<1>. QED
  BY <1>2, <1>6 DEF NumberOk

LEMMA BytesGrow ==
    ASSUME NEW s, NEW p, NEW t, Adds(s, p, t), s # <<>>,
           NEW x, NEW n \in 0..Len(s), NEW side, BytesOk(s, x, n, side)
    PROVE  BytesOk(t, x, n, side)
<1>1. t \in Seq(Packet)
  BY Grown
<1>2. /\ OnSide(s, side) \subseteq OnSide(t, side)
      /\ SideUpTo(t, side, n) = SideUpTo(s, side, n)
      /\ SideUpTo(s, side, n) \subseteq 1..Len(s)
  BY GrownSides
<1>3. OnSide(s, side) \subseteq 1..Len(s)
  BY Grown, OnSideOf
<1>4. Bytes(t, SideUpTo(t, side, n)) = Bytes(s, SideUpTo(s, side, n))
  BY <1>2, GrownSums
<1>5. Bytes(s, OnSide(s, side)) = Bytes(t, OnSide(s, side))
  BY <1>3, GrownSums
<1>6. Bytes(t, OnSide(s, side)) <= Bytes(t, OnSide(t, side))
  BY <1>1, <1>2, BytesMonotone
<1>7. Bytes(s, OnSide(s, side)) \in Nat /\ Bytes(t, OnSide(t, side)) \in Nat
  BY <1>1, BytesNat, Grown
<1>8. x <= Bytes(t, OnSide(t, side))
  BY <1>5, <1>6, <1>7 DEF BytesOk
<1>. QED
  BY <1>4, <1>8 DEF BytesOk

LEMMA FlagGrows ==
    ASSUME NEW s, NEW p, NEW t, Adds(s, p, t), s # <<>>,
           NEW x, NEW n \in 0..Len(s), NEW side, NEW flag, FlagOk(s, x, n, side, flag)
    PROVE  FlagOk(t, x, n, side, flag)
<1>1. /\ OnSide(s, side) \subseteq OnSide(t, side)
      /\ SideUpTo(t, side, n) = SideUpTo(s, side, n)
      /\ SideUpTo(s, side, n) \subseteq 1..Len(s)
  BY GrownSides
<1>2. OnSide(s, side) \subseteq 1..Len(s)
  BY Grown, OnSideOf
<1>3. \A i \in 1..Len(s) : t[i] = s[i]
  BY Grown
<1>. QED
  BY <1>1, <1>2, <1>3 DEF FlagOk

LEMMA ScanGrows ==
    ASSUME NEW s, NEW p, NEW t, Adds(s, p, t),
           NEW x, NEW n \in 0..Len(s), ScanOk(s, x, n)
    PROVE  ScanOk(t, x, n)
<1>1. /\ DOMAIN s = 1..Len(s) /\ DOMAIN t = 1..(Len(s) + 1) /\ Len(s) \in Nat
      /\ \A i \in 1..Len(s) : t[i] = s[i]
  BY Grown
<1>2. 1..n \subseteq 1..Len(s)
  BY <1>1
<1>3. Flags(t, 1..n) = Flags(s, 1..n)
  BY <1>2, GrownSums
<1>4. Flags(s, DOMAIN s) \subseteq Flags(t, DOMAIN t)
  BY <1>1 DEF Flags
<1>. QED
  BY <1>3, <1>4 DEF ScanOk

LEMMA ReadGrows ==
    ASSUME NEW s, NEW p, NEW t, Adds(s, p, t), s # <<>>,
           NEW what, NEW x, NEW n \in 0..Len(s), ReadOk(s, what, x, n)
    PROVE  ReadOk(t, what, x, n)
<1>1. SeenOk(s, x, n) => SeenOk(t, x, n)
  BY SeenGrows
<1>2. LengthsOk(s, x, n) => LengthsOk(t, x, n)
  BY LengthsGrow
<1>3. \A side : NumberOk(s, x, n, side) => NumberOk(t, x, n, side)
  BY NumberGrows
<1>4. \A side : BytesOk(s, x, n, side) => BytesOk(t, x, n, side)
  BY BytesGrow
<1>5. \A side, flag : FlagOk(s, x, n, side, flag) => FlagOk(t, x, n, side, flag)
  BY FlagGrows
<1>. QED
  BY <1>1, <1>2, <1>3, <1>4, <1>5, Zenon DEF ReadOk

-----------------------------------------------------------------------------
(* The inductive invariant.                                                *)

PlaceInv ==
    /\ packets \in Seq(Packet)
    /\ place \in {"none", "table", "closed"}
    /\ place = "none" <=> packets = <<>>
    /\ place = "none" => queue = <<>> /\ ~handed

WriteNames == {"stamp", "psh", "urg", "seen"} \cup TcpFlags

\* While a packet is being added its flow is in the table, and only what the
\* packet carries is left to write.
AddingInv ==
    \/ adding = Nothing
    \/ /\ place = "table"
       /\ adding \in [packet : {packets[Len(packets)]}, writes : Seq(WriteNames)]
       /\ adding.writes # <<>>
       /\ ToSet(adding.writes) \cap TcpFlags \subseteq adding.packet.flags
       /\ "psh" \in ToSet(adding.writes) => "PSH" \in adding.packet.flags
       /\ "urg" \in ToSet(adding.writes) => "URG" \in adding.packet.flags

FlowType(f, s) ==
    f \in [protocol : {"TCP", "UDP", "ICMP"}, initiator : {s[1].from},
           started : {s[1].time}, lastSeen : Nat,
           lengths : [Sides -> Seq(Nat)], stamps : [Sides -> Seq(Nat)],
           psh : [Sides -> Nat], urg : [Sides -> Nat],
           keys : Seq(TcpFlags), counts : [ToSet(f.keys) -> Nat]]

\* A write of add_packet that was done for packet i.
Done(i, write) == i < Len(packets) \/ write \notin ToSet(adding.writes)

\* The lengths of a side are those of its packets: the first write of all.
LengthsOf(lengths, s, I) ==
    /\ Len(lengths) = Cardinality(I)
    /\ Sum(lengths) = Bytes(s, I)
    /\ Fit(lengths) = Fitting(s, I)
    /\ ToSet(lengths) = {s[i].length : i \in I}

LengthsInv(f) ==
    \A side \in Sides : LengthsOf(f.lengths[side], packets, OnSide(packets, side))

\* The other fields have what was done for each packet, and nothing else.
PshInv(f) ==
    \A side \in Sides :
        /\ \A i \in OnSide(packets, side) :
            Done(i, "psh") /\ "PSH" \in packets[i].flags => f.psh[side] > 0
        /\ f.psh[side] > 0 => \E i \in OnSide(packets, side) : "PSH" \in packets[i].flags

UrgInv(f) ==
    \A side \in Sides :
        /\ \A i \in OnSide(packets, side) :
            Done(i, "urg") /\ "URG" \in packets[i].flags => f.urg[side] > 0
        /\ f.urg[side] > 0 => \E i \in OnSide(packets, side) : "URG" \in packets[i].flags

CountsInv(f) ==
    /\ ToSet(BaseFlags) \subseteq ToSet(f.keys)
    /\ \A i \in DOMAIN packets : \A x \in packets[i].flags :
        Done(i, x) => x \in ToSet(f.keys) /\ f.counts[x] > 0
    /\ \A x \in ToSet(f.keys) :
        f.counts[x] > 0 => \E i \in DOMAIN packets : x \in packets[i].flags

SeenInv(f) ==
    /\ \A i \in DOMAIN packets : Done(i, "seen") => packets[i].time <= f.lastSeen
    /\ f.lastSeen > 0 => \E i \in DOMAIN packets : packets[i].time = f.lastSeen

FlowInv ==
    place # "none" =>
        /\ FlowType(flow, packets)
        /\ LengthsInv(flow) /\ PshInv(flow) /\ UrgInv(flow)
        /\ CountsInv(flow) /\ SeenInv(flow)

QueueInv ==
    /\ queue \in Seq({"periodic", "final"})
    /\ \A i \in DOMAIN queue : queue[i] = "final" => place = "closed"
    /\ switches \in Nat
    /\ model = {} => switches > 0

-----------------------------------------------------------------------------
(* Sequences and the orders of the writes.                                 *)

LEMMA ToSetConcat ==
    ASSUME NEW S, NEW a \in Seq(S), NEW b \in Seq(S)
    PROVE  a \o b \in Seq(S) /\ ToSet(a \o b) = ToSet(a) \cup ToSet(b)
<1>1. a \o b \in Seq(S) /\ Len(a \o b) = Len(a) + Len(b)
  OBVIOUS
<1>2. /\ DOMAIN a = 1..Len(a) /\ DOMAIN b = 1..Len(b) /\ DOMAIN (a \o b) = 1..(Len(a) + Len(b))
      /\ Len(a) \in Nat /\ Len(b) \in Nat
  OBVIOUS
<1>3. ASSUME NEW i \in DOMAIN a PROVE i \in DOMAIN (a \o b) /\ (a \o b)[i] = a[i]
  BY <1>2
<1>4. ASSUME NEW i \in DOMAIN b PROVE Len(a) + i \in DOMAIN (a \o b) /\ (a \o b)[Len(a) + i] = b[i]
  BY <1>2
<1>5. ASSUME NEW i \in DOMAIN (a \o b) PROVE (a \o b)[i] \in ToSet(a) \cup ToSet(b)
  <2>1. CASE i <= Len(a)
    <3>1. i \in DOMAIN a /\ (a \o b)[i] = a[i]
      BY <1>2, <2>1
    <3>. QED
      BY <3>1 DEF ToSet
  <2>2. CASE i > Len(a)
    <3>1. i - Len(a) \in DOMAIN b /\ (a \o b)[i] = b[i - Len(a)]
      BY <1>2, <2>2
    <3>. QED
      BY <3>1 DEF ToSet
  <2>. QED
    BY <1>2, <2>1, <2>2
<1>6. ToSet(a \o b) \subseteq ToSet(a) \cup ToSet(b)
  BY <1>5 DEF ToSet
<1>7. ToSet(a) \subseteq ToSet(a \o b)
  BY <1>3 DEF ToSet
<1>8. ToSet(b) \subseteq ToSet(a \o b)
  BY <1>4 DEF ToSet
<1>. QED
  BY <1>1, <1>6, <1>7, <1>8

LEMMA ToSetAppend ==
    ASSUME NEW S, NEW a \in Seq(S), NEW x
    PROVE  ToSet(Append(a, x)) = ToSet(a) \cup {x}
<1>1. /\ DOMAIN Append(a, x) = 1..(Len(a) + 1) /\ DOMAIN a = 1..Len(a) /\ Len(a) \in Nat
      /\ Append(a, x)[Len(a) + 1] = x
      /\ \A i \in 1..Len(a) : Append(a, x)[i] = a[i]
  OBVIOUS
<1>. QED
  BY <1>1 DEF ToSet

LEMMA ToSetOne ==
    ASSUME NEW x
    PROVE  ToSet(<<x>>) = {x} /\ ToSet(<<>>) = {}
BY DEF ToSet

LEMMA HeadTail ==
    ASSUME NEW S, NEW a \in Seq(S), a # <<>>
    PROVE  /\ Head(a) \in S /\ Tail(a) \in Seq(S) /\ Len(Tail(a)) = Len(a) - 1
           /\ ToSet(a) = {Head(a)} \cup ToSet(Tail(a))
<1>1. Head(a) \in S /\ Tail(a) \in Seq(S) /\ Len(Tail(a)) = Len(a) - 1
  OBVIOUS
<1> DEFINE h == <<Head(a)>>
<1>2. a = h \o Tail(a) /\ h \in Seq(S)
  BY <1>1
<1>3. ToSet(h) = {Head(a)}
  BY ToSetOne
<1> HIDE DEF h
<1>4. ToSet(h \o Tail(a)) = ToSet(h) \cup ToSet(Tail(a))
  <2>1. PICK t \in Seq(S) : t = Tail(a)
    BY <1>1
  <2>2. h \in Seq(S)
    BY <1>2
  <2>3. ToSet(h \o t) = ToSet(h) \cup ToSet(t)
    BY <2>2, ToSetConcat
  <2>. QED
    BY <2>1, <2>3
<1>5. ToSet(a) = ToSet(h) \cup ToSet(Tail(a))
  BY <1>2, <1>4
<1>. QED
  BY <1>1, <1>3, <1>5

LEMMA WritesOf ==
    ASSUME NEW p \in Packet, NEW writes \in WriteOrders(p)
    PROVE  /\ writes \in Seq(WriteNames) /\ writes # <<>>
           /\ p.flags \cup {"seen"} \subseteq ToSet(writes)
           /\ ToSet(writes) \cap TcpFlags \subseteq p.flags
           /\ "psh" \in ToSet(writes) <=> "PSH" \in p.flags
           /\ "urg" \in ToSet(writes) <=> "URG" \in p.flags
<1>1. PICK order \in SetToSeqs(p.flags) :
        writes = <<"stamp">> \o If("PSH" \in p.flags, "psh") \o If("URG" \in p.flags, "urg")
                   \o order \o <<"seen">>
  BY DEF WriteOrders
<1>2. p.flags \subseteq TcpFlags
  BY DEF Packet
<1>3. IsFiniteSet(TcpFlags) /\ IsFiniteSet(p.flags)
  <2>1. TcpFlags = {"FIN", "SYN", "RST", "PSH", "ACK", "URG", "ECE", "CWR"}
    BY DEF TcpFlags, ToSet, BaseFlags
  <2> DEFINE f == <<"FIN", "SYN", "RST", "PSH", "ACK", "URG", "ECE", "CWR">>
  <2>2. IsFiniteSet(TcpFlags)
    <3>1. f \in [1..8 -> TcpFlags]
      BY <2>1
    <3>2. \A x \in TcpFlags : \E i \in 1..8 : f[i] = x
      <4>1. /\ f[1] = "FIN" /\ f[2] = "SYN" /\ f[3] = "RST" /\ f[4] = "PSH"
            /\ f[5] = "ACK" /\ f[6] = "URG" /\ f[7] = "ECE" /\ f[8] = "CWR"
        OBVIOUS
      <4> HIDE DEF f
      <4>. QED
        BY <2>1, <4>1
    <3> HIDE DEF f
    <3>3. f \in Surjection(1..8, TcpFlags)
      BY <3>1, <3>2 DEF Surjection
    <3>4. PICK n \in Nat : n = 8
      OBVIOUS
    <3>5. IsFiniteSet(1..n)
      BY FS_Interval
    <3>6. f \in Surjection(1..n, TcpFlags)
      BY <3>3, <3>4
    <3>. QED
      BY <3>5, <3>6, FS_Surjection
  <2>. QED
    BY <1>2, <2>2, FS_Subset
<1>4. order \in Seq(p.flags) /\ ToSet(order) = p.flags
  <2> DEFINE n == Cardinality(p.flags)
  <2>1. n \in Nat
    BY <1>3, FS_CardinalityType
  <2>2. order \in [1..n -> p.flags] /\ \A i, j \in 1..n : i # j => order[i] # order[j]
    BY DEF SetToSeqs
  <2>3. order \in Injection(1..n, p.flags)
    BY <2>2 DEF Injection, IsInjective
  <2>4. Cardinality(1..n) = n
    BY <2>1, FS_Interval
  <2>5. order \in Surjection(1..n, p.flags)
    BY <1>3, <2>3, <2>4, FS_Injection
  <2>6. \A x \in p.flags : \E i \in 1..n : order[i] = x
    BY <2>5 DEF Surjection
  <2>7. order \in Seq(p.flags) /\ DOMAIN order = 1..n
    BY <2>1, <2>2
  <2>. QED
    BY <2>2, <2>6, <2>7 DEF ToSet
<1> DEFINE a == <<"stamp">>
           b == If("PSH" \in p.flags, "psh")
           c == If("URG" \in p.flags, "urg")
           d == <<"seen">>
<1>5. /\ a \in Seq(WriteNames) /\ b \in Seq(WriteNames) /\ c \in Seq(WriteNames)
      /\ order \in Seq(WriteNames) /\ d \in Seq(WriteNames)
  <2>1. a \in Seq(WriteNames) /\ d \in Seq(WriteNames)
    BY DEF WriteNames
  <2>2. \A x \in WriteNames : <<x>> \in Seq(WriteNames) /\ <<>> \in Seq(WriteNames)
    OBVIOUS
  <2>3. b \in Seq(WriteNames) /\ c \in Seq(WriteNames)
    <3>1. "psh" \in WriteNames /\ "urg" \in WriteNames
      BY DEF WriteNames
    <3>2. (b = <<"psh">> \/ b = <<>>) /\ (c = <<"urg">> \/ c = <<>>)
      BY DEF If
    <3> HIDE DEF b, c
    <3>. QED
      BY <2>2, <3>1, <3>2
  <2>4. order \in Seq(WriteNames)
    <3>1. p.flags \subseteq WriteNames
      BY <1>2 DEF WriteNames
    <3>. QED
      BY <1>4, <3>1
  <2>. QED
    BY <2>1, <2>2, <2>3, <2>4
<1>6. /\ ToSet(a) = {"stamp"} /\ ToSet(d) = {"seen"}
      /\ ToSet(b) = (IF "PSH" \in p.flags THEN {"psh"} ELSE {})
      /\ ToSet(c) = (IF "URG" \in p.flags THEN {"urg"} ELSE {})
  BY ToSetOne DEF If
<1> HIDE DEF a, b, c, d
<1> DEFINE ab == a \o b
           abc == ab \o c
           abco == abc \o order
<1>7. ab \in Seq(WriteNames) /\ ToSet(ab) = ToSet(a) \cup ToSet(b)
  BY <1>5, ToSetConcat
<1> HIDE DEF ab
<1>8. abc \in Seq(WriteNames) /\ ToSet(abc) = ToSet(ab) \cup ToSet(c)
  BY <1>5, <1>7, ToSetConcat
<1> HIDE DEF abc
<1>9. abco \in Seq(WriteNames) /\ ToSet(abco) = ToSet(abc) \cup ToSet(order)
  BY <1>5, <1>8, ToSetConcat
<1>10. writes = abco \o d
  BY <1>1 DEF ab, abc, a, b, c, d
<1> HIDE DEF abco
<1>11. /\ writes \in Seq(WriteNames)
       /\ ToSet(writes) = ToSet(a) \cup ToSet(b) \cup ToSet(c) \cup p.flags \cup ToSet(d)
  <2>1. abco \o d \in Seq(WriteNames) /\ ToSet(abco \o d) = ToSet(abco) \cup ToSet(d)
    BY <1>5, <1>9, ToSetConcat
  <2>. QED
    BY <1>4, <1>7, <1>8, <1>9, <1>10, <2>1
<1>12. TcpFlags = {"FIN", "SYN", "RST", "PSH", "ACK", "URG", "ECE", "CWR"}
  BY DEF TcpFlags, ToSet, BaseFlags
<1>13. writes # <<>>
  <2>1. "seen" \in ToSet(writes)
    BY <1>6, <1>11
  <2>. QED
    BY <2>1, ToSetOne
<1>. QED
  BY <1>2, <1>6, <1>11, <1>12, <1>13

LEMMA ParsedPacket ==
    ASSUME NEW f \in Frames, Parses(f)
    PROVE  Parsed(f) \in Packet
BY LiveFlowConstants DEF Parses, Parsed, Packet

-----------------------------------------------------------------------------
(* The writes of add_packet after the first.                               *)

LEMMA MaxOfTwo ==
    ASSUME NEW x \in Int, NEW y \in Int
    PROVE  Max({x, y}) \in {x, y} /\ Max({x, y}) >= x /\ Max({x, y}) >= y
<1>1. \E m \in {x, y} : \A z \in {x, y} : m >= z
  <2>1. CASE x >= y
    BY <2>1
  <2>2. CASE y >= x
    BY <2>2
  <2>. QED
    BY <2>1, <2>2
<1>. QED
  BY <1>1 DEF Max

LEMMA WithIs ==
    ASSUME NEW f, NEW x, NEW value
    PROVE  /\ DOMAIN With(f, x, value) = DOMAIN f \cup {x}
           /\ \A y \in DOMAIN f : With(f, x, value)[y] = f[y]
           /\ x \notin DOMAIN f => With(f, x, value)[x] = value
BY DEF With, Joined

LEMMA FlowFields ==
    ASSUME FlowType(flow, packets)
    PROVE  /\ flow.initiator = packets[1].from /\ flow.started = packets[1].time
           /\ flow.lastSeen \in Nat
           /\ flow.lengths \in [Sides -> Seq(Nat)] /\ flow.stamps \in [Sides -> Seq(Nat)]
           /\ flow.psh \in [Sides -> Nat] /\ flow.urg \in [Sides -> Nat]
           /\ flow.keys \in Seq(TcpFlags) /\ flow.counts \in [ToSet(flow.keys) -> Nat]
BY DEF FlowType

\* The write at the head of the queue of writes, and the packet it is about.
LEMMA NextWrite ==
    ASSUME PlaceInv, AddingInv, FlowInv, adding # Nothing
    PROVE  /\ adding.packet = packets[Len(packets)] /\ adding.packet \in Packet
           /\ packets # <<>> /\ Len(packets) \in DOMAIN packets /\ place = "table"
           /\ Head(adding.writes) \in WriteNames
           /\ Tail(adding.writes) \in Seq(WriteNames)
           /\ ToSet(adding.writes) = {Head(adding.writes)} \cup ToSet(Tail(adding.writes))
           /\ Head(adding.writes) = "psh" => "PSH" \in adding.packet.flags
           /\ Head(adding.writes) = "urg" => "URG" \in adding.packet.flags
           /\ Head(adding.writes) \in TcpFlags => Head(adding.writes) \in adding.packet.flags
           /\ Side(flow, adding.packet) \in Sides
           /\ Len(packets) \in OnSide(packets, Side(flow, adding.packet))
<1>1. /\ place = "table" /\ adding.packet = packets[Len(packets)]
      /\ adding.writes \in Seq(WriteNames) /\ adding.writes # <<>>
  BY DEF AddingInv
<1>2. packets # <<>> /\ packets \in Seq(Packet)
  BY <1>1 DEF PlaceInv
<1>3. Len(packets) \in DOMAIN packets
  BY <1>2
<1>4. adding.packet \in Packet
  BY <1>1, <1>2, <1>3, PacketAt
<1>5. /\ Head(adding.writes) \in WriteNames /\ Tail(adding.writes) \in Seq(WriteNames)
      /\ ToSet(adding.writes) = {Head(adding.writes)} \cup ToSet(Tail(adding.writes))
  BY <1>1, HeadTail
<1>6. flow.initiator = packets[1].from
  BY <1>1, FlowFields DEF FlowInv
<1>7. /\ Side(flow, adding.packet) \in Sides
      /\ Len(packets) \in OnSide(packets, Side(flow, adding.packet))
  BY <1>1, <1>3, <1>6 DEF Side, Sides, OnSide
<1>8. /\ ToSet(adding.writes) \cap TcpFlags \subseteq adding.packet.flags
      /\ "psh" \in ToSet(adding.writes) => "PSH" \in adding.packet.flags
      /\ "urg" \in ToSet(adding.writes) => "URG" \in adding.packet.flags
  BY DEF AddingInv
<1>. QED
  BY <1>1, <1>2, <1>3, <1>4, <1>5, <1>7, <1>8

\* What is done after a write was done before it, or is that write.
LEMMA DoneMore ==
    ASSUME packets' = packets,
           ToSet(adding.writes) = {Head(adding.writes)} \cup ToSet(Tail(adding.writes)),
           ToSet(adding'.writes) = ToSet(Tail(adding.writes)),
           NEW i, NEW x, Done(i, x)'
    PROVE  Done(i, x) \/ x = Head(adding.writes)
BY DEF Done

LEMMA CountedFields ==
    ASSUME FlowType(flow, packets), NEW x \in TcpFlags, NEW f, f = Counted(flow, x)
    PROVE  /\ f.protocol = flow.protocol /\ f.initiator = flow.initiator
           /\ f.started = flow.started /\ f.lastSeen = flow.lastSeen
           /\ f.lengths = flow.lengths /\ f.stamps = flow.stamps
           /\ f.psh = flow.psh /\ f.urg = flow.urg
           /\ f \in [protocol : {"TCP", "UDP", "ICMP"}, initiator : {packets[1].from},
                     started : {packets[1].time}, lastSeen : Nat,
                     lengths : [Sides -> Seq(Nat)], stamps : [Sides -> Seq(Nat)],
                     psh : [Sides -> Nat], urg : [Sides -> Nat],
                     keys : Seq(TcpFlags), counts : [ToSet(f.keys) -> Nat]]
           /\ ToSet(f.keys) = ToSet(flow.keys) \cup {x}
           /\ f.counts[x] > 0
           /\ \A y \in ToSet(flow.keys) : y # x => f.counts[y] = flow.counts[y]
           /\ x \in ToSet(flow.keys) => f.keys = flow.keys
           /\ x \notin ToSet(flow.keys) => f.keys = Append(flow.keys, x)
<1>1. /\ flow.keys \in Seq(TcpFlags) /\ flow.counts \in [ToSet(flow.keys) -> Nat]
  BY FlowFields
<1>2. CASE x \in ToSet(flow.keys)
  <2> DEFINE c == [flow.counts EXCEPT ![x] = @ + 1]
  <2>1. f = [flow EXCEPT !.counts = c]
    BY <1>1, <1>2 DEF Counted
  <2>2. /\ c \in [ToSet(flow.keys) -> Nat] /\ c[x] > 0
        /\ \A y \in ToSet(flow.keys) : y # x => c[y] = flow.counts[y]
    BY <1>1, <1>2
  <2> HIDE DEF c
  <2>3. f.counts = c /\ f.keys = flow.keys
    BY <2>1 DEF FlowType
  <2>4. f \in [protocol : {"TCP", "UDP", "ICMP"}, initiator : {packets[1].from},
                  started : {packets[1].time}, lastSeen : Nat,
                  lengths : [Sides -> Seq(Nat)], stamps : [Sides -> Seq(Nat)],
                  psh : [Sides -> Nat], urg : [Sides -> Nat],
                  keys : Seq(TcpFlags), counts : [ToSet(f.keys) -> Nat]]
    BY <2>1, <2>2, <2>3 DEF FlowType
  <2>5. /\ f.protocol = flow.protocol /\ f.initiator = flow.initiator
        /\ f.started = flow.started /\ f.lastSeen = flow.lastSeen
        /\ f.lengths = flow.lengths /\ f.stamps = flow.stamps
        /\ f.psh = flow.psh /\ f.urg = flow.urg
    BY <2>1 DEF FlowType
  <2>. QED
    BY <1>2, <2>2, <2>3, <2>4, <2>5
<1>3. CASE x \notin ToSet(flow.keys)
  <2> DEFINE c == With(flow.counts, x, 1)
             k == Append(flow.keys, x)
  <2>1. f = [flow EXCEPT !.keys = k, !.counts = c]
    BY <1>1, <1>3 DEF Counted
  <2>2. k \in Seq(TcpFlags) /\ ToSet(k) = ToSet(flow.keys) \cup {x}
    BY <1>1, ToSetAppend
  <2>3. /\ c \in [ToSet(flow.keys) \cup {x} -> Nat] /\ c[x] > 0
        /\ \A y \in ToSet(flow.keys) : c[y] = flow.counts[y]
    BY <1>1, <1>3 DEF With, Joined
  <2> HIDE DEF c
  <2>4. f.counts = c /\ f.keys = Append(flow.keys, x)
    BY <2>1 DEF FlowType
  <2> HIDE DEF k
  <2>5. f.keys = k
    BY <2>4 DEF k
  <2>6. f \in [protocol : {"TCP", "UDP", "ICMP"}, initiator : {packets[1].from},
                  started : {packets[1].time}, lastSeen : Nat,
                  lengths : [Sides -> Seq(Nat)], stamps : [Sides -> Seq(Nat)],
                  psh : [Sides -> Nat], urg : [Sides -> Nat],
                  keys : Seq(TcpFlags), counts : [ToSet(f.keys) -> Nat]]
    BY <2>1, <2>2, <2>3, <2>4, <2>5 DEF FlowType
  <2>7. /\ f.protocol = flow.protocol /\ f.initiator = flow.initiator
        /\ f.started = flow.started /\ f.lastSeen = flow.lastSeen
        /\ f.lengths = flow.lengths /\ f.stamps = flow.stamps
        /\ f.psh = flow.psh /\ f.urg = flow.urg
    BY <2>1 DEF FlowType
  <2>. QED
    BY <1>3, <2>2, <2>3, <2>4, <2>5, <2>6, <2>7
<1>. QED
  BY <1>2, <1>3

\* What a further write leaves of the invariant of the flow.
LEMMA WrittenKeepsFlow ==
    ASSUME PlaceInv, AddingInv, FlowInv, adding # Nothing,
           packets' = packets, place' # "none",
           flow' = Written(flow, adding.packet, Head(adding.writes)),
           ToSet(adding'.writes) = ToSet(Tail(adding.writes))
    PROVE  FlowInv'
<1> DEFINE p == adding.packet
           w == Head(adding.writes)
           n == Len(packets)
           here == Side(flow, p)
<1>1. /\ p = packets[n] /\ p \in Packet /\ n \in DOMAIN packets
      /\ w \in WriteNames
      /\ w = "psh" => "PSH" \in p.flags
      /\ w = "urg" => "URG" \in p.flags
      /\ w \in TcpFlags => w \in p.flags
      /\ here \in Sides /\ n \in OnSide(packets, here)
  BY NextWrite
<1>2. /\ place = "table" /\ FlowType(flow, packets)
      /\ LengthsInv(flow) /\ PshInv(flow) /\ UrgInv(flow) /\ CountsInv(flow) /\ SeenInv(flow)
  BY NextWrite DEF FlowInv
<1>3. \A i, x : Done(i, x)' => Done(i, x) \/ x = w
  BY NextWrite, DoneMore
<1>4. \A i \in DOMAIN packets : packets[i].flags \subseteq TcpFlags /\ packets[i].time \in Nat
  BY PacketAt DEF PlaceInv
<1>5. \A side \in Sides : OnSide(packets, side) \subseteq DOMAIN packets
  BY DEF OnSide
<1>6. \A i \in OnSide(packets, here) : i \in DOMAIN packets
  BY DEF OnSide
<1>7. TcpFlags = {"FIN", "SYN", "RST", "PSH", "ACK", "URG", "ECE", "CWR"}
  BY DEF TcpFlags, ToSet, BaseFlags
<1>8. ASSUME flow'.lengths = flow.lengths PROVE LengthsInv(flow)'
  BY <1>2, <1>8 DEF LengthsInv
<1>9. ASSUME flow'.psh = flow.psh, w # "psh" PROVE PshInv(flow)'
  BY <1>2, <1>3, <1>9 DEF PshInv
<1>10. ASSUME flow'.urg = flow.urg, w # "urg" PROVE UrgInv(flow)'
  BY <1>2, <1>3, <1>10 DEF UrgInv
<1>11. ASSUME flow'.keys = flow.keys, flow'.counts = flow.counts, w \notin TcpFlags
       PROVE  CountsInv(flow)'
  BY <1>2, <1>3, <1>4, <1>11 DEF CountsInv
<1>12. ASSUME flow'.lastSeen = flow.lastSeen, w # "seen" PROVE SeenInv(flow)'
  BY <1>2, <1>3, <1>12 DEF SeenInv
<1> HIDE DEF p, w, here, n
<1>13. flow' = Written(flow, p, w)
  BY DEF p, w
<1>14. CASE w = "stamp"
  <2> DEFINE v == Append(flow.stamps[here], p.time)
             c == [flow.stamps EXCEPT ![here] = v]
  <2>1. flow' = [flow EXCEPT !.stamps = c]
    BY <1>2, <1>13, <1>14 DEF Written, here, FlowType
  <2>2. c \in [Sides -> Seq(Nat)]
    BY <1>1, <1>2, FlowFields DEF Packet
  <2> HIDE DEF c
  <2>3. /\ flow'.lengths = flow.lengths /\ flow'.psh = flow.psh /\ flow'.urg = flow.urg
        /\ flow'.keys = flow.keys /\ flow'.counts = flow.counts
        /\ flow'.lastSeen = flow.lastSeen
    BY <1>2, <2>1 DEF FlowType
  <2>4. FlowType(flow, packets)'
    BY <1>2, <2>1, <2>2, <2>3 DEF FlowType
  <2>. QED
    BY <1>7, <1>8, <1>9, <1>10, <1>11, <1>12, <1>14, <2>3, <2>4 DEF FlowInv
<1>15. CASE w = "psh"
  <2> DEFINE c == [flow.psh EXCEPT ![here] = @ + 1]
  <2>1. flow' = [flow EXCEPT !.psh = c]
    BY <1>2, <1>13, <1>15 DEF Written, here, FlowType
  <2>2. /\ c \in [Sides -> Nat] /\ c[here] > 0
        /\ \A side \in Sides : side # here => c[side] = flow.psh[side]
    BY <1>1, <1>2, FlowFields
  <2> HIDE DEF c
  <2>3. /\ flow'.lengths = flow.lengths /\ flow'.psh = c /\ flow'.urg = flow.urg
        /\ flow'.keys = flow.keys /\ flow'.counts = flow.counts
        /\ flow'.lastSeen = flow.lastSeen
    BY <1>2, <2>1 DEF FlowType
  <2>4. FlowType(flow, packets)'
    BY <1>2, <2>1, <2>2, <2>3 DEF FlowType
  <2>5. ASSUME NEW side \in Sides
        PROVE  /\ \A i \in OnSide(packets, side) :
                    Done(i, "psh")' /\ "PSH" \in packets[i].flags => c[side] > 0
               /\ c[side] > 0 => \E i \in OnSide(packets, side) : "PSH" \in packets[i].flags
    <3>1. CASE side = here
      BY <1>1, <1>15, <2>2, <3>1
    <3>2. CASE side # here
      <4>1. c[side] = flow.psh[side]
        BY <2>2, <3>2
      <4>2. ASSUME NEW i \in OnSide(packets, side), Done(i, "psh")', "PSH" \in packets[i].flags
            PROVE  c[side] > 0
        <5>1. i # n
          BY <1>1, <1>2, <3>2, <4>2, FlowFields DEF here, Side, Sides, OnSide
        <5>2. i < n
          <6>1. i \in DOMAIN packets
            BY <1>5, <4>2
          <6>2. DOMAIN packets = 1..n /\ n \in Nat
            BY DEF PlaceInv, n
          <6>. QED
            BY <5>1, <6>1, <6>2
        <5>3. Done(i, "psh")
          BY <5>2 DEF Done, n
        <5>. QED
          BY <1>2, <4>1, <4>2, <5>3 DEF PshInv
      <4>3. c[side] > 0 => \E i \in OnSide(packets, side) : "PSH" \in packets[i].flags
        BY <1>2, <4>1 DEF PshInv
      <4>. QED
        BY <4>2, <4>3
    <3>. QED
      BY <3>1, <3>2
  <2>6. PshInv(flow)'
    BY <2>3, <2>5 DEF PshInv
  <2>. QED
    BY <1>7, <1>8, <1>10, <1>11, <1>12, <1>15, <2>3, <2>4, <2>6 DEF FlowInv
<1>16. CASE w = "urg"
  <2> DEFINE c == [flow.urg EXCEPT ![here] = @ + 1]
  <2>1. flow' = [flow EXCEPT !.urg = c]
    BY <1>2, <1>13, <1>16 DEF Written, here, FlowType
  <2>2. /\ c \in [Sides -> Nat] /\ c[here] > 0
        /\ \A side \in Sides : side # here => c[side] = flow.urg[side]
    BY <1>1, <1>2, FlowFields
  <2> HIDE DEF c
  <2>3. /\ flow'.lengths = flow.lengths /\ flow'.urg = c /\ flow'.psh = flow.psh
        /\ flow'.keys = flow.keys /\ flow'.counts = flow.counts
        /\ flow'.lastSeen = flow.lastSeen
    BY <1>2, <2>1 DEF FlowType
  <2>4. FlowType(flow, packets)'
    BY <1>2, <2>1, <2>2, <2>3 DEF FlowType
  <2>5. ASSUME NEW side \in Sides
        PROVE  /\ \A i \in OnSide(packets, side) :
                    Done(i, "urg")' /\ "URG" \in packets[i].flags => c[side] > 0
               /\ c[side] > 0 => \E i \in OnSide(packets, side) : "URG" \in packets[i].flags
    <3>1. CASE side = here
      BY <1>1, <1>16, <2>2, <3>1
    <3>2. CASE side # here
      <4>1. c[side] = flow.urg[side]
        BY <2>2, <3>2
      <4>2. ASSUME NEW i \in OnSide(packets, side), Done(i, "urg")', "URG" \in packets[i].flags
            PROVE  c[side] > 0
        <5>1. i # n
          BY <1>1, <1>2, <3>2, <4>2, FlowFields DEF here, Side, Sides, OnSide
        <5>2. i < n
          <6>1. i \in DOMAIN packets
            BY <1>5, <4>2
          <6>2. DOMAIN packets = 1..n /\ n \in Nat
            BY DEF PlaceInv, n
          <6>. QED
            BY <5>1, <6>1, <6>2
        <5>3. Done(i, "urg")
          BY <5>2 DEF Done, n
        <5>. QED
          BY <1>2, <4>1, <4>2, <5>3 DEF UrgInv
      <4>3. c[side] > 0 => \E i \in OnSide(packets, side) : "URG" \in packets[i].flags
        BY <1>2, <4>1 DEF UrgInv
      <4>. QED
        BY <4>2, <4>3
    <3>. QED
      BY <3>1, <3>2
  <2>6. UrgInv(flow)'
    BY <2>3, <2>5 DEF UrgInv
  <2>. QED
    BY <1>7, <1>8, <1>9, <1>11, <1>12, <1>16, <2>3, <2>4, <2>6 DEF FlowInv
<1>17. CASE w = "seen"
  <2> DEFINE c == Max({flow.lastSeen, p.time})
  <2>1. flow' = [flow EXCEPT !.lastSeen = c]
    BY <1>2, <1>13, <1>17 DEF Written, FlowType
  <2>2. flow.lastSeen \in Nat /\ p.time \in Nat
    BY <1>1, <1>2, FlowFields DEF Packet
  <2>3. c \in {flow.lastSeen, p.time} /\ c >= flow.lastSeen /\ c >= p.time
    <3>1. PICK x \in Int, y \in Int : x = flow.lastSeen /\ y = p.time
      BY <2>2
    <3>2. Max({x, y}) \in {x, y} /\ Max({x, y}) >= x /\ Max({x, y}) >= y
      BY MaxOfTwo
    <3>. QED
      BY <3>1, <3>2
  <2> HIDE DEF c
  <2>4. /\ flow'.lengths = flow.lengths /\ flow'.psh = flow.psh /\ flow'.urg = flow.urg
        /\ flow'.keys = flow.keys /\ flow'.counts = flow.counts
        /\ flow'.lastSeen = c
    BY <1>2, <2>1 DEF FlowType
  <2>5. FlowType(flow, packets)'
    BY <1>2, <2>1, <2>2, <2>3, <2>4 DEF FlowType
  <2>6. ASSUME NEW i \in DOMAIN packets, Done(i, "seen")'
        PROVE  packets[i].time <= c
    <3>1. CASE i = n
      BY <1>1, <2>3, <3>1
    <3>2. CASE i # n
      <4>1. DOMAIN packets = 1..n /\ n \in Nat
        BY DEF PlaceInv, n
      <4>2. Done(i, "seen")
        BY <3>2, <4>1 DEF Done, n
      <4>3. packets[i].time <= flow.lastSeen /\ packets[i].time \in Nat
        BY <1>2, <1>4, <4>2 DEF SeenInv
      <4>. QED
        BY <2>2, <2>3, <4>3
    <3>. QED
      BY <3>1, <3>2
  <2>7. c > 0 => \E i \in DOMAIN packets : packets[i].time = c
    BY <1>1, <1>2, <2>3 DEF SeenInv
  <2>8. SeenInv(flow)'
    BY <2>4, <2>6, <2>7 DEF SeenInv
  <2>. QED
    BY <1>7, <1>8, <1>9, <1>10, <1>11, <1>17, <2>4, <2>5, <2>8 DEF FlowInv
<1>18. CASE w \in TcpFlags
  <2>1. flow' = Counted(flow, w)
    BY <1>7, <1>13, <1>18 DEF Written
  <2>2. /\ flow'.lengths = flow.lengths /\ flow'.psh = flow.psh /\ flow'.urg = flow.urg
        /\ flow'.lastSeen = flow.lastSeen
        /\ ToSet(flow'.keys) = ToSet(flow.keys) \cup {w}
        /\ flow'.counts[w] > 0
        /\ \A y \in ToSet(flow.keys) : y # w => flow'.counts[y] = flow.counts[y]
    BY <1>2, <1>18, <2>1, CountedFields
  <2>3. FlowType(flow, packets)'
    BY <1>2, <1>18, <2>1, CountedFields DEF FlowType
  <2>4. ASSUME NEW i \in DOMAIN packets, NEW x \in packets[i].flags, Done(i, x)'
        PROVE  x \in ToSet(flow'.keys) /\ flow'.counts[x] > 0
    <3>1. CASE x = w
      BY <2>2, <3>1
    <3>2. CASE x # w
      <4>1. Done(i, x)
        BY <1>3, <2>4, <3>2
      <4>2. x \in ToSet(flow.keys) /\ flow.counts[x] > 0
        BY <1>2, <4>1 DEF CountsInv
      <4>. QED
        BY <2>2, <3>2, <4>2
    <3>. QED
      BY <3>1, <3>2
  <2>5. ASSUME NEW x \in ToSet(flow'.keys), flow'.counts[x] > 0
        PROVE  \E i \in DOMAIN packets : x \in packets[i].flags
    <3>1. CASE x = w
      BY <1>1, <1>18, <3>1
    <3>2. CASE x # w
      BY <1>2, <2>2, <2>5, <3>2 DEF CountsInv
    <3>. QED
      BY <3>1, <3>2
  <2>6. CountsInv(flow)'
    BY <1>2, <2>2, <2>4, <2>5 DEF CountsInv
  <2>. QED
    BY <1>7, <1>8, <1>9, <1>10, <1>12, <1>18, <2>2, <2>3, <2>6 DEF FlowInv
<1>. QED
  BY <1>1, <1>14, <1>15, <1>16, <1>17, <1>18 DEF WriteNames

-----------------------------------------------------------------------------
(* The arrival of a packet and the first write of add_packet.              *)

\* The flow a packet is added to, the one there is or a new one, has the same
\* invariant: a new one is the flow of no packets at all.
Joins(p, f, t) ==
    /\ p \in Packet
    /\ f = IF place = "none" THEN NewFlow(p) ELSE flow
    /\ t = Append(packets, p)

LEMMA BeforeArrival ==
    ASSUME PlaceInv, FlowInv, NEW p, NEW f, NEW t, Joins(p, f, t)
    PROVE  /\ FlowType(f, t)
           /\ LengthsInv(f) /\ PshInv(f) /\ UrgInv(f) /\ CountsInv(f) /\ SeenInv(f)
           /\ Side(f, p) \in Sides
           /\ \A side \in Sides :
                OnSide(t, side) = OnSide(packets, side) \cup
                    (IF side = Side(f, p) THEN {Len(packets) + 1} ELSE {})
<1>1. packets \in Seq(Packet) /\ Side(f, p) \in Sides
  BY DEF PlaceInv, Side, Sides
<1>. USE DEF Joins
<1>2. CASE place # "none"
  <2>1. packets # <<>> /\ f = flow
    BY <1>2 DEF PlaceInv
  <2>2. Adds(packets, p, t)
    BY <1>1 DEF Adds
  <2>3. 1 \in 1..Len(packets) /\ t[1] = packets[1]
    BY <1>1, <2>1, <2>2, Grown
  <2>4. FlowType(f, packets)
    BY <1>2, <2>1 DEF FlowInv
  <2>5. FlowType(f, t)
    BY <2>3, <2>4 DEF FlowType
  <2>6. f.initiator = packets[1].from
    BY <2>4 DEF FlowType
  <2>7. \A side \in Sides : (side = Side(f, p)) <=> ((p.from = packets[1].from) <=> (side = "fwd"))
    BY <2>6 DEF Side, Sides
  <2>8. \A side \in Sides :
          OnSide(t, side) = OnSide(packets, side) \cup
              (IF side = Side(f, p) THEN {Len(packets) + 1} ELSE {})
    <3>1. \A side \in Sides :
            OnSide(t, side) = OnSide(packets, side) \cup
              (IF (p.from = packets[1].from) <=> (side = "fwd") THEN {Len(packets) + 1} ELSE {})
      BY <1>1, <2>1, OnSideAppend
    <3>. QED
      BY <2>7, <3>1
  <2>. QED
    BY <1>1, <1>2, <2>1, <2>5, <2>8 DEF FlowInv
<1>3. CASE place = "none"
  <2>1. packets = <<>> /\ f = NewFlow(p) /\ t = <<p>>
    BY <1>3 DEF PlaceInv
  <2>2. FlowType(f, t)
    <3>2. BaseFlags \in Seq(TcpFlags)
      BY DEF BaseFlags, TcpFlags, ToSet
    <3>3. t[1] = p /\ p.protocol \in {"TCP", "UDP", "ICMP"}
      BY <2>1 DEF Packet
    <3>6. f.initiator = p.from /\ f.started = p.time /\ p.from = t[1].from /\ p.time = t[1].time
      BY <2>1, <3>3 DEF NewFlow
    <3> DEFINE e == [x \in Sides |-> <<>>]
               z == [x \in Sides |-> 0]
               c == [y \in ToSet(BaseFlags) |-> 0]
    <3>7. e \in [Sides -> Seq(Nat)] /\ z \in [Sides -> Nat] /\ c \in [ToSet(BaseFlags) -> Nat]
      OBVIOUS
    <3>8. f = [protocol |-> p.protocol, initiator |-> p.from, started |-> p.time, lastSeen |-> 0,
               lengths |-> e, stamps |-> e, psh |-> z, urg |-> z,
               keys |-> BaseFlags, counts |-> c]
      BY <2>1 DEF NewFlow
    <3> HIDE DEF e, z, c
    <3>9. f.keys = BaseFlags
      BY <3>8
    <3>. QED
      BY <3>2, <3>3, <3>6, <3>7, <3>8, <3>9 DEF FlowType
  <2>3. \A side \in Sides : f.lengths[side] = <<>> /\ f.psh[side] = 0 /\ f.urg[side] = 0
    BY <2>1 DEF NewFlow
  <2>4. /\ f.keys = BaseFlags /\ f.lastSeen = 0 /\ f.initiator = p.from
        /\ \A x \in ToSet(BaseFlags) : f.counts[x] = 0
    BY <2>1 DEF NewFlow
  <2>5. DOMAIN packets = {} /\ Len(packets) = 0 /\ \A side : OnSide(packets, side) = {}
    BY <2>1 DEF OnSide
  <2>6. LengthsInv(f)
    <3>1. Bytes(packets, {}) = 0
      <4>1. [i \in DOMAIN packets |-> IF i \in {} THEN packets[i].length ELSE 0] = <<>>
        BY <2>1
      <4>. QED
        BY <4>1, SumEmpty DEF Bytes
    <3>2. Fit(<<>>) = 0
      <4>1. [i \in DOMAIN <<>> |-> IF <<>>[i] <= 1514 THEN 1 ELSE 0] = <<>>
        OBVIOUS
      <4>. QED
        BY <4>1, SumEmpty DEF Fit
    <3>3. Fitting(packets, {}) = 0 /\ Cardinality({}) = 0
      <4>1. {i \in {} : packets[i].length <= 1514} = {}
        OBVIOUS
      <4>. QED
        BY <4>1, FS_EmptySet DEF Fitting
    <3>4. ToSet(<<>>) = {} /\ Len(<<>>) = 0
      BY ToSetOne
    <3>5. {packets[i].length : i \in {}} = {}
      OBVIOUS
    <3>6. LengthsOf(<<>>, packets, {})
      BY <3>1, <3>2, <3>3, <3>4, <3>5, SumEmpty, Zenon DEF LengthsOf
    <3>. QED
      BY <2>3, <2>5, <3>6 DEF LengthsInv
  <2>7. PshInv(f) /\ UrgInv(f)
    BY <2>3, <2>5 DEF PshInv, UrgInv
  <2>8. CountsInv(f)
    BY <2>4, <2>5 DEF CountsInv
  <2>9. SeenInv(f)
    BY <2>4, <2>5 DEF SeenInv
  <2>10. \A side \in Sides :
          OnSide(t, side) = OnSide(packets, side) \cup
              (IF side = Side(f, p) THEN {Len(packets) + 1} ELSE {})
    <3>1. Side(f, p) = "fwd"
      BY <2>4 DEF Side
    <3>2. OnSide(t, "fwd") = {1} /\ OnSide(t, "bwd") = {}
      BY <2>1, OnSideOfOne
    <3>. QED
      BY <2>5, <3>1, <3>2 DEF Sides
  <2>. QED
    BY <1>1, <2>2, <2>6, <2>7, <2>8, <2>9, <2>10
<1>. QED
  BY <1>2, <1>3

\* One more length on a side, and one more packet.
LEMMA LengthAdded ==
    ASSUME NEW s, NEW p, NEW t, Adds(s, p, t), NEW lengths \in Seq(Nat),
           NEW I \in SUBSET DOMAIN s, LengthsOf(lengths, s, I)
    PROVE  LengthsOf(Append(lengths, p.length), t, I \cup {Len(s) + 1})
<1> DEFINE more == Append(lengths, p.length)
           J == I \cup {Len(s) + 1}
<1>0. /\ I \subseteq 1..Len(s)
      /\ Len(lengths) = Cardinality(I) /\ Sum(lengths) = Bytes(s, I)
      /\ Fit(lengths) = Fitting(s, I) /\ ToSet(lengths) = {s[i].length : i \in I}
  BY Grown DEF LengthsOf
<1>. USE <1>0
<1>1. /\ s \in Seq(Packet) /\ p \in Packet /\ t \in Seq(Packet)
      /\ Len(s) \in Nat /\ DOMAIN s = 1..Len(s) /\ DOMAIN t = 1..(Len(s) + 1)
      /\ t[Len(s) + 1] = p /\ \A i \in 1..Len(s) : t[i] = s[i]
  BY Grown
<1>2. p.length \in Nat /\ Len(s) + 1 \notin I
  BY <1>1 DEF Packet
<1>3. more \in Seq(Nat) /\ Len(more) = Len(lengths) + 1
  BY <1>2
<1>4. IsFiniteSet(I) /\ IsFiniteSet({Len(s) + 1})
  <2>1. IsFiniteSet(1..Len(s))
    BY <1>1, FS_Interval
  <2>. QED
    BY <2>1, FS_Subset, FS_Singleton
<1>5. Len(more) = Cardinality(J)
  <2>1. Cardinality(I \cup {Len(s) + 1}) = Cardinality(I) + 1
    BY <1>2, <1>4, FS_AddElement
  <2>. QED
    BY <1>3, <2>1
<1>6. Sum(more) = Bytes(t, J)
  <2>1. Sum(more) = Sum(lengths) + p.length
    BY <1>2, SumAppend
  <2>2. Bytes(t, J) = Bytes(s, J) + p.length
    <3>1. t = Append(s, p) /\ Len(s) + 1 \in J
      BY DEF Adds
    <3>. QED
      BY <1>1, <3>1, BytesAppend
  <2>3. Bytes(s, J) = Bytes(s, I)
    <3>1. \A i \in DOMAIN s : i \in J <=> i \in I
      BY <1>1
    <3>. QED
      BY <3>1, BytesSame
  <2>. QED
    BY <2>1, <2>2, <2>3
<1>7. Fit(more) = Fitting(t, J)
  <2> DEFINE x == IF p.length <= 1514 THEN 1 ELSE 0
             g == [i \in DOMAIN lengths |-> IF lengths[i] <= 1514 THEN 1 ELSE 0]
             h == [i \in DOMAIN more |-> IF more[i] <= 1514 THEN 1 ELSE 0]
  <2>1. x \in Nat /\ g \in Seq(Nat) /\ Len(g) = Len(lengths)
    OBVIOUS
  <2>2. h = Append(g, x)
    <3>1. /\ DOMAIN more = 1..(Len(lengths) + 1) /\ DOMAIN lengths = 1..Len(lengths)
          /\ more[Len(lengths) + 1] = p.length /\ Len(lengths) \in Nat
          /\ \A i \in 1..Len(lengths) : more[i] = lengths[i]
      BY <1>2
    <3>2. DOMAIN h = 1..(Len(lengths) + 1)
      BY <3>1
    <3>3. Append(g, x) \in Seq(Nat) /\ DOMAIN Append(g, x) = 1..(Len(lengths) + 1)
      BY <2>1
    <3>4. ASSUME NEW i \in 1..(Len(lengths) + 1) PROVE h[i] = Append(g, x)[i]
      <4>1. CASE i = Len(lengths) + 1
        BY <2>1, <3>1, <4>1
      <4>2. CASE i \in 1..Len(lengths)
        BY <2>1, <3>1, <4>2
      <4>. QED
        BY <3>1, <4>1, <4>2
    <3>5. h = [i \in 1..(Len(lengths) + 1) |-> h[i]]
      BY <3>2
    <3>6. Append(g, x) = [i \in 1..(Len(lengths) + 1) |-> Append(g, x)[i]]
      BY <3>3
    <3> HIDE DEF h, g, x
    <3>. QED
      BY <3>4, <3>5, <3>6
  <2>3. Fit(more) = Fit(lengths) + x
    <3> HIDE DEF h, g, x
    <3>1. Sum(h) = Sum(g) + x
      BY <2>1, <2>2, SumAppend
    <3>. QED
      BY <3>1 DEF Fit, h, g
  <2> HIDE DEF x, g, h
  <2>4. Fitting(t, J) = Fitting(t, I) + Fitting(t, {Len(s) + 1})
    <3>1. I \cap {Len(s) + 1} = {}
      BY <1>2
    <3>2. Fitting(t, I \cup {Len(s) + 1}) = Fitting(t, I) + Fitting(t, {Len(s) + 1})
      BY <1>4, <3>1, FittingDisjoint
    <3>. QED
      BY <3>2
  <2>5. Fitting(t, I) = Fitting(s, I)
    <3>1. \A i \in I : s[i].length \in Nat /\ t[i].length = s[i].length
      BY <1>1, PacketAt
    <3>. QED
      BY <3>1, FittingSame
  <2>6. Fitting(t, {Len(s) + 1}) = x
    <3>1. CASE p.length <= 1514
      <4>1. {i \in {Len(s) + 1} : t[i].length <= 1514} = {Len(s) + 1}
        BY <1>1, <3>1
      <4>2. x = 1
        BY <3>1 DEF x
      <4>3. Cardinality({Len(s) + 1}) = 1
        BY FS_Singleton, Zenon
      <4>. QED
        BY <4>1, <4>2, <4>3 DEF Fitting
    <3>2. CASE ~(p.length <= 1514)
      <4>1. {i \in {Len(s) + 1} : t[i].length <= 1514} = {}
        BY <1>1, <3>2
      <4>2. x = 0 /\ Cardinality({}) = 0
        BY <3>2, FS_EmptySet DEF x
      <4>. QED
        BY <4>1, <4>2 DEF Fitting
    <3>. QED
      BY <3>1, <3>2
  <2>. QED
    BY <2>3, <2>4, <2>5, <2>6
<1>8. ToSet(more) = {t[i].length : i \in J}
  <2>1. ToSet(more) = ToSet(lengths) \cup {p.length}
    BY ToSetAppend
  <2>2. {t[i].length : i \in J} = {s[i].length : i \in I} \cup {p.length}
    BY <1>1
  <2>. QED
    BY <2>1, <2>2
<1>. QED
  BY <1>5, <1>6, <1>7, <1>8 DEF LengthsOf

\* What the arrival of a packet leaves of the invariant of the flow: its other
\* fields say nothing yet of the new packet.
LEMMA ArrivalKeepsFlow ==
    ASSUME PlaceInv, FlowInv, adding = Nothing, NEW p \in Packet, NEW f,
           f = IF place = "none" THEN NewFlow(p) ELSE flow,
           flow' = Lengthened(f, p), packets' = Append(packets, p), place' = "table",
           NEW writes \in WriteOrders(p), adding' = [packet |-> p, writes |-> writes]
    PROVE  FlowInv'
<1> DEFINE n == Len(packets)
           t == Append(packets, p)
           here == Side(f, p)
           more == Append(f.lengths[here], p.length)
           c == [f.lengths EXCEPT ![here] = more]
<1>0. t = Append(packets, p) /\ here = Side(f, p) /\ Joins(p, f, t)
  BY DEF Joins
<1> HIDE DEF t, here
<1>1. /\ FlowType(f, t)
      /\ LengthsInv(f) /\ PshInv(f) /\ UrgInv(f) /\ CountsInv(f) /\ SeenInv(f)
      /\ here \in Sides
      /\ \A side \in Sides :
           OnSide(t, side) = OnSide(packets, side) \cup (IF side = here THEN {n + 1} ELSE {})
  BY <1>0, BeforeArrival
<1>2. /\ Adds(packets, p, t) /\ packets \in Seq(Packet) /\ t \in Seq(Packet) /\ n \in Nat
      /\ DOMAIN packets = 1..n /\ DOMAIN t = 1..(n + 1)
      /\ t[n + 1] = p /\ \A i \in 1..n : t[i] = packets[i]
  <2>1. Adds(packets, p, t)
    BY <1>0 DEF Adds, PlaceInv
  <2>. QED
    BY <2>1, Grown
<1>3. \A i, x : Done(i, x)
  <2>1. ToSet(adding.writes) = {}
    BY ToSetOne DEF Nothing
  <2>. QED
    BY <2>1 DEF Done
<1>4. \A i, x : Done(i, x)' <=> i < n + 1 \/ x \notin ToSet(writes)
  <2>1. Len(packets') = n + 1
    BY <1>2
  <2>. QED
    BY <2>1 DEF Done
<1>5. /\ p.flags \cup {"seen"} \subseteq ToSet(writes)
      /\ "psh" \in ToSet(writes) <=> "PSH" \in p.flags
      /\ "urg" \in ToSet(writes) <=> "URG" \in p.flags
  BY WritesOf
<1>6. flow' = [f EXCEPT !.lengths = c]
  BY <1>1 DEF Lengthened, FlowType, here
<1>7. f.lengths \in [Sides -> Seq(Nat)] /\ p.length \in Nat
  BY <1>1 DEF FlowType, Packet
<1>8. /\ more \in Seq(Nat) /\ c \in [Sides -> Seq(Nat)] /\ c[here] = more
      /\ \A side \in Sides : side # here => c[side] = f.lengths[side]
  BY <1>1, <1>7
<1>9. \A side \in Sides : OnSide(packets, side) \subseteq 1..n
  BY <1>2, OnSideOf
<1>10. \A side \in Sides : \A i \in OnSide(packets, side) : t[i] = packets[i]
  BY <1>2, <1>9
<1>11. packets' = t
  BY <1>0
<1> HIDE DEF c, more
<1>12. /\ flow'.lengths = c /\ flow'.psh = f.psh /\ flow'.urg = f.urg
       /\ flow'.keys = f.keys /\ flow'.counts = f.counts /\ flow'.lastSeen = f.lastSeen
  BY <1>1, <1>6 DEF FlowType
<1>13. FlowType(flow, packets)'
  BY <1>1, <1>6, <1>8, <1>11, <1>12 DEF FlowType
<1>14. LengthsInv(flow)'
  <2>1. SUFFICES ASSUME NEW side \in Sides
                 PROVE  LengthsOf(c[side], t, OnSide(t, side))
    BY <1>11, <1>12 DEF LengthsInv
  <2> DEFINE I == OnSide(packets, side)
             l == f.lengths[side]
  <2>2. l \in Seq(Nat) /\ I \in SUBSET DOMAIN packets /\ LengthsOf(l, packets, I)
    BY <1>1, <1>2, <1>7, <1>9 DEF LengthsInv
  <2>3. CASE side = here
    <3>1. OnSide(t, side) = I \cup {Len(packets) + 1} /\ c[side] = Append(l, p.length)
      BY <1>1, <1>8, <2>3 DEF more
    <3> HIDE DEF I, l
    <3>2. LengthsOf(Append(l, p.length), t, I \cup {Len(packets) + 1})
      BY <1>2, <2>2, LengthAdded
    <3>. QED
      BY <3>1, <3>2
  <2>4. CASE side # here
    <3>1. OnSide(t, side) = I /\ c[side] = l
      BY <1>1, <1>8, <2>4
    <3>2. {t[i].length : i \in I} = {packets[i].length : i \in I}
      BY <1>10
    <3>3. \A i \in I : i \in DOMAIN packets
      BY <2>2
    <3> HIDE DEF I, l
    <3>4. Bytes(t, I) = Bytes(packets, I) /\ Fitting(t, I) = Fitting(packets, I)
      BY <1>2, <3>3, GrownSums
    <3>5. LengthsOf(l, t, I)
      BY <2>2, <3>2, <3>4 DEF LengthsOf
    <3>. QED
      BY <3>1, <3>5
  <2>. QED
    BY <2>3, <2>4
<1>15. PshInv(flow)'
  <2>1. SUFFICES ASSUME NEW side \in Sides
                 PROVE  /\ \A i \in OnSide(t, side) :
                             Done(i, "psh")' /\ "PSH" \in t[i].flags => f.psh[side] > 0
                        /\ f.psh[side] > 0 => \E i \in OnSide(t, side) : "PSH" \in t[i].flags
    BY <1>11, <1>12 DEF PshInv
  <2>2. /\ \A i \in OnSide(packets, side) : "PSH" \in packets[i].flags => f.psh[side] > 0
        /\ f.psh[side] > 0 => \E i \in OnSide(packets, side) : "PSH" \in packets[i].flags
    BY <1>1, <1>3 DEF PshInv
  <2>3. f.psh[side] > 0 => \E i \in OnSide(t, side) : "PSH" \in t[i].flags
    BY <1>1, <1>10, <2>2
  <2>4. ASSUME NEW i \in OnSide(t, side), Done(i, "psh")', "PSH" \in t[i].flags
        PROVE  f.psh[side] > 0
    <3>1. i # n + 1
      BY <1>2, <1>4, <1>5, <2>4
    <3>2. i \in OnSide(packets, side)
      BY <1>1, <2>4, <3>1
    <3>. QED
      BY <1>10, <2>2, <2>4, <3>2
  <2>. QED
    BY <2>3, <2>4
<1>16. UrgInv(flow)'
  <2>1. SUFFICES ASSUME NEW side \in Sides
                 PROVE  /\ \A i \in OnSide(t, side) :
                             Done(i, "urg")' /\ "URG" \in t[i].flags => f.urg[side] > 0
                        /\ f.urg[side] > 0 => \E i \in OnSide(t, side) : "URG" \in t[i].flags
    BY <1>11, <1>12 DEF UrgInv
  <2>2. /\ \A i \in OnSide(packets, side) : "URG" \in packets[i].flags => f.urg[side] > 0
        /\ f.urg[side] > 0 => \E i \in OnSide(packets, side) : "URG" \in packets[i].flags
    BY <1>1, <1>3 DEF UrgInv
  <2>3. f.urg[side] > 0 => \E i \in OnSide(t, side) : "URG" \in t[i].flags
    BY <1>1, <1>10, <2>2
  <2>4. ASSUME NEW i \in OnSide(t, side), Done(i, "urg")', "URG" \in t[i].flags
        PROVE  f.urg[side] > 0
    <3>1. i # n + 1
      BY <1>2, <1>4, <1>5, <2>4
    <3>2. i \in OnSide(packets, side)
      BY <1>1, <2>4, <3>1
    <3>. QED
      BY <1>10, <2>2, <2>4, <3>2
  <2>. QED
    BY <2>3, <2>4
<1>17. CountsInv(flow)'
  <2>1. /\ ToSet(BaseFlags) \subseteq ToSet(f.keys)
        /\ \A i \in 1..n : \A x \in packets[i].flags : x \in ToSet(f.keys) /\ f.counts[x] > 0
        /\ \A x \in ToSet(f.keys) :
            f.counts[x] > 0 => \E i \in 1..n : x \in packets[i].flags
    BY <1>1, <1>2, <1>3 DEF CountsInv
  <2>2. ASSUME NEW i \in DOMAIN t, NEW x \in t[i].flags, Done(i, x)'
        PROVE  x \in ToSet(f.keys) /\ f.counts[x] > 0
    <3>1. i # n + 1
      BY <1>2, <1>4, <1>5, <2>2
    <3>2. i \in 1..n
      BY <1>2, <3>1
    <3>. QED
      BY <1>2, <2>1, <3>2
  <2>3. \A x \in ToSet(f.keys) : f.counts[x] > 0 => \E i \in DOMAIN t : x \in t[i].flags
    BY <1>2, <2>1
  <2>. QED
    BY <1>11, <1>12, <2>1, <2>2, <2>3 DEF CountsInv
<1>18. SeenInv(flow)'
  <2>1. /\ \A i \in 1..n : packets[i].time <= f.lastSeen
        /\ f.lastSeen > 0 => \E i \in 1..n : packets[i].time = f.lastSeen
    BY <1>1, <1>2, <1>3 DEF SeenInv
  <2>2. ASSUME NEW i \in DOMAIN t, Done(i, "seen")' PROVE t[i].time <= f.lastSeen
    <3>1. i # n + 1
      BY <1>2, <1>4, <1>5, <2>2
    <3>2. i \in 1..n
      BY <1>2, <3>1
    <3>. QED
      BY <1>2, <2>1, <3>2
  <2>3. f.lastSeen > 0 => \E i \in DOMAIN t : t[i].time = f.lastSeen
    BY <1>2, <2>1
  <2>. QED
    BY <1>11, <1>12, <2>2, <2>3 DEF SeenInv
<1>. QED
  BY <1>13, <1>14, <1>15, <1>16, <1>17, <1>18 DEF FlowInv

-----------------------------------------------------------------------------
(* What is read of a flow is right for the packets that are complete, and  *)
(* at most of all of them.                                                 *)

FitTerms(l) == [i \in DOMAIN l |-> IF l[i] <= 1514 THEN 1 ELSE 0]

LEMMA FitTermsAre ==
    ASSUME NEW l \in Seq(Nat)
    PROVE  /\ FitTerms(l) \in Seq(Nat) /\ Len(FitTerms(l)) = Len(l)
           /\ \A i \in 1..Len(l) : FitTerms(l)[i] = IF l[i] <= 1514 THEN 1 ELSE 0
           /\ Fit(l) = Sum(FitTerms(l)) /\ Fit(l) \in Nat
<1>1. /\ FitTerms(l) \in Seq(Nat) /\ Len(FitTerms(l)) = Len(l)
      /\ \A i \in 1..Len(l) : FitTerms(l)[i] = IF l[i] <= 1514 THEN 1 ELSE 0
  BY DEF FitTerms
<1>2. Fit(l) = Sum(FitTerms(l))
  BY DEF Fit, FitTerms
<1>. QED
  BY <1>1, <1>2, SumNat

LEMMA ConcatIs ==
    ASSUME NEW f \in Seq(Nat), NEW g \in Seq(Nat)
    PROVE  /\ f \o g \in Seq(Nat) /\ Len(f \o g) = Len(f) + Len(g)
           /\ Len(f) \in Nat /\ Len(g) \in Nat
           /\ \A i \in 1..Len(f) : (f \o g)[i] = f[i]
           /\ \A i \in 1..(Len(f) + Len(g)) : i > Len(f) => (f \o g)[i] = g[i - Len(f)]
OBVIOUS

LEMMA SameTerms ==
    ASSUME NEW f \in Seq(Nat), NEW g \in Seq(Nat), Len(f) = Len(g),
           \A i \in 1..Len(f) : f[i] = g[i]
    PROVE  f = g
OBVIOUS

LEMMA FitConcat ==
    ASSUME NEW a \in Seq(Nat), NEW b \in Seq(Nat)
    PROVE  /\ Fit(a \o b) = Fit(a) + Fit(b)
           /\ Fit(a) \in Nat /\ Fit(b) \in Nat
<1> DEFINE f == FitTerms(a)
           g == FitTerms(b)
           c == a \o b
           h == FitTerms(c)
           fg == f \o g
           m == Len(a)
           n == Len(b)
<1>1. /\ c \in Seq(Nat) /\ Len(c) = m + n /\ m \in Nat /\ n \in Nat
      /\ \A i \in 1..m : c[i] = a[i]
      /\ \A i \in 1..(m + n) : i > m => c[i] = b[i - m]
  BY ConcatIs
<1>2. /\ f \in Seq(Nat) /\ Len(f) = m /\ g \in Seq(Nat) /\ Len(g) = n
      /\ \A i \in 1..m : f[i] = IF a[i] <= 1514 THEN 1 ELSE 0
      /\ \A i \in 1..n : g[i] = IF b[i] <= 1514 THEN 1 ELSE 0
      /\ Fit(a) = Sum(f) /\ Fit(a) \in Nat /\ Fit(b) = Sum(g) /\ Fit(b) \in Nat
  BY FitTermsAre
<1> HIDE DEF c, f, g, m, n
<1>3. /\ h \in Seq(Nat) /\ Len(h) = m + n
      /\ \A i \in 1..(m + n) : h[i] = IF c[i] <= 1514 THEN 1 ELSE 0
      /\ Fit(c) = Sum(h)
  <2>1. c \in Seq(Nat) /\ Len(c) = m + n
    BY <1>1
  <2>2. /\ FitTerms(c) \in Seq(Nat) /\ Len(FitTerms(c)) = Len(c)
        /\ \A i \in 1..Len(c) : FitTerms(c)[i] = IF c[i] <= 1514 THEN 1 ELSE 0
        /\ Fit(c) = Sum(FitTerms(c))
    BY <2>1, FitTermsAre
  <2> HIDE DEF h
  <2>3. h = FitTerms(c)
    BY DEF h
  <2>. QED
    BY <2>1, <2>2, <2>3
<1>4. /\ fg \in Seq(Nat) /\ Len(fg) = m + n
      /\ \A i \in 1..m : fg[i] = f[i]
      /\ \A i \in 1..(m + n) : i > m => fg[i] = g[i - m]
  <2>1. /\ f \in Seq(Nat) /\ g \in Seq(Nat) /\ Len(f) = m /\ Len(g) = n
    BY <1>2
  <2>2. /\ f \o g \in Seq(Nat) /\ Len(f \o g) = Len(f) + Len(g)
        /\ \A i \in 1..Len(f) : (f \o g)[i] = f[i]
        /\ \A i \in 1..(Len(f) + Len(g)) : i > Len(f) => (f \o g)[i] = g[i - Len(f)]
    BY <2>1, ConcatIs
  <2>. QED
    BY <2>1, <2>2
<1>5. Sum(fg) = Sum(f) + Sum(g)
  BY <1>2, SumConcat
<1> HIDE DEF h, fg
<1>6. ASSUME NEW i \in 1..(m + n) PROVE h[i] = fg[i]
  <2>1. CASE i <= m
    <3>1. i \in 1..m
      BY <1>1, <2>1
    <3>2. c[i] = a[i] /\ fg[i] = f[i] /\ f[i] = IF a[i] <= 1514 THEN 1 ELSE 0
      <4>1. c[i] = a[i]
        BY <1>1, <3>1
      <4>2. fg[i] = f[i]
        BY <1>4, <3>1
      <4>3. f[i] = IF a[i] <= 1514 THEN 1 ELSE 0
        BY <1>2, <3>1
      <4>. QED
        BY <4>1, <4>2, <4>3
    <3>3. h[i] = IF c[i] <= 1514 THEN 1 ELSE 0
      BY <1>3
    <3>. QED
      BY <3>2, <3>3
  <2>2. CASE i > m
    <3>1. i - m \in 1..n
      BY <1>1, <2>2
    <3>2. c[i] = b[i - m] /\ fg[i] = g[i - m]
      BY <1>1, <1>4, <2>2
    <3>3. g[i - m] = IF b[i - m] <= 1514 THEN 1 ELSE 0
      BY <1>2, <3>1
    <3>4. h[i] = IF c[i] <= 1514 THEN 1 ELSE 0
      BY <1>3
    <3>. QED
      BY <3>2, <3>3, <3>4
  <2>. QED
    BY <1>1, <2>1, <2>2
<1>7. h = fg
  BY <1>1, <1>3, <1>4, <1>6, SameTerms
<1>8. Fit(c) = Fit(a) + Fit(b)
  BY <1>2, <1>3, <1>5, <1>7
<1>. QED
  BY <1>2, <1>8 DEF c

\* Every write was done of the packets that are complete.
LEMMA CompleteIsDone ==
    ASSUME PlaceInv, AddingInv, NEW n \in 0..Complete
    PROVE  /\ Len(packets) \in Nat /\ DOMAIN packets = 1..Len(packets)
           /\ n \in 0..Len(packets) /\ 1..n \subseteq DOMAIN packets
           /\ \A i \in 1..n : \A x : Done(i, x)
<1>1. /\ packets \in Seq(Packet) /\ Len(packets) \in Nat /\ DOMAIN packets = 1..Len(packets)
  BY DEF PlaceInv
<1>2. CASE adding = Nothing
  <2>1. ToSet(adding.writes) = {}
    BY <1>2, ToSetOne DEF Nothing
  <2>. QED
    BY <1>1, <1>2, <2>1 DEF Complete, Done
<1>3. CASE adding # Nothing
  BY <1>1, <1>3 DEF Complete, Done
<1>. QED
  BY <1>2, <1>3

LEMMA ReadIsOk ==
    ASSUME PlaceInv, AddingInv, FlowInv, place # "none", NEW n \in 0..Complete, NEW what
    PROVE  ReadOk(packets, what, Value(flow, what), n)
<1> DEFINE fwd == OnSide(packets, "fwd")
           bwd == OnSide(packets, "bwd")
           a == flow.lengths["fwd"]
           b == flow.lengths["bwd"]
<1>1. /\ packets \in Seq(Packet) /\ Len(packets) \in Nat /\ DOMAIN packets = 1..Len(packets)
      /\ n \in 0..Len(packets) /\ 1..n \subseteq DOMAIN packets
      /\ \A i \in 1..n : \A x : Done(i, x)
  BY CompleteIsDone DEF PlaceInv
<1>2. /\ FlowType(flow, packets)
      /\ LengthsInv(flow) /\ PshInv(flow) /\ UrgInv(flow) /\ SeenInv(flow)
  BY DEF FlowInv
<1>3. a \in Seq(Nat) /\ b \in Seq(Nat) /\ flow.lastSeen \in Nat
  BY <1>2, FlowFields DEF Sides
<1>4. LengthsOf(a, packets, fwd) /\ LengthsOf(b, packets, bwd)
  BY <1>2 DEF LengthsInv, Sides
<1>5. fwd \cup bwd = DOMAIN packets /\ fwd \cap bwd = {}
  BY <1>1, SidesArePartition
<1>6. /\ IsFiniteSet(fwd) /\ IsFiniteSet(bwd)
      /\ Cardinality(fwd) \in Nat /\ Cardinality(bwd) \in Nat
  BY <1>1, OnSideOf
<1>7. Cardinality(fwd) + Cardinality(bwd) = Len(packets)
  <2>1. Cardinality(fwd \cup bwd) = Cardinality(fwd) + Cardinality(bwd)
    <3> HIDE DEF fwd, bwd
    <3>. QED
      BY <1>5, <1>6, FS_Union, FS_EmptySet
  <2>2. Cardinality(1..Len(packets)) = Len(packets)
    <3>1. PICK k \in Nat : k = Len(packets)
      BY <1>1
    <3>2. Cardinality(1..k) = k
      BY FS_Interval
    <3>. QED
      BY <3>1, <3>2
  <2>. QED
    BY <1>1, <1>5, <2>1, <2>2
<1>8. SeenOk(packets, flow.lastSeen, n)
  BY <1>1, <1>2, <1>3 DEF SeenInv, SeenOk
<1>9. LengthsOk(packets, a \o b, n)
  <2> HIDE DEF a, b, fwd, bwd
  <2>1. a \o b \in Seq(Nat) /\ Len(a \o b) = Len(packets)
    BY <1>3, <1>4, <1>7 DEF LengthsOf
  <2>2. ToSet(a \o b) = ToSet(a) \cup ToSet(b)
    BY <1>3, ToSetConcat
  <2>3. ToSet(a \o b) = {packets[i].length : i \in DOMAIN packets}
    BY <1>4, <1>5, <2>2 DEF LengthsOf
  <2>4. Fit(a \o b) = Fitting(packets, DOMAIN packets)
    <3>1. Fitting(packets, fwd \cup bwd) = Fitting(packets, fwd) + Fitting(packets, bwd)
      BY <1>5, <1>6, FittingDisjoint
    <3>2. Fit(a \o b) = Fit(a) + Fit(b)
      BY <1>3, FitConcat
    <3>. QED
      BY <1>4, <1>5, <3>1, <3>2 DEF LengthsOf
  <2>5. Fitting(packets, 1..n) <= Fitting(packets, DOMAIN packets)
    <3>1. IsFiniteSet(DOMAIN packets)
      BY <1>1, FS_Interval
    <3>. QED
      BY <1>1, <3>1, FittingMonotone
  <2>6. Fitting(packets, DOMAIN packets) \in Nat
    <3>1. IsFiniteSet(DOMAIN packets)
      BY <1>1, FS_Interval
    <3>. QED
      BY <3>1, FittingNat
  <2> DEFINE x == a \o b
  <2>7. /\ x \in Seq(Nat) /\ n <= Len(x)
        /\ Fitting(packets, 1..n) <= Fit(x) /\ Fit(x) <= Fitting(packets, DOMAIN packets)
        /\ ToSet(x) = {packets[i].length : i \in DOMAIN packets}
    BY <1>1, <2>1, <2>3, <2>4, <2>5, <2>6
  <2> HIDE DEF x
  <2>8. LengthsOk(packets, x, n)
    BY <1>1, <2>7 DEF LengthsOk
  <2>. QED
    BY <2>8 DEF x
<1>10. ASSUME NEW side \in Sides
       PROVE  /\ NumberOk(packets, Len(flow.lengths[side]), n, side)
              /\ BytesOk(packets, Sum(flow.lengths[side]), n, side)
  <2> DEFINE I == OnSide(packets, side)
             J == SideUpTo(packets, side, n)
             l == flow.lengths[side]
  <2>1. LengthsOf(l, packets, I) /\ J \subseteq I
    BY <1>2 DEF LengthsInv, SideUpTo
  <2>2. IsFiniteSet(I) /\ Cardinality(I) \in Nat
    BY <1>1, OnSideOf
  <2>3. Cardinality(J) <= Cardinality(I)
    <3> HIDE DEF I, J
    <3>. QED
      BY <2>1, <2>2, FS_Subset
  <2>4. Bytes(packets, J) <= Bytes(packets, I) /\ Bytes(packets, I) \in Nat
    <3> HIDE DEF I, J
    <3>. QED
      BY <1>1, <2>1, BytesMonotone, BytesNat
  <2>5. Len(l) = Cardinality(I) /\ Sum(l) = Bytes(packets, I)
    BY <2>1 DEF LengthsOf
  <2> HIDE DEF l
  <2>6. NumberOk(packets, Len(l), n, side)
    BY <2>2, <2>3, <2>5 DEF NumberOk
  <2>7. BytesOk(packets, Sum(l), n, side)
    BY <2>4, <2>5 DEF BytesOk
  <2>. QED
    BY <2>6, <2>7 DEF l
<1>11. ASSUME NEW side \in Sides
       PROVE  /\ FlagOk(packets, flow.psh[side] > 0, n, side, "PSH")
              /\ FlagOk(packets, flow.urg[side] > 0, n, side, "URG")
  <2>1. (flow.psh[side] > 0) \in BOOLEAN /\ (flow.urg[side] > 0) \in BOOLEAN
    BY <1>2, FlowFields
  <2>2. \A i \in SideUpTo(packets, side, n) :
            i \in OnSide(packets, side) /\ Done(i, "psh") /\ Done(i, "urg")
    <3>1. \A i \in SideUpTo(packets, side, n) : i \in OnSide(packets, side) /\ i \in 1..n
      BY <1>1, OnSideOf DEF SideUpTo
    <3>. QED
      BY <1>1, <3>1
  <2>3. FlagOk(packets, flow.psh[side] > 0, n, side, "PSH")
    BY <1>2, <2>1, <2>2 DEF PshInv, FlagOk
  <2>4. FlagOk(packets, flow.urg[side] > 0, n, side, "URG")
    BY <1>2, <2>1, <2>2 DEF UrgInv, FlagOk
  <2>. QED
    BY <2>3, <2>4
<1>12. "fwd" \in Sides /\ "bwd" \in Sides
  BY DEF Sides
<1>. QED
  BY <1>8, <1>9, <1>10, <1>11, <1>12 DEF ReadOk, Value

-----------------------------------------------------------------------------
(* The jobs and their outcomes.                                            *)

ReadBefore(at) == {Reads[i] : i \in 1..(at - 1)}

\* The packets of a side a worker has read, or those it could read now.
SoFar(s, view, what, side) ==
    IF what \in DOMAIN view THEN view[what] ELSE Cardinality(OnSide(s, side))

\* The loop over the flags has still to look at some of the keys there were
\* when it began; keys were added to them since only for an ECE or a CWR.
ScanningInv(j, keys, s) ==
    /\ j.at <= 12 => "scan" \notin DOMAIN j.view
    /\ j.at = 13 /\ "scan" \in DOMAIN j.view =>
        /\ j.left \in Seq(TcpFlags) /\ ToSet(j.left) \subseteq ToSet(keys)
        /\ Flags(s, 1..j.since) \subseteq j.view["scan"] \cup ToSet(j.left)
        /\ j.view["scan"] \subseteq Flags(s, DOMAIN s)
        /\ j.size \in Nat /\ j.size <= Len(keys)
        /\ Len(keys) # j.size => Flags(s, (j.since + 1)..Len(s)) \cap {"ECE", "CWR"} # {}
    /\ j.at > 13 => ScanOk(s, j.view["scan"], j.since)

\* The packets are counted after their lengths were listed.
CountsLater(s, view) ==
    "lengths" \in DOMAIN view =>
        Len(view["lengths"]) <= SoFar(s, view, "inPkts", "fwd") + SoFar(s, view, "outPkts", "bwd")

JobFields == {"kind", "at", "view", "since", "left", "size"}

ReadingInv(j, keys, s) ==
    /\ JobFields \subseteq DOMAIN j
    /\ ReadBefore(j.at) \subseteq DOMAIN j.view
    /\ DOMAIN j.view \subseteq ReadBefore(j.at) \cup {"scan"}
    /\ \A what \in DOMAIN j.view : ReadOk(s, what, j.view[what], j.since)
    /\ CountsLater(s, j.view)
    /\ ScanningInv(j, keys, s)

OnSchema(v) == CanonicalFeatures \ DroppedColumns \subseteq DOMAIN v

VectorOk(s, v, since) ==
    /\ v.IN_PKTS + v.OUT_PKTS \in Nat /\ v.IN_BYTES + v.OUT_BYTES \in Nat
    /\ Bracketed(s, v, since, Len(s))

MappedInv(j, s) ==
    /\ j.asked \in Nat /\ j.asked <= switches
    /\ j.asked = switches => DOMAIN j.vector = model
    /\ OnSchema(j.vector) => VectorOk(s, j.vector, j.since)
    /\ OnSchema(j.vector) /\ j.kind = "final" => Exact(s, j.vector)

JobOk(j) ==
    /\ place # "none"
    /\ j.kind \in {"periodic", "final"}
    /\ j.at \in 1..21
    /\ j.since \in 0..Complete
    /\ j.kind = "final" => place = "closed" /\ j.since = Len(packets)
    /\ j.at <= 20 => ReadingInv(j, flow.keys, packets)
    /\ j.at = 21 => MappedInv(j, packets)

JobInv ==
    /\ DOMAIN job = Workers
    /\ \A w \in Workers : job[w] # Idle => JobOk(job[w])

Explained(o, s) ==
    \/ o.how = "no model" /\ switches > 0
    \/ o.how = "rejected" /\ o.result > 0
    \/ /\ o.how = "raised" /\ o.kind = "periodic"
       /\ Flags(s, (o.since + 1)..o.upto) \cap {"ECE", "CWR"} # {}

OutcomeOk(o, s) ==
    /\ o.upto \in 0..Len(s) /\ o.since \in 0..o.upto
    /\ o.kind = "final" => place = "closed"
    /\ o.how # "answered" => Explained(o, s)
    /\ o.how = "answered" /\ OnSchema(o.result) =>
        /\ Bracketed(s, o.result, o.since, o.upto)
        /\ o.kind = "final" => Exact(s, o.result)

OutcomesInv == \A o \in outcomes : OutcomeOk(o, packets)

IInv == PlaceInv /\ AddingInv /\ FlowInv /\ JobInv /\ QueueInv /\ OutcomesInv

-----------------------------------------------------------------------------
(* The order of the reads.                                                 *)

PlaceOf ==
    [lastSeen |-> 1, lengths |-> 2, stamps |-> 3, inPkts |-> 4, outPkts |-> 5, inBytes |-> 6,
     outBytes |-> 7, SYN |-> 8, ACK |-> 9, FIN |-> 10, RST |-> 11, PSH |-> 12, scan |-> 13,
     fwdPsh |-> 14, fwdUrg |-> 15, bwdPsh |-> 16, bwdUrg |-> 17, fwdStamps |-> 18,
     bwdStamps |-> 19]

LEMMA ReadsAre ==
    /\ Len(Reads) = 19 /\ DOMAIN Reads = 1..19
    /\ Reads[1] = "lastSeen" /\ Reads[2] = "lengths" /\ Reads[3] = "stamps" /\ Reads[4] = "inPkts"
    /\ Reads[5] = "outPkts" /\ Reads[6] = "inBytes" /\ Reads[7] = "outBytes" /\ Reads[8] = "SYN"
    /\ Reads[9] = "ACK" /\ Reads[10] = "FIN" /\ Reads[11] = "RST" /\ Reads[12] = "PSH"
    /\ Reads[13] = "scan" /\ Reads[14] = "fwdPsh" /\ Reads[15] = "fwdUrg" /\ Reads[16] = "bwdPsh"
    /\ Reads[17] = "bwdUrg" /\ Reads[18] = "fwdStamps" /\ Reads[19] = "bwdStamps"
<1>1. Len(Reads) = 19
  BY DEF Reads
<1>2. DOMAIN Reads = 1..19
  BY DEF Reads
<1>3.
      /\ Reads[1] = "lastSeen" /\ Reads[2] = "lengths" /\ Reads[3] = "stamps" /\ Reads[4] = "inPkts"
      /\ Reads[5] = "outPkts" /\ Reads[6] = "inBytes" /\ Reads[7] = "outBytes" /\ Reads[8] = "SYN"
      /\ Reads[9] = "ACK" /\ Reads[10] = "FIN" /\ Reads[11] = "RST" /\ Reads[12] = "PSH"
      /\ Reads[13] = "scan" /\ Reads[14] = "fwdPsh" /\ Reads[15] = "fwdUrg" /\ Reads[16] = "bwdPsh"
      /\ Reads[17] = "bwdUrg" /\ Reads[18] = "fwdStamps" /\ Reads[19] = "bwdStamps"
  BY DEF Reads
<1>. QED
  BY <1>1, <1>2, <1>3

LEMMA ReadOnce ==
    ASSUME NEW i \in 1..19, NEW k \in 1..19, Reads[i] = Reads[k]
    PROVE  i = k
<1>1. \A x \in 1..19 :
        \/ x = 1 \/ x = 2 \/ x = 3 \/ x = 4 \/ x = 5 \/ x = 6 \/ x = 7 \/ x = 8 \/ x = 9 \/ x = 10
        \/ x = 11 \/ x = 12 \/ x = 13 \/ x = 14 \/ x = 15 \/ x = 16 \/ x = 17 \/ x = 18 \/ x = 19
  OBVIOUS
<1>2.
      /\ PlaceOf["lastSeen"] = 1 /\ PlaceOf["lengths"] = 2 /\ PlaceOf["stamps"] = 3
      /\ PlaceOf["inPkts"] = 4 /\ PlaceOf["outPkts"] = 5 /\ PlaceOf["inBytes"] = 6
      /\ PlaceOf["outBytes"] = 7 /\ PlaceOf["SYN"] = 8
      /\ PlaceOf["ACK"] = 9 /\ PlaceOf["FIN"] = 10 /\ PlaceOf["RST"] = 11 /\ PlaceOf["PSH"] = 12
      /\ PlaceOf["scan"] = 13 /\ PlaceOf["fwdPsh"] = 14 /\ PlaceOf["fwdUrg"] = 15
      /\ PlaceOf["bwdPsh"] = 16
      /\ PlaceOf["bwdUrg"] = 17 /\ PlaceOf["fwdStamps"] = 18 /\ PlaceOf["bwdStamps"] = 19
  BY DEF PlaceOf
<1>3. \A x \in 1..19 : PlaceOf[Reads[x]] = x
  BY <1>1, <1>2, ReadsAre
<1>. QED
  BY <1>3

LEMMA ReadNext ==
    ASSUME NEW i \in 1..19
    PROVE  /\ Reads[i] \notin ReadBefore(i)
           /\ ReadBefore(i + 1) = ReadBefore(i) \cup {Reads[i]}
           /\ "scan" \in ReadBefore(i) <=> i > 13
           /\ "lengths" \in ReadBefore(i) <=> i > 2
           /\ "inPkts" \in ReadBefore(i) <=> i > 4
           /\ "outPkts" \in ReadBefore(i) <=> i > 5
<1>1. /\ \A k \in 1..19 : Reads[k] = Reads[i] => k = i
      /\ \A k \in 1..19 : Reads[k] = "scan" => k = 13
      /\ \A k \in 1..19 : Reads[k] = "lengths" => k = 2
      /\ \A k \in 1..19 : Reads[k] = "inPkts" => k = 4
      /\ \A k \in 1..19 : Reads[k] = "outPkts" => k = 5
  <2>1. /\ 13 \in 1..19 /\ 2 \in 1..19 /\ 4 \in 1..19 /\ 5 \in 1..19
        /\ Reads[13] = "scan" /\ Reads[2] = "lengths" /\ Reads[4] = "inPkts" /\ Reads[5] = "outPkts"
    BY ReadsAre
  <2>. QED
    BY <2>1, ReadOnce
<1>2. \A k \in 1..(i - 1) : k \in 1..19 /\ k # i
  OBVIOUS
<1>3. Reads[i] \notin ReadBefore(i)
  BY <1>1, <1>2 DEF ReadBefore
<1>4. ReadBefore(i + 1) = ReadBefore(i) \cup {Reads[i]}
  <2>1. 1..((i + 1) - 1) = (1..(i - 1)) \cup {i}
    OBVIOUS
  <2>. QED
    BY <2>1 DEF ReadBefore
<1>5. "scan" \in ReadBefore(i) <=> i > 13
  <2>1. i > 13 => 13 \in 1..(i - 1)
    OBVIOUS
  <2>. QED
    BY <1>1, <1>2, <2>1, ReadsAre DEF ReadBefore
<1>6. "lengths" \in ReadBefore(i) <=> i > 2
  <2>1. i > 2 => 2 \in 1..(i - 1)
    OBVIOUS
  <2>. QED
    BY <1>1, <1>2, <2>1, ReadsAre DEF ReadBefore
<1>7. "inPkts" \in ReadBefore(i) <=> i > 4
  <2>1. i > 4 => 4 \in 1..(i - 1)
    OBVIOUS
  <2>. QED
    BY <1>1, <1>2, <2>1, ReadsAre DEF ReadBefore
<1>8. "outPkts" \in ReadBefore(i) <=> i > 5
  <2>1. i > 5 => 5 \in 1..(i - 1)
    OBVIOUS
  <2>. QED
    BY <1>1, <1>2, <2>1, ReadsAre DEF ReadBefore
<1>. QED
  BY <1>3, <1>4, <1>5, <1>6, <1>7, <1>8

-----------------------------------------------------------------------------
(* One more packet, or one more key, leaves the jobs and outcomes right.   *)

LEMMA BracketedGrows ==
    ASSUME NEW s, NEW p, NEW t, Adds(s, p, t), NEW v,
           NEW since \in 0..Len(s), NEW upto \in 0..Len(s), Bracketed(s, v, since, upto)
    PROVE  Bracketed(t, v, since, upto)
<1>1. DOMAIN s = 1..Len(s) /\ Len(s) \in Nat
  BY Grown
<1>2. (\A i \in 1..since : i \in DOMAIN s) /\ (\A i \in 1..upto : i \in DOMAIN s)
  BY <1>1
<1>3. /\ Bytes(t, 1..since) = Bytes(s, 1..since) /\ Bytes(t, 1..upto) = Bytes(s, 1..upto)
      /\ Fitting(t, 1..since) = Fitting(s, 1..since)
      /\ Flags(t, 1..since) = Flags(s, 1..since) /\ Flags(t, 1..upto) = Flags(s, 1..upto)
  BY <1>2, GrownSums
<1>. QED
  BY <1>3 DEF Bracketed

LEMMA VectorGrows ==
    ASSUME NEW s, NEW p, NEW t, Adds(s, p, t), NEW v,
           NEW since \in 0..Len(s), VectorOk(s, v, since)
    PROVE  VectorOk(t, v, since)
<1>1. /\ t \in Seq(Packet) /\ Len(s) \in Nat /\ Len(t) = Len(s) + 1 /\ Len(s) \in 0..Len(s)
  BY Grown
<1>2. Bracketed(t, v, since, Len(s))
  BY <1>1, BracketedGrows DEF VectorOk
<1>3. 1..Len(s) \subseteq 1..Len(t)
  BY <1>1
<1>4. /\ Bytes(t, 1..Len(s)) <= Bytes(t, 1..Len(t))
      /\ Bytes(t, 1..Len(s)) \in Nat /\ Bytes(t, 1..Len(t)) \in Nat
  BY <1>1, <1>3, BytesMonotone, BytesNat
<1>5. Flags(t, 1..Len(s)) \subseteq Flags(t, 1..Len(t))
  BY <1>3 DEF Flags
<1> DEFINE total == v.IN_PKTS + v.OUT_PKTS
           bytes == v.IN_BYTES + v.OUT_BYTES
<1>6. total \in Nat /\ bytes \in Nat
  BY DEF VectorOk
<1>7. /\ since <= total /\ total <= Len(s)
      /\ Fitting(t, 1..since) <= Buckets(v) /\ Buckets(v) <= total
      /\ Bytes(t, 1..since) <= bytes /\ bytes <= Bytes(t, 1..Len(s))
      /\ Flags(t, 1..since) \subseteq v.TCP_FLAGS
      /\ v.TCP_FLAGS \subseteq Flags(t, 1..Len(s))
  BY <1>2 DEF Bracketed
<1>8. total <= Len(t) /\ bytes <= Bytes(t, 1..Len(t)) /\ v.TCP_FLAGS \subseteq Flags(t, 1..Len(t))
  <2> HIDE DEF total, bytes
  <2>. QED
    BY <1>1, <1>4, <1>5, <1>6, <1>7
<1>. QED
  BY <1>6, <1>7, <1>8 DEF VectorOk, Bracketed

LEMMA ReadingGrows ==
    ASSUME NEW s, NEW p, NEW t, Adds(s, p, t), s # <<>>, NEW j, NEW keys,
           j.since \in 0..Len(s), ReadingInv(j, keys, s)
    PROVE  ReadingInv(j, keys, t)
<1>1. /\ s \in Seq(Packet) /\ t \in Seq(Packet) /\ Len(s) \in Nat /\ Len(t) = Len(s) + 1
      /\ DOMAIN s = 1..Len(s) /\ DOMAIN t = 1..(Len(s) + 1)
      /\ \A i \in 1..Len(s) : t[i] = s[i]
  BY Grown
<1> DEFINE n == j.since
<1>2. n \in 0..Len(s)
  OBVIOUS
<1> HIDE DEF n
<1>3. \A what \in DOMAIN j.view : ReadOk(t, what, j.view[what], n)
  BY <1>2, ReadGrows DEF ReadingInv, n
<1>4. CountsLater(t, j.view)
  <2>1. ASSUME NEW side
        PROVE  /\ Cardinality(OnSide(s, side)) <= Cardinality(OnSide(t, side))
               /\ Cardinality(OnSide(s, side)) \in Nat /\ Cardinality(OnSide(t, side)) \in Nat
    <3>1. OnSide(s, side) \subseteq OnSide(t, side)
      BY <1>2, GrownSides
    <3>2. IsFiniteSet(OnSide(t, side)) /\ Cardinality(OnSide(t, side)) \in Nat
      BY <1>1, OnSideOf
    <3>3. Cardinality(OnSide(s, side)) \in Nat
      BY <1>1, OnSideOf
    <3>. QED
      BY <3>1, <3>2, <3>3, FS_Subset
  <2> DEFINE v == j.view
             a == SoFar(s, v, "inPkts", "fwd")
             b == SoFar(s, v, "outPkts", "bwd")
             c == SoFar(t, v, "inPkts", "fwd")
             d == SoFar(t, v, "outPkts", "bwd")
  <2>2. /\ "inPkts" \in DOMAIN v => v["inPkts"] \in Nat
        /\ "outPkts" \in DOMAIN v => v["outPkts"] \in Nat
        /\ "lengths" \in DOMAIN v => Len(v["lengths"]) \in Nat
    <3>1. "inPkts" \in DOMAIN v => NumberOk(s, v["inPkts"], n, "fwd")
      BY DEF ReadingInv, ReadOk, n
    <3>2. "outPkts" \in DOMAIN v => NumberOk(s, v["outPkts"], n, "bwd")
      BY DEF ReadingInv, ReadOk, n
    <3>3. "lengths" \in DOMAIN v => LengthsOk(s, v["lengths"], n)
      BY DEF ReadingInv, ReadOk, n
    <3>4. "lengths" \in DOMAIN v => v["lengths"] \in Seq(Nat)
      BY <3>3 DEF LengthsOk
    <3>. QED
      BY <3>1, <3>2, <3>4 DEF NumberOk
  <2>3. a <= c /\ b <= d /\ a \in Nat /\ b \in Nat /\ c \in Nat /\ d \in Nat
    BY <2>1, <2>2 DEF SoFar
  <2>4. "lengths" \in DOMAIN v => Len(v["lengths"]) <= a + b
    BY DEF ReadingInv, CountsLater
  <2>5. "lengths" \in DOMAIN v => Len(v["lengths"]) <= c + d
    <3> HIDE DEF a, b, c, d
    <3>. QED
      BY <2>2, <2>3, <2>4
  <2>. QED
    BY <2>5 DEF CountsLater
<1>5. ScanningInv(j, keys, t)
  <2>1. ScanningInv(j, keys, s)
    BY DEF ReadingInv
  <2>2. \A i \in 1..n : i \in DOMAIN s
    BY <1>1, <1>2
  <2>3. Flags(t, 1..n) = Flags(s, 1..n)
    <3>1. \A i \in 1..n : t[i] = s[i]
      BY <1>1, <2>2
    <3>. QED
      BY <3>1 DEF Flags
  <2>4. Flags(s, DOMAIN s) \subseteq Flags(t, DOMAIN t)
    BY <1>1 DEF Flags
  <2>5. Flags(s, (n + 1)..Len(s)) \subseteq Flags(t, (n + 1)..Len(t))
    <3>1. \A i \in (n + 1)..Len(s) : i \in (n + 1)..Len(t) /\ i \in 1..Len(s)
      BY <1>1, <1>2
    <3>. QED
      BY <1>1, <3>1 DEF Flags
  <2>6. ScanOk(s, j.view["scan"], n) => ScanOk(t, j.view["scan"], n)
    BY <1>2, ScanGrows
  <2>. QED
    BY <2>1, <2>3, <2>4, <2>5, <2>6 DEF ScanningInv, n
<1>. QED
  BY <1>3, <1>4, <1>5 DEF ReadingInv, n

\* A key added to the flags by the last packet, of which not all is written.
LEMMA KeyAdded ==
    ASSUME NEW s \in Seq(Packet), s # <<>>, NEW keys \in Seq(TcpFlags), NEW x \in {"ECE", "CWR"},
           x \in s[Len(s)].flags, NEW j, j.since \in 0..(Len(s) - 1), ReadingInv(j, keys, s)
    PROVE  ReadingInv(j, Append(keys, x), s)
<1>1. Len(Append(keys, x)) = Len(keys) + 1 /\ Len(keys) \in Nat
  OBVIOUS
<1>2. ToSet(keys) \subseteq ToSet(Append(keys, x))
  BY ToSetAppend
<1>3. Flags(s, (j.since + 1)..Len(s)) \cap {"ECE", "CWR"} # {}
  <2>1. Len(s) \in (j.since + 1)..Len(s)
    OBVIOUS
  <2>2. s[Len(s)].flags \subseteq Flags(s, (j.since + 1)..Len(s))
    BY <2>1 DEF Flags
  <2>. QED
    BY <2>2
<1>4. ScanningInv(j, Append(keys, x), s)
  BY <1>1, <1>2, <1>3 DEF ReadingInv, ScanningInv
<1>. QED
  BY <1>4 DEF ReadingInv

-----------------------------------------------------------------------------
(* The vector computed from what was read.                                 *)

LEMMA SameFunctions ==
    ASSUME NEW n \in Nat, NEW s \in [1..n -> Nat]
    PROVE  /\ s \in Seq(Nat)
           /\ \A t \in [1..n -> Nat] : (\A i \in 1..n : s[i] = t[i]) => s = t
OBVIOUS

IsSum(u, s, t, n) == \A i \in 1..n : u[i] = s[i] + t[i]

LEMMA SumOfSums ==
    ASSUME NEW n \in Nat, NEW s \in [1..n -> Nat], NEW t \in [1..n -> Nat]
    PROVE  \E u \in [1..n -> Nat] : IsSum(u, s, t, n) /\ Sum(u) = Sum(s) + Sum(t)
<1> DEFINE u == [i \in 1..n |-> s[i] + t[i]]
<1>1. u \in [1..n -> Nat] /\ IsSum(u, s, t, n)
  BY DEF IsSum
<1>2. Sum(u) = Sum(s) + Sum(t)
  BY SumPlus
<1>. QED
  BY <1>1, <1>2

\* The five buckets are those of the sizes that fit one of them.
LEMMA BucketsAreFit ==
    ASSUME NEW x \in Seq(Nat)
    PROVE  /\ Within(x, -1, 128) + Within(x, 128, 256) + Within(x, 256, 512)
                + Within(x, 512, 1024) + Within(x, 1024, 1514) = Fit(x)
           /\ Fit(x) \in Nat /\ Fit(x) <= Len(x)
<1> DEFINE n == Len(x)
           T(lo, hi) == [i \in 1..n |-> IF lo < x[i] /\ x[i] <= hi THEN 1 ELSE 0]
           F == [i \in 1..n |-> IF x[i] <= 1514 THEN 1 ELSE 0]
           a == T(-1, 128)
           b == T(128, 256)
           c == T(256, 512)
           d == T(512, 1024)
           e == T(1024, 1514)
<1>1. n \in Nat /\ DOMAIN x = 1..n /\ \A i \in 1..n : x[i] \in Nat
  OBVIOUS
<1>2. /\ Within(x, -1, 128) = Sum(a) /\ Within(x, 128, 256) = Sum(b)
      /\ Within(x, 256, 512) = Sum(c) /\ Within(x, 512, 1024) = Sum(d)
      /\ Within(x, 1024, 1514) = Sum(e)
  <2>1. \A lo, hi : Within(x, lo, hi) = Sum(T(lo, hi))
    <3>1. SUFFICES ASSUME NEW lo, NEW hi PROVE Within(x, lo, hi) = Sum(T(lo, hi))
      OBVIOUS
    <3>. QED
      BY <1>1 DEF Within
  <2> HIDE DEF T
  <2>. QED
    BY <2>1
<1>3. Fit(x) = Sum(F)
  BY <1>1 DEF Fit
<1> HIDE DEF n
<1>4. /\ a \in [1..n -> Nat] /\ b \in [1..n -> Nat] /\ c \in [1..n -> Nat]
      /\ d \in [1..n -> Nat] /\ e \in [1..n -> Nat] /\ F \in [1..n -> Nat]
  OBVIOUS
<1>5. \A i \in 1..n : F[i] = (((a[i] + b[i]) + c[i]) + d[i]) + e[i]
  BY <1>1
<1>6. \A i \in 1..n : F[i] <= 1
  OBVIOUS
<1> HIDE DEF a, b, c, d, e, F
<1>7. PICK ab \in [1..n -> Nat] : IsSum(ab, a, b, n) /\ Sum(ab) = Sum(a) + Sum(b)
  BY <1>1, <1>4, SumOfSums
<1>8. PICK abc \in [1..n -> Nat] : IsSum(abc, ab, c, n) /\ Sum(abc) = Sum(ab) + Sum(c)
  BY <1>1, <1>4, SumOfSums
<1>9. PICK abcd \in [1..n -> Nat] : IsSum(abcd, abc, d, n) /\ Sum(abcd) = Sum(abc) + Sum(d)
  BY <1>1, <1>4, SumOfSums
<1>10. PICK abcde \in [1..n -> Nat] : IsSum(abcde, abcd, e, n) /\ Sum(abcde) = Sum(abcd) + Sum(e)
  BY <1>1, <1>4, SumOfSums
<1>11. ASSUME NEW i \in 1..n PROVE F[i] = abcde[i]
  <2>1. ab[i] = a[i] + b[i] /\ abc[i] = ab[i] + c[i]
    BY <1>7, <1>8 DEF IsSum
  <2>2. abcd[i] = abc[i] + d[i] /\ abcde[i] = abcd[i] + e[i]
    BY <1>9, <1>10 DEF IsSum
  <2>. QED
    BY <1>5, <2>1, <2>2
<1>12. F = abcde
  BY <1>1, <1>4, <1>10, <1>11, SameFunctions
<1>13. Sum(F) \in Nat /\ Sum(F) <= n
  <2> DEFINE ones == [i \in 1..n |-> 1]
  <2>1. ones \in [1..n -> Nat] /\ \A i \in 1..n : ones[i] = 1
    OBVIOUS
  <2>2. Sum(ones) = n
    BY <1>1, SumOfOnes
  <2> HIDE DEF ones
  <2>3. \A i \in 1..n : F[i] <= ones[i]
    BY <1>6, <2>1
  <2>4. Sum(F) <= Sum(ones)
    BY <1>1, <1>4, <2>1, <2>3, SumMonotone
  <2>5. F \in Seq(Nat)
    BY <1>1, <1>4, SameFunctions
  <2>6. Sum(F) \in Nat
    BY <2>5, SumNat
  <2>. QED
    BY <2>2, <2>4, <2>6
<1>. QED
  BY <1>2, <1>3, <1>7, <1>8, <1>9, <1>10, <1>12, <1>13 DEF n

\* The features of the vector are those computed from the reads.
Computed(v, f, view, expected) == OnSchema(v) /\ v = Mapped(Features(f, view), expected)

VectorOf(v, f, view) ==
    /\ v.IN_PKTS = view.inPkts /\ v.OUT_PKTS = view.outPkts
    /\ v.IN_BYTES = view.inBytes /\ v.OUT_BYTES = view.outBytes
    /\ v.TCP_FLAGS = view.scan
    /\ v.CLIENT_TCP_FLAGS = {x \in {"PSH"} : view.fwdPsh} \cup {x \in {"URG"} : view.fwdUrg}
    /\ v.SERVER_TCP_FLAGS = {x \in {"PSH"} : view.bwdPsh} \cup {x \in {"URG"} : view.bwdUrg}
    /\ v.FLOW_DURATION_MILLISECONDS = 1000 * Max({0, view.lastSeen - f.started})
    /\ v.LONGEST_FLOW_PKT = Greatest(view.lengths)
    /\ v.SHORTEST_FLOW_PKT = Least(view.lengths)
    /\ Buckets(v) = Within(view.lengths, -1, 128) + Within(view.lengths, 128, 256)
         + Within(view.lengths, 256, 512) + Within(view.lengths, 512, 1024)
         + Within(view.lengths, 1024, 1514)

LEMMA FeaturesAre ==
    ASSUME NEW f, NEW view, NEW expected, NEW v, Computed(v, f, view, expected)
    PROVE  VectorOf(v, f, view)
<1> DEFINE net == NetFlowFeatures(f, view)
           names == {"IN_PKTS", "OUT_PKTS", "IN_BYTES", "OUT_BYTES", "TCP_FLAGS",
                     "CLIENT_TCP_FLAGS", "SERVER_TCP_FLAGS", "FLOW_DURATION_MILLISECONDS",
                     "LONGEST_FLOW_PKT", "SHORTEST_FLOW_PKT", "NUM_PKTS_UP_TO_128_BYTES",
                     "NUM_PKTS_128_TO_256_BYTES", "NUM_PKTS_256_TO_512_BYTES",
                     "NUM_PKTS_512_TO_1024_BYTES", "NUM_PKTS_1024_TO_1514_BYTES"}
<1>1. names \subseteq DOMAIN net
  BY DEF NetFlowFeatures
<1>2. /\ net.IN_PKTS = view.inPkts /\ net.OUT_PKTS = view.outPkts
      /\ net.IN_BYTES = view.inBytes /\ net.OUT_BYTES = view.outBytes
      /\ net.TCP_FLAGS = view.scan
      /\ net.CLIENT_TCP_FLAGS = {x \in {"PSH"} : view.fwdPsh} \cup {x \in {"URG"} : view.fwdUrg}
      /\ net.SERVER_TCP_FLAGS = {x \in {"PSH"} : view.bwdPsh} \cup {x \in {"URG"} : view.bwdUrg}
      /\ net.FLOW_DURATION_MILLISECONDS = 1000 * Max({0, view.lastSeen - f.started})
      /\ net.LONGEST_FLOW_PKT = Greatest(view.lengths)
      /\ net.SHORTEST_FLOW_PKT = Least(view.lengths)
      /\ net.NUM_PKTS_UP_TO_128_BYTES = Within(view.lengths, -1, 128)
      /\ net.NUM_PKTS_128_TO_256_BYTES = Within(view.lengths, 128, 256)
      /\ net.NUM_PKTS_256_TO_512_BYTES = Within(view.lengths, 256, 512)
      /\ net.NUM_PKTS_512_TO_1024_BYTES = Within(view.lengths, 512, 1024)
      /\ net.NUM_PKTS_1024_TO_1514_BYTES = Within(view.lengths, 1024, 1514)
  BY DEF NetFlowFeatures
<1>3. names \subseteq CanonicalFeatures \ DroppedColumns
  BY DEF CanonicalFeatures, DroppedColumns
<1>4. \A name \in DOMAIN net :
        name \in DOMAIN Features(f, view) /\ Features(f, view)[name] = net[name]
  <2> HIDE DEF net
  <2>1. Features(f, view)
          = Joined(net, Joined(EnhancedFeatures(f, view), [name \in AlwaysZero |-> 0]))
    BY DEF Features, net
  <2>. QED
    BY <2>1 DEF Joined
<1>5. DOMAIN v = expected /\ v = Mapped(Features(f, view), expected) /\ OnSchema(v)
  BY DEF Mapped, Computed
<1> HIDE DEF net, names
<1>6. \A name \in names : v[name] = net[name]
  BY <1>1, <1>3, <1>4, <1>5 DEF Mapped, OnSchema
<1>7. /\ v.IN_PKTS = net.IN_PKTS /\ v.OUT_PKTS = net.OUT_PKTS
      /\ v.IN_BYTES = net.IN_BYTES /\ v.OUT_BYTES = net.OUT_BYTES
      /\ v.TCP_FLAGS = net.TCP_FLAGS /\ v.CLIENT_TCP_FLAGS = net.CLIENT_TCP_FLAGS
      /\ v.SERVER_TCP_FLAGS = net.SERVER_TCP_FLAGS
      /\ v.FLOW_DURATION_MILLISECONDS = net.FLOW_DURATION_MILLISECONDS
      /\ v.LONGEST_FLOW_PKT = net.LONGEST_FLOW_PKT
      /\ v.SHORTEST_FLOW_PKT = net.SHORTEST_FLOW_PKT
      /\ v.NUM_PKTS_UP_TO_128_BYTES = net.NUM_PKTS_UP_TO_128_BYTES
      /\ v.NUM_PKTS_128_TO_256_BYTES = net.NUM_PKTS_128_TO_256_BYTES
      /\ v.NUM_PKTS_256_TO_512_BYTES = net.NUM_PKTS_256_TO_512_BYTES
      /\ v.NUM_PKTS_512_TO_1024_BYTES = net.NUM_PKTS_512_TO_1024_BYTES
      /\ v.NUM_PKTS_1024_TO_1514_BYTES = net.NUM_PKTS_1024_TO_1514_BYTES
  BY <1>6 DEF names
<1>. QED
  BY <1>2, <1>7 DEF Buckets, VectorOf

LEMMA DisjointSizes ==
    ASSUME NEW S, NEW T, IsFiniteSet(S), IsFiniteSet(T), S \cap T = {}
    PROVE  Cardinality(S \cup T) = Cardinality(S) + Cardinality(T)
<1>1. Cardinality(S \cap T) = 0
  BY FS_EmptySet
<1>2. Cardinality(S \cup T) = Cardinality(S) + Cardinality(T) - Cardinality(S \cap T)
  BY FS_Union
<1>. QED
  BY <1>1, <1>2, FS_CardinalityType

AllRead(s, view, n) ==
    /\ SeenOk(s, view.lastSeen, n) /\ LengthsOk(s, view.lengths, n)
    /\ NumberOk(s, view.inPkts, n, "fwd") /\ NumberOk(s, view.outPkts, n, "bwd")
    /\ BytesOk(s, view.inBytes, n, "fwd") /\ BytesOk(s, view.outBytes, n, "bwd")
    /\ FlagOk(s, view.fwdPsh, n, "fwd", "PSH") /\ FlagOk(s, view.fwdUrg, n, "fwd", "URG")
    /\ FlagOk(s, view.bwdPsh, n, "bwd", "PSH") /\ FlagOk(s, view.bwdUrg, n, "bwd", "URG")
    /\ ScanOk(s, view.scan, n)
    /\ Len(view.lengths) <= view.inPkts + view.outPkts

LEMMA ReadToTheEnd ==
    ASSUME NEW j, NEW keys, NEW s, j.at = 20, ReadingInv(j, keys, s)
    PROVE  AllRead(s, j.view, j.since)
<1>1. \A i \in 1..19 : Reads[i] \in DOMAIN j.view
  <2>1. \A i \in 1..19 : Reads[i] \in ReadBefore(20)
    BY DEF ReadBefore
  <2>. QED
    BY <2>1 DEF ReadingInv
<1>2. /\ 1 \in 1..19 /\ 2 \in 1..19 /\ 4 \in 1..19 /\ 5 \in 1..19 /\ 6 \in 1..19 /\ 7 \in 1..19
      /\ 14 \in 1..19 /\ 15 \in 1..19 /\ 16 \in 1..19 /\ 17 \in 1..19
  OBVIOUS
<1>3. /\ "lastSeen" \in DOMAIN j.view /\ "lengths" \in DOMAIN j.view
      /\ "inPkts" \in DOMAIN j.view /\ "outPkts" \in DOMAIN j.view
      /\ "inBytes" \in DOMAIN j.view /\ "outBytes" \in DOMAIN j.view
      /\ "fwdPsh" \in DOMAIN j.view /\ "fwdUrg" \in DOMAIN j.view
      /\ "bwdPsh" \in DOMAIN j.view /\ "bwdUrg" \in DOMAIN j.view
  BY <1>1, <1>2, ReadsAre
<1>4. \A what \in DOMAIN j.view : ReadOk(s, what, j.view[what], j.since)
  BY DEF ReadingInv
<1>5. /\ SeenOk(s, j.view.lastSeen, j.since) /\ LengthsOk(s, j.view.lengths, j.since)
      /\ NumberOk(s, j.view.inPkts, j.since, "fwd") /\ NumberOk(s, j.view.outPkts, j.since, "bwd")
      /\ BytesOk(s, j.view.inBytes, j.since, "fwd") /\ BytesOk(s, j.view.outBytes, j.since, "bwd")
  BY <1>3, <1>4 DEF ReadOk
<1>6. /\ FlagOk(s, j.view.fwdPsh, j.since, "fwd", "PSH")
      /\ FlagOk(s, j.view.fwdUrg, j.since, "fwd", "URG")
      /\ FlagOk(s, j.view.bwdPsh, j.since, "bwd", "PSH")
      /\ FlagOk(s, j.view.bwdUrg, j.since, "bwd", "URG")
  BY <1>3, <1>4 DEF ReadOk
<1>7. ScanOk(s, j.view.scan, j.since)
  BY DEF ReadingInv, ScanningInv
<1>8. Len(j.view.lengths) <= j.view.inPkts + j.view.outPkts
  BY <1>3 DEF ReadingInv, CountsLater, SoFar
<1>. QED
  BY <1>5, <1>6, <1>7, <1>8 DEF AllRead

\* The packets of each side up to some packet, and all of them.
LEMMA SidesUpTo ==
    ASSUME NEW s \in Seq(Packet), NEW n \in 0..Len(s)
    PROVE  /\ Cardinality(SideUpTo(s, "fwd", n)) + Cardinality(SideUpTo(s, "bwd", n)) = n
           /\ Cardinality(SideUpTo(s, "fwd", n)) \in Nat /\ Cardinality(SideUpTo(s, "bwd", n)) \in Nat
           /\ Bytes(s, SideUpTo(s, "fwd", n)) + Bytes(s, SideUpTo(s, "bwd", n)) = Bytes(s, 1..n)
           /\ Bytes(s, SideUpTo(s, "fwd", n)) \in Nat /\ Bytes(s, SideUpTo(s, "bwd", n)) \in Nat
           /\ n = Len(s) => /\ SideUpTo(s, "fwd", n) = OnSide(s, "fwd")
                            /\ SideUpTo(s, "bwd", n) = OnSide(s, "bwd")
<1> DEFINE I == SideUpTo(s, "fwd", n)
           J == SideUpTo(s, "bwd", n)
<1>1. Len(s) \in Nat /\ n \in Nat
  OBVIOUS
<1>2. /\ OnSide(s, "fwd") \subseteq 1..Len(s) /\ IsFiniteSet(OnSide(s, "fwd"))
      /\ OnSide(s, "bwd") \subseteq 1..Len(s) /\ IsFiniteSet(OnSide(s, "bwd"))
      /\ OnSide(s, "fwd") \cup OnSide(s, "bwd") = 1..Len(s)
      /\ OnSide(s, "fwd") \cap OnSide(s, "bwd") = {}
  BY OnSideOf, SidesArePartition
<1>3. I \cup J = 1..n /\ I \cap J = {}
  <2>1. \A i \in 1..n : i \in 1..Len(s) /\ i <= n
    BY <1>1
  <2>2. \A i \in 1..Len(s) : i <= n => i \in 1..n
    BY <1>1
  <2>. QED
    BY <1>2, <2>1, <2>2 DEF SideUpTo
<1>4. I \subseteq OnSide(s, "fwd") /\ J \subseteq OnSide(s, "bwd")
  BY DEF SideUpTo
<1>5. IsFiniteSet(I) /\ IsFiniteSet(J) /\ Cardinality(I) \in Nat /\ Cardinality(J) \in Nat
  BY <1>2, <1>4, FS_Subset, FS_CardinalityType
<1>6. n = Len(s) => I = OnSide(s, "fwd") /\ J = OnSide(s, "bwd")
  <2>1. \A i \in 1..Len(s) : i <= Len(s)
    OBVIOUS
  <2>. QED
    BY <1>2, <2>1 DEF SideUpTo
<1> HIDE DEF I, J
<1>7. Cardinality(I) + Cardinality(J) = n
  <2>1. Cardinality(I \cup J) = Cardinality(I) + Cardinality(J)
    BY <1>3, <1>5, DisjointSizes
  <2>2. Cardinality(1..n) = n
    <3>1. PICK k \in Nat : k = n
      BY <1>1
    <3>2. Cardinality(1..k) = k
      BY FS_Interval
    <3>. QED
      BY <3>1, <3>2
  <2>. QED
    BY <1>3, <2>1, <2>2
<1>8. Bytes(s, I) + Bytes(s, J) = Bytes(s, 1..n) /\ Bytes(s, I) \in Nat /\ Bytes(s, J) \in Nat
  <2>1. Bytes(s, I \cup J) = Bytes(s, I) + Bytes(s, J)
    BY <1>3, BytesDisjoint
  <2>. QED
    BY <1>3, <2>1, BytesNat
<1>. QED
  BY <1>5, <1>6, <1>7, <1>8 DEF I, J

LEMMA VectorIsOk ==
    ASSUME NEW s \in Seq(Packet), NEW n \in 0..Len(s), NEW view, AllRead(s, view, n),
           NEW f, NEW expected, NEW v, Computed(v, f, view, expected)
    PROVE  VectorOk(s, v, n)
<1>1. /\ v.IN_PKTS = view.inPkts /\ v.OUT_PKTS = view.outPkts
      /\ v.IN_BYTES = view.inBytes /\ v.OUT_BYTES = view.outBytes
      /\ v.TCP_FLAGS = view.scan
      /\ Buckets(v) = Within(view.lengths, -1, 128) + Within(view.lengths, 128, 256)
                + Within(view.lengths, 256, 512) + Within(view.lengths, 512, 1024)
                + Within(view.lengths, 1024, 1514)
  <2>1. VectorOf(v, f, view)
    BY FeaturesAre
  <2>. QED
    BY <2>1 DEF VectorOf
<1>2. view.lengths \in Seq(Nat) /\ Fitting(s, 1..n) <= Fit(view.lengths)
  BY DEF AllRead, LengthsOk
<1>3. /\ Buckets(v) = Fit(view.lengths)
      /\ Fit(view.lengths) \in Nat /\ Fit(view.lengths) <= Len(view.lengths)
      /\ Len(view.lengths) \in Nat
  BY <1>1, <1>2, BucketsAreFit
<1> DEFINE I == SideUpTo(s, "fwd", n)
           J == SideUpTo(s, "bwd", n)
           K == OnSide(s, "fwd")
           L == OnSide(s, "bwd")
<1>4. /\ Cardinality(I) + Cardinality(J) = n /\ Cardinality(I) \in Nat /\ Cardinality(J) \in Nat
      /\ Bytes(s, I) + Bytes(s, J) = Bytes(s, 1..n) /\ Bytes(s, I) \in Nat /\ Bytes(s, J) \in Nat
  BY SidesUpTo
<1>5. /\ Cardinality(K) + Cardinality(L) = Len(s) /\ Cardinality(K) \in Nat /\ Cardinality(L) \in Nat
      /\ Bytes(s, K) + Bytes(s, L) = Bytes(s, 1..Len(s)) /\ Bytes(s, K) \in Nat /\ Bytes(s, L) \in Nat
  <2>1. Len(s) \in 0..Len(s)
    OBVIOUS
  <2>. QED
    BY <2>1, SidesUpTo
<1>6. /\ view.inPkts \in Nat /\ Cardinality(I) <= view.inPkts /\ view.inPkts <= Cardinality(K)
      /\ view.outPkts \in Nat /\ Cardinality(J) <= view.outPkts /\ view.outPkts <= Cardinality(L)
      /\ view.inBytes \in Nat /\ Bytes(s, I) <= view.inBytes /\ view.inBytes <= Bytes(s, K)
      /\ view.outBytes \in Nat /\ Bytes(s, J) <= view.outBytes /\ view.outBytes <= Bytes(s, L)
      /\ Len(view.lengths) <= view.inPkts + view.outPkts
  BY DEF AllRead, NumberOk, BytesOk
<1> HIDE DEF I, J, K, L
<1>7. /\ n <= view.inPkts + view.outPkts /\ view.inPkts + view.outPkts <= Len(s)
      /\ view.inPkts + view.outPkts \in Nat
  <2> DEFINE a == Cardinality(I)
             b == Cardinality(J)
             c == Cardinality(K)
             d == Cardinality(L)
             x == view.inPkts
             y == view.outPkts
  <2>1. /\ a \in Nat /\ b \in Nat /\ c \in Nat /\ d \in Nat /\ x \in Nat /\ y \in Nat
        /\ a <= x /\ b <= y /\ x <= c /\ y <= d /\ a + b = n /\ c + d = Len(s)
    BY <1>4, <1>5, <1>6
  <2> HIDE DEF a, b, c, d, x, y
  <2>2. n <= x + y /\ x + y <= Len(s) /\ x + y \in Nat
    BY <2>1
  <2>. QED
    BY <2>2 DEF x, y
<1>8. /\ Bytes(s, 1..n) <= view.inBytes + view.outBytes
      /\ view.inBytes + view.outBytes <= Bytes(s, 1..Len(s))
      /\ view.inBytes + view.outBytes \in Nat
  <2> DEFINE a == Bytes(s, I)
             b == Bytes(s, J)
             c == Bytes(s, K)
             d == Bytes(s, L)
             x == view.inBytes
             y == view.outBytes
  <2>1. /\ a \in Nat /\ b \in Nat /\ c \in Nat /\ d \in Nat /\ x \in Nat /\ y \in Nat
        /\ a <= x /\ b <= y /\ x <= c /\ y <= d
        /\ a + b = Bytes(s, 1..n) /\ c + d = Bytes(s, 1..Len(s))
    BY <1>4, <1>5, <1>6
  <2> HIDE DEF a, b, c, d, x, y
  <2>2. Bytes(s, 1..n) <= x + y /\ x + y <= Bytes(s, 1..Len(s)) /\ x + y \in Nat
    BY <2>1
  <2>. QED
    BY <2>2 DEF x, y
<1>9. Fitting(s, 1..n) <= Buckets(v) /\ Buckets(v) <= view.inPkts + view.outPkts
  <2>1. Fitting(s, 1..n) \in Nat
    BY FS_Interval, FittingNat
  <2>. QED
    BY <1>2, <1>3, <1>6, <1>7, <2>1
<1>10. Flags(s, 1..n) \subseteq view.scan /\ view.scan \subseteq Flags(s, 1..Len(s))
  BY DEF AllRead, ScanOk
<1>. QED
  BY <1>1, <1>7, <1>8, <1>9, <1>10 DEF VectorOk, Bracketed

\* What is read once all packets are complete is exact.
LEMMA MaxIs ==
    ASSUME NEW S, NEW x \in S, S \subseteq Int, \A y \in S : y <= x
    PROVE  Max(S) = x
<1>1. \E m \in S : \A y \in S : m >= y
  OBVIOUS
<1>2. Max(S) \in S /\ \A y \in S : Max(S) >= y
  BY <1>1 DEF Max
<1>3. Max(S) \in Int /\ x \in Int
  BY <1>2
<1>4. Max(S) >= x /\ Max(S) <= x
  BY <1>2
<1>. QED
  BY <1>3, <1>4

LEMMA VectorIsExact ==
    ASSUME NEW s \in Seq(Packet), s # <<>>, NEW view, AllRead(s, view, Len(s)),
           NEW f, f.started = s[1].time, NEW expected, NEW v, Computed(v, f, view, expected)
    PROVE  Exact(s, v)
<1> DEFINE n == Len(s)
           mine == OnSide(s, "fwd")
           theirs == OnSide(s, "bwd")
           times == {s[i].time : i \in DOMAIN s}
           lengths == {s[i].length : i \in DOMAIN s}
           seen == view.lastSeen
<1>1. /\ n \in Nat /\ DOMAIN s = 1..n /\ 1 \in DOMAIN s /\ n \in 0..n
      /\ \A i \in DOMAIN s : s[i].time \in Nat /\ s[i].length \in Nat
  BY PacketAt
<1>2. VectorOf(v, f, view)
  BY FeaturesAre
<1>3. /\ SideUpTo(s, "fwd", n) = mine /\ SideUpTo(s, "bwd", n) = theirs
      /\ Cardinality(mine) \in Nat /\ Cardinality(theirs) \in Nat
      /\ Bytes(s, mine) \in Nat /\ Bytes(s, theirs) \in Nat
  BY <1>1, SidesUpTo
<1>4. view.inPkts = Cardinality(mine) /\ view.outPkts = Cardinality(theirs)
  <2>1. NumberOk(s, view.inPkts, n, "fwd") /\ NumberOk(s, view.outPkts, n, "bwd")
    BY DEF AllRead
  <2> HIDE DEF mine, theirs
  <2>. QED
    BY <1>3, <2>1 DEF NumberOk, mine, theirs
<1>5. view.inBytes = Bytes(s, mine) /\ view.outBytes = Bytes(s, theirs)
  <2>1. BytesOk(s, view.inBytes, n, "fwd") /\ BytesOk(s, view.outBytes, n, "bwd")
    BY DEF AllRead
  <2>. QED
    BY <1>3, <2>1 DEF BytesOk
<1>6. view.scan = Flags(s, DOMAIN s)
  BY <1>1 DEF AllRead, ScanOk
<1>7. /\ {x \in {"PSH"} : view.fwdPsh} \cup {x \in {"URG"} : view.fwdUrg}
           = Flags(s, mine) \cap {"PSH", "URG"}
      /\ {x \in {"PSH"} : view.bwdPsh} \cup {x \in {"URG"} : view.bwdUrg}
           = Flags(s, theirs) \cap {"PSH", "URG"}
  <2>1. /\ view.fwdPsh <=> \E i \in mine : "PSH" \in s[i].flags
        /\ view.fwdUrg <=> \E i \in mine : "URG" \in s[i].flags
        /\ view.bwdPsh <=> \E i \in theirs : "PSH" \in s[i].flags
        /\ view.bwdUrg <=> \E i \in theirs : "URG" \in s[i].flags
    BY <1>3 DEF AllRead, FlagOk
  <2>2. \A I, x : x \in Flags(s, I) <=> \E i \in I : x \in s[i].flags
    BY DEF Flags
  <2> HIDE DEF mine, theirs
  <2>. QED
    BY <2>1, <2>2
<1>8. 1000 * Max({0, seen - f.started}) = 1000 * (Max(times) - s[1].time)
  <2>1. /\ seen \in Nat /\ \A i \in 1..n : s[i].time <= seen
        /\ seen > 0 => \E i \in DOMAIN s : s[i].time = seen
    BY DEF AllRead, SeenOk
  <2>2. seen \in times /\ times \subseteq Int /\ \A y \in times : y <= seen
    <3>1. CASE seen > 0
      BY <1>1, <2>1, <3>1
    <3>2. CASE seen = 0
      <4>1. s[1].time = 0
        BY <1>1, <2>1, <3>2
      <4>. QED
        BY <1>1, <2>1, <3>2, <4>1
    <3>. QED
      BY <2>1, <3>1, <3>2
  <2> HIDE DEF times, seen
  <2>3. Max(times) = seen
    BY <2>2, MaxIs
  <2>4. s[1].time <= seen /\ s[1].time \in Nat
    BY <1>1, <2>1
  <2> DEFINE d == seen - f.started
  <2>5. d \in Nat
    BY <2>1, <2>4
  <2> HIDE DEF d
  <2>6. Max({0, d}) = d
    <3>1. d \in {0, d} /\ {0, d} \subseteq Int /\ \A y \in {0, d} : y <= d
      BY <2>5
    <3>. QED
      BY <3>1, MaxIs
  <2>. QED
    BY <2>3, <2>6 DEF d
<1>9. /\ view.lengths \in Seq(Nat) /\ Fit(view.lengths) = Fitting(s, DOMAIN s)
      /\ ToSet(view.lengths) = lengths /\ view.lengths # <<>>
  <2>1. LengthsOk(s, view.lengths, n)
    BY DEF AllRead
  <2>2. Fit(view.lengths) \in Nat /\ Fitting(s, DOMAIN s) \in Nat
    <3>1. view.lengths \in Seq(Nat)
      BY <2>1 DEF LengthsOk
    <3>2. IsFiniteSet(DOMAIN s)
      BY <1>1, FS_Interval
    <3>. QED
      BY <3>1, <3>2, FitTermsAre, FittingNat
  <2>3. Fit(view.lengths) = Fitting(s, DOMAIN s)
    BY <1>1, <2>1, <2>2 DEF LengthsOk
  <2>4. ToSet(view.lengths) = lengths
    BY <1>1, <2>1 DEF LengthsOk
  <2>5. view.lengths # <<>>
    <3>1. s[1].length \in ToSet(view.lengths)
      BY <1>1, <2>4
    <3>. QED
      BY <3>1, ToSetOne
  <2>. QED
    BY <2>1, <2>3, <2>4, <2>5 DEF LengthsOk
<1>10. Greatest(view.lengths) = Max(lengths) /\ Least(view.lengths) = Min(lengths)
  BY <1>9 DEF Greatest, Least
<1>11. Buckets(v) = Fitting(s, DOMAIN s)
  <2>1. Buckets(v) = Fit(view.lengths)
    BY <1>2, <1>9, BucketsAreFit DEF VectorOf
  <2>. QED
    BY <1>9, <2>1
<1>12. /\ v.IN_PKTS = view.inPkts /\ v.OUT_PKTS = view.outPkts
       /\ v.IN_BYTES = view.inBytes /\ v.OUT_BYTES = view.outBytes
       /\ v.TCP_FLAGS = view.scan
       /\ v.CLIENT_TCP_FLAGS = {x \in {"PSH"} : view.fwdPsh} \cup {x \in {"URG"} : view.fwdUrg}
       /\ v.SERVER_TCP_FLAGS = {x \in {"PSH"} : view.bwdPsh} \cup {x \in {"URG"} : view.bwdUrg}
       /\ v.FLOW_DURATION_MILLISECONDS = 1000 * Max({0, view.lastSeen - f.started})
       /\ v.LONGEST_FLOW_PKT = Greatest(view.lengths)
       /\ v.SHORTEST_FLOW_PKT = Least(view.lengths)
  BY <1>2 DEF VectorOf
<1>13. /\ v.IN_PKTS = Cardinality(mine) /\ v.IN_BYTES = Bytes(s, mine)
       /\ v.OUT_PKTS = Cardinality(theirs) /\ v.OUT_BYTES = Bytes(s, theirs)
       /\ v.TCP_FLAGS = Flags(s, DOMAIN s)
  BY <1>4, <1>5, <1>6, <1>12
<1>14. /\ v.CLIENT_TCP_FLAGS = Flags(s, mine) \cap {"PSH", "URG"}
       /\ v.SERVER_TCP_FLAGS = Flags(s, theirs) \cap {"PSH", "URG"}
  BY <1>7, <1>12
<1>15. v.FLOW_DURATION_MILLISECONDS = 1000 * (Max(times) - s[1].time)
  BY <1>8, <1>12
<1>16. v.LONGEST_FLOW_PKT = Max(lengths) /\ v.SHORTEST_FLOW_PKT = Min(lengths)
  BY <1>10, <1>12
<1>. QED
  BY <1>11, <1>13, <1>14, <1>15, <1>16, Zenon DEF Exact

-----------------------------------------------------------------------------
(* The steps of the capture thread.                                        *)

LEMMA OutcomeGrows ==
    ASSUME NEW s, NEW p, NEW t, Adds(s, p, t), NEW o, OutcomeOk(o, s), o.kind # "final"
    PROVE  /\ o.upto \in 0..Len(t) /\ o.since \in 0..o.upto
           /\ o.how # "answered" => Explained(o, t)
           /\ o.how = "answered" /\ OnSchema(o.result) => Bracketed(t, o.result, o.since, o.upto)
<1>1. DOMAIN s = 1..Len(s) /\ Len(s) \in Nat /\ Len(t) = Len(s) + 1
  BY Grown
<1>2. o.upto \in 0..Len(s) /\ o.since \in 0..o.upto
  BY DEF OutcomeOk
<1> DEFINE since == o.since
           upto == o.upto
<1>3. since \in 0..Len(s) /\ upto \in 0..Len(s) /\ upto \in 0..Len(t)
  BY <1>1, <1>2
<1>4. ASSUME o.how # "answered" PROVE Explained(o, t)
  <2>1. \A i \in (since + 1)..upto : i \in DOMAIN s
    BY <1>1, <1>3
  <2>2. \A i \in (since + 1)..upto : t[i] = s[i]
    BY <1>1, <2>1, Grown
  <2>3. Flags(t, (since + 1)..upto) = Flags(s, (since + 1)..upto)
    BY <2>2 DEF Flags
  <2>. QED
    BY <1>4, <2>3 DEF OutcomeOk, Explained
<1>5. ASSUME o.how = "answered", OnSchema(o.result) PROVE Bracketed(t, o.result, o.since, o.upto)
  <2>1. Bracketed(s, o.result, since, upto)
    BY <1>5 DEF OutcomeOk
  <2> HIDE DEF since, upto
  <2>2. Bracketed(t, o.result, since, upto)
    BY <1>3, <2>1, BracketedGrows
  <2>. QED
    BY <2>2 DEF since, upto
<1>. QED
  BY <1>2, <1>3, <1>4, <1>5

LEMMA ArriveStep ==
    ASSUME IInv, NEW frame \in Frames, Arrive(frame)
    PROVE  IInv'
<1> DEFINE p == Parsed(frame)
           f == IF place = "none" THEN NewFlow(p) ELSE flow
<1>1. /\ PlaceInv /\ AddingInv /\ FlowInv /\ JobInv /\ QueueInv /\ OutcomesInv
      /\ p \in Packet /\ adding = Nothing /\ place \in {"none", "table"} /\ place' = "table"
      /\ flow' = Lengthened(f, p) /\ packets' = Append(packets, p)
      /\ queue' = queue /\ job' = job /\ model' = model /\ switches' = switches
      /\ outcomes' = outcomes /\ handed' = handed
  BY ParsedPacket DEF IInv, Arrive
<1>2. PICK writes \in WriteOrders(p) : adding' = [packet |-> p, writes |-> writes]
  BY DEF Arrive
<1> HIDE DEF p
<1>3. Adds(packets, p, packets')
  BY <1>1 DEF Adds, PlaceInv
<1>4. /\ packets' \in Seq(Packet) /\ packets' # <<>> /\ Len(packets') = Len(packets) + 1
      /\ Len(packets) \in Nat /\ packets'[Len(packets) + 1] = p
  BY <1>3, Grown
<1>5. PlaceInv'
  BY <1>1, <1>4 DEF PlaceInv
<1>6. AddingInv' /\ adding' # Nothing
  <2>1. /\ writes \in Seq(WriteNames) /\ writes # <<>>
        /\ ToSet(writes) \cap TcpFlags \subseteq p.flags
        /\ "psh" \in ToSet(writes) => "PSH" \in p.flags
        /\ "urg" \in ToSet(writes) => "URG" \in p.flags
    BY <1>1, WritesOf
  <2>2. adding'.writes = writes /\ adding'.packet = p
    BY <1>2
  <2>. QED
    BY <1>1, <1>2, <1>4, <2>1, <2>2 DEF AddingInv, Nothing
<1>7. FlowInv'
  BY <1>1, <1>2, ArrivalKeepsFlow
<1>8. JobInv'
  <2>1. SUFFICES ASSUME NEW w \in Workers, job[w] # Idle
                 PROVE  /\ place' # "none"
                        /\ job[w].kind \in {"periodic", "final"} /\ job[w].at \in 1..21
                        /\ job[w].since \in 0..Complete'
                        /\ job[w].kind # "final"
                        /\ job[w].at <= 20 => ReadingInv(job[w], flow'.keys, packets')
                        /\ job[w].at = 21 => MappedInv(job[w], packets)'
    BY <1>1 DEF JobInv, JobOk
  <2>2. PICK j : j = job[w] /\ JobOk(j)
    BY <1>1, <2>1 DEF JobInv
  <2>3. place = "table" /\ j.kind # "final" /\ packets # <<>>
    BY <1>1, <2>2 DEF JobOk, PlaceInv
  <2>4. Complete = Len(packets) /\ Complete' = Len(packets)
    BY <1>1, <1>4, <1>6 DEF Complete
  <2>5. j.since \in 0..Len(packets)
    BY <2>2, <2>4 DEF JobOk
  <2>6. flow'.keys = flow.keys
    BY <1>1, <2>3 DEF Lengthened, FlowInv, FlowType
  <2>7. j.at <= 20 => ReadingInv(j, flow'.keys, packets')
    BY <1>3, <2>2, <2>3, <2>5, <2>6, ReadingGrows DEF JobOk
  <2>8. j.at = 21 => MappedInv(j, packets)'
    <3>1. SUFFICES ASSUME j.at = 21 PROVE MappedInv(j, packets)'
      OBVIOUS
    <3>2. MappedInv(j, packets)
      BY <2>2, <3>1 DEF JobOk
    <3>3. OnSchema(j.vector) => VectorOk(packets', j.vector, j.since)
      BY <1>3, <2>5, <3>2, VectorGrows DEF MappedInv
    <3>. QED
      BY <1>1, <2>3, <3>2, <3>3 DEF MappedInv
  <2>. QED
    BY <1>1, <2>2, <2>3, <2>4, <2>5, <2>7, <2>8 DEF JobOk, MappedInv
<1>9. QueueInv'
  BY <1>1 DEF QueueInv
<1>10. OutcomesInv'
  <2>1. SUFFICES ASSUME NEW o \in outcomes PROVE OutcomeOk(o, packets)'
    BY <1>1 DEF OutcomesInv
  <2>2. OutcomeOk(o, packets) /\ o.kind # "final"
    BY <1>1 DEF OutcomesInv, OutcomeOk
  <2>3. /\ o.upto \in 0..Len(packets') /\ o.since \in 0..o.upto
        /\ o.how # "answered" => Explained(o, packets')
        /\ o.how = "answered" /\ OnSchema(o.result)
            => Bracketed(packets', o.result, o.since, o.upto)
    BY <1>3, <2>2, OutcomeGrows
  <2>. QED
    BY <1>1, <2>2, <2>3 DEF OutcomeOk, Explained
<1>. QED
  BY <1>5, <1>6, <1>7, <1>8, <1>9, <1>10 DEF IInv

LEMMA WrittenKeys ==
    ASSUME PlaceInv, AddingInv, FlowInv, adding # Nothing,
           flow' = Written(flow, adding.packet, Head(adding.writes))
    PROVE  \/ flow'.keys = flow.keys
           \/ \E x \in {"ECE", "CWR"} :
                /\ x \in packets[Len(packets)].flags
                /\ flow'.keys = Append(flow.keys, x)
<1> DEFINE p == adding.packet
           w == Head(adding.writes)
<1>1. /\ p = packets[Len(packets)] /\ w \in WriteNames
      /\ w \in TcpFlags => w \in p.flags
      /\ Side(flow, p) \in Sides
  BY NextWrite
<1>2. FlowType(flow, packets) /\ CountsInv(flow)
  BY NextWrite DEF FlowInv
<1>3. TcpFlags = {"FIN", "SYN", "RST", "PSH", "ACK", "URG", "ECE", "CWR"}
  BY DEF TcpFlags, ToSet, BaseFlags
<1>4. flow' = Written(flow, p, w)
  OBVIOUS
<1> HIDE DEF p, w
<1>5. CASE w \in TcpFlags
  <2>1. flow' = Counted(flow, w)
    BY <1>3, <1>4, <1>5 DEF Written
  <2>2. /\ w \in ToSet(flow.keys) => flow'.keys = flow.keys
        /\ w \notin ToSet(flow.keys) => flow'.keys = Append(flow.keys, w)
    BY <1>2, <1>5, <2>1, CountedFields
  <2>3. w \notin ToSet(flow.keys) => w \in {"ECE", "CWR"}
    <3>1. {"FIN", "SYN", "RST", "PSH", "ACK", "URG"} \subseteq ToSet(flow.keys)
      <4>1. ToSet(BaseFlags) = {"FIN", "SYN", "RST", "PSH", "ACK", "URG"}
        BY DEF ToSet, BaseFlags
      <4>. QED
        BY <1>2, <4>1 DEF CountsInv
    <3>. QED
      BY <1>3, <1>5, <3>1
  <2>. QED
    BY <1>1, <1>5, <2>2, <2>3
<1>6. CASE w = "stamp"
  BY <1>2, <1>4, <1>6 DEF Written, FlowType
<1>7. CASE w = "psh"
  BY <1>2, <1>4, <1>7 DEF Written, FlowType
<1>8. CASE w = "urg"
  BY <1>2, <1>4, <1>8 DEF Written, FlowType
<1>9. CASE w = "seen"
  BY <1>2, <1>4, <1>9 DEF Written, FlowType
<1>. QED
  BY <1>1, <1>5, <1>6, <1>7, <1>8, <1>9 DEF WriteNames

\* What a further write leaves of the invariant of the jobs.
LEMMA WrittenKeepsJobs ==
    ASSUME PlaceInv, AddingInv, FlowInv, JobInv, adding # Nothing,
           flow' = Written(flow, adding.packet, Head(adding.writes)),
           packets' = packets, place' # "none", job' = job,
           model' = model, switches' = switches
    PROVE  JobInv'
<1>1. /\ packets \in Seq(Packet) /\ packets # <<>> /\ Len(packets) \in Nat /\ place = "table"
  BY NextWrite DEF PlaceInv
<1>2. Complete = Len(packets) - 1 /\ Complete' \in {Len(packets) - 1, Len(packets)}
  BY <1>1 DEF Complete
<1>3. SUFFICES ASSUME NEW w \in Workers, job[w] # Idle
               PROVE  /\ place' # "none"
                      /\ job[w].kind \in {"periodic", "final"} /\ job[w].at \in 1..21
                      /\ job[w].since \in 0..Complete'
                      /\ job[w].kind # "final"
                      /\ job[w].at <= 20 => ReadingInv(job[w], flow'.keys, packets)
                      /\ job[w].at = 21 => MappedInv(job[w], packets)'
  BY DEF JobInv, JobOk
<1>4. PICK j : j = job[w] /\ JobOk(j)
  BY <1>3 DEF JobInv
<1>5. j.kind # "final" /\ j.since \in 0..(Len(packets) - 1)
  BY <1>1, <1>2, <1>4 DEF JobOk
<1>6. ASSUME j.at <= 20 PROVE ReadingInv(j, flow'.keys, packets)
  <2>1. ReadingInv(j, flow.keys, packets)
    BY <1>4, <1>6 DEF JobOk
  <2>2. flow.keys \in Seq(TcpFlags)
    BY <1>1, FlowFields DEF FlowInv
  <2>3. ASSUME NEW x \in {"ECE", "CWR"}, x \in packets[Len(packets)].flags
        PROVE  ReadingInv(j, Append(flow.keys, x), packets)
    BY <1>1, <1>5, <2>1, <2>2, <2>3, KeyAdded
  <2>. QED
    BY <2>1, <2>3, WrittenKeys
<1>7. j.at = 21 => MappedInv(j, packets)'
  BY <1>4 DEF JobOk, MappedInv
<1>8. j.since \in 0..Complete'
  BY <1>1, <1>2, <1>5
<1>. QED
  BY <1>4, <1>5, <1>6, <1>7, <1>8 DEF JobOk, MappedInv

LEMMA OutcomesKept ==
    ASSUME OutcomesInv, outcomes' = outcomes, packets' = packets,
           place = "closed" => place' = "closed", switches' = switches
    PROVE  OutcomesInv'
BY DEF OutcomesInv, OutcomeOk, Explained

LEMMA WriteStep ==
    ASSUME IInv, Write
    PROVE  IInv'
<1>1. /\ PlaceInv /\ AddingInv /\ FlowInv /\ JobInv /\ QueueInv /\ OutcomesInv
      /\ flow' = Written(flow, adding.packet, Head(adding.writes))
      /\ place' = place /\ packets' = packets /\ handed' = handed /\ queue' = queue /\ job' = job
      /\ model' = model /\ switches' = switches /\ outcomes' = outcomes
  BY DEF IInv, Write
<1>2. adding # Nothing /\ Len(adding.writes) > 1
  BY DEF Write, Nothing
<1>3. place = "table" /\ packets # <<>>
  BY <1>1, <1>2, NextWrite
<1>4. /\ adding \in [packet : {packets[Len(packets)]}, writes : Seq(WriteNames)]
      /\ adding.writes # <<>>
      /\ ToSet(adding.writes) \cap TcpFlags \subseteq adding.packet.flags
      /\ "psh" \in ToSet(adding.writes) => "PSH" \in adding.packet.flags
      /\ "urg" \in ToSet(adding.writes) => "URG" \in adding.packet.flags
  BY <1>1, <1>2 DEF AddingInv
<1>5. adding' = [adding EXCEPT !.writes = Tail(@)]
  BY DEF Write
<1>6. /\ Tail(adding.writes) \in Seq(WriteNames) /\ Len(Tail(adding.writes)) = Len(adding.writes) - 1
      /\ ToSet(Tail(adding.writes)) \subseteq ToSet(adding.writes)
  BY <1>4, HeadTail
<1>7. adding'.writes = Tail(adding.writes) /\ adding'.packet = adding.packet
  BY <1>4, <1>5
<1>8. adding'.writes # <<>>
  <2>1. PICK n \in Nat : n = Len(adding.writes)
    BY <1>4
  <2>2. Len(adding'.writes) = n - 1 /\ n > 1
    BY <1>2, <1>6, <1>7, <2>1
  <2>. QED
    BY <2>2
<1>9. adding' \in [packet : {packets[Len(packets)]}, writes : Seq(WriteNames)]
  BY <1>4, <1>5, <1>6
<1>10. AddingInv'
  BY <1>1, <1>3, <1>4, <1>6, <1>7, <1>8, <1>9 DEF AddingInv
<1>11. PlaceInv'
  BY <1>1 DEF PlaceInv
<1>12. FlowInv'
  BY <1>1, <1>2, <1>3, <1>7, WrittenKeepsFlow
<1>13. JobInv'
  BY <1>1, <1>2, <1>3, WrittenKeepsJobs
<1>14. QueueInv' /\ OutcomesInv'
  BY <1>1, OutcomesKept DEF QueueInv
<1>. QED
  BY <1>10, <1>11, <1>12, <1>13, <1>14 DEF IInv

LEMMA Appended ==
    ASSUME NEW S, NEW s \in Seq(S), NEW x
    PROVE  \A i \in DOMAIN Append(s, x) :
             Append(s, x)[i] = x \/ (i \in DOMAIN s /\ Append(s, x)[i] = s[i])
<1>1. /\ DOMAIN Append(s, x) = 1..(Len(s) + 1) /\ DOMAIN s = 1..Len(s) /\ Len(s) \in Nat
      /\ Append(s, x)[Len(s) + 1] = x /\ \A i \in 1..Len(s) : Append(s, x)[i] = s[i]
  OBVIOUS
<1>2. ASSUME NEW i \in DOMAIN Append(s, x)
      PROVE  Append(s, x)[i] = x \/ (i \in DOMAIN s /\ Append(s, x)[i] = s[i])
  <2>1. CASE i = Len(s) + 1
    BY <1>1, <2>1
  <2>2. CASE i # Len(s) + 1
    <3>1. i \in 1..Len(s)
      BY <1>1, <2>2
    <3>. QED
      BY <1>1, <3>1
  <2>. QED
    BY <2>1, <2>2
<1>. QED
  BY <1>2, Zenon

LEMMA SubmitIs ==
    ASSUME PlaceInv, QueueInv, place # "none", packets' = packets, switches' = switches,
           model' = model, place' \in {"table", "closed"}, place = "closed" => place' = "closed",
           NEW kind \in {"periodic", "final"}, kind = "final" => place' = "closed",
           NEW f, Submit(kind, f)
    PROVE  PlaceInv' /\ QueueInv'
<1>1. queue' = queue \/ queue' = Append(queue, kind)
  BY DEF Submit
<1>2. /\ queue \in Seq({"periodic", "final"})
      /\ \A i \in DOMAIN queue : queue[i] = "final" => place = "closed"
  BY DEF QueueInv
<1>3. /\ queue' \in Seq({"periodic", "final"})
      /\ \A i \in DOMAIN queue' : queue'[i] = "final" => place' = "closed"
  <2>1. CASE queue' = queue
    BY <1>2, <2>1
  <2>2. CASE queue' = Append(queue, kind)
    <3>1. Append(queue, kind) \in Seq({"periodic", "final"})
      BY <1>2
    <3>2. \A i \in DOMAIN Append(queue, kind) :
            \/ Append(queue, kind)[i] = kind
            \/ i \in DOMAIN queue /\ Append(queue, kind)[i] = queue[i]
      BY <1>2, Appended
    <3>. QED
      BY <1>2, <2>2, <3>1, <3>2
  <2>. QED
    BY <1>1, <2>1, <2>2
<1>4. PlaceInv'
  BY DEF PlaceInv
<1>. QED
  BY <1>3, <1>4 DEF QueueInv

LEMMA LastWriteStep ==
    ASSUME IInv, LastWrite
    PROVE  IInv'
<1>1. /\ PlaceInv /\ AddingInv /\ FlowInv /\ JobInv /\ QueueInv /\ OutcomesInv
      /\ flow' = Written(flow, adding.packet, Head(adding.writes))
      /\ packets' = packets /\ handed' = handed /\ job' = job
      /\ model' = model /\ switches' = switches /\ outcomes' = outcomes
      /\ adding' = Nothing
  BY DEF IInv, LastWrite
<1>2. adding # Nothing /\ Len(adding.writes) = 1
  BY DEF LastWrite, Nothing
<1>3. place = "table" /\ packets # <<>>
  BY <1>1, <1>2, NextWrite
<1>4. \/ place' = "closed" /\ Submit("final", flow')
      \/ place' = "table" /\ queue' = queue
  BY <1>3 DEF LastWrite
<1>5. PlaceInv' /\ QueueInv'
  <2>1. CASE place' = "closed" /\ Submit("final", flow')
    <3>1. PICK f : f = flow'
      OBVIOUS
    <3>. QED
      BY <1>1, <1>3, <2>1, <3>1, SubmitIs
  <2>2. CASE place' = "table" /\ queue' = queue
    BY <1>1, <1>3, <2>2 DEF PlaceInv, QueueInv
  <2>. QED
    BY <1>4, <2>1, <2>2
<1>6. AddingInv'
  BY <1>1 DEF AddingInv
<1>7. ToSet(adding'.writes) = ToSet(Tail(adding.writes))
  <2>1. adding.writes \in Seq(WriteNames)
    BY <1>1, <1>2 DEF AddingInv
  <2>2. Tail(adding.writes) = <<>>
    <3>1. Tail(adding.writes) \in Seq(WriteNames) /\ Len(Tail(adding.writes)) = 0
      <4>1. PICK n \in Nat : n = Len(adding.writes) /\ n = 1
        BY <1>2
      <4>2. adding.writes # <<>>
        BY <1>2
      <4>3. /\ Tail(adding.writes) \in Seq(WriteNames)
            /\ Len(Tail(adding.writes)) = Len(adding.writes) - 1
        BY <2>1, <4>2, HeadTail
      <4>. QED
        BY <4>1, <4>3
    <3>2. PICK t : t = Tail(adding.writes)
      OBVIOUS
    <3>3. t \in Seq(WriteNames) /\ Len(t) = 0
      BY <3>1, <3>2
    <3>4. t = <<>>
      BY <3>3
    <3>. QED
      BY <3>2, <3>4
  <2>. QED
    BY <1>1, <2>2 DEF Nothing
<1>8. place' # "none"
  BY <1>4
<1>9. FlowInv'
  BY <1>1, <1>2, <1>7, <1>8, WrittenKeepsFlow
<1>10. JobInv'
  BY <1>1, <1>2, <1>8, WrittenKeepsJobs
<1>11. OutcomesInv'
  BY <1>1, <1>3, OutcomesKept
<1>. QED
  BY <1>5, <1>6, <1>9, <1>10, <1>11 DEF IInv

-----------------------------------------------------------------------------
(* The steps of the timeout thread and of the operator.                    *)

LEMMA JobsKept ==
    ASSUME JobInv, job' = job, flow' = flow, packets' = packets, adding' = adding,
           place # "none" => place' # "none", place = "closed" => place' = "closed",
           switches' = switches, model' = model
    PROVE  JobInv'
BY DEF JobInv, JobOk, MappedInv, Complete

LEMMA FlowKept ==
    ASSUME FlowInv, flow' = flow, packets' = packets, adding' = adding, place # "none"
    PROVE  FlowInv'
BY DEF FlowInv, LengthsInv, PshInv, UrgInv, CountsInv, SeenInv, Done

LEMMA ExpireStep ==
    ASSUME IInv, Expire
    PROVE  IInv'
<1>1. /\ PlaceInv /\ AddingInv /\ FlowInv /\ JobInv /\ QueueInv /\ OutcomesInv
      /\ adding = Nothing /\ place = "table" /\ place' = "closed" /\ Submit("final", flow)
      /\ flow' = flow /\ adding' = adding /\ packets' = packets /\ handed' = handed /\ job' = job
      /\ model' = model /\ switches' = switches /\ outcomes' = outcomes
  BY DEF IInv, Expire, LockFree
<1>2. PlaceInv' /\ QueueInv'
  BY <1>1, SubmitIs
<1>3. AddingInv'
  BY <1>1 DEF AddingInv
<1>4. FlowInv' /\ JobInv' /\ OutcomesInv'
  BY <1>1, FlowKept, JobsKept, OutcomesKept
<1>. QED
  BY <1>2, <1>3, <1>4 DEF IInv

LEMMA SweepStep ==
    ASSUME IInv, Sweep
    PROVE  IInv'
<1>1. /\ PlaceInv /\ AddingInv /\ FlowInv /\ JobInv /\ QueueInv /\ OutcomesInv
      /\ adding = Nothing /\ place = "table" /\ place' = place /\ queue' = queue
      /\ flow' = flow /\ adding' = adding /\ packets' = packets /\ job' = job
      /\ model' = model /\ switches' = switches /\ outcomes' = outcomes
  BY DEF IInv, Sweep, LockFree
<1>2. PlaceInv' /\ QueueInv' /\ AddingInv'
  BY <1>1 DEF PlaceInv, QueueInv, AddingInv
<1>3. FlowInv' /\ JobInv' /\ OutcomesInv'
  BY <1>1, FlowKept, JobsKept, OutcomesKept
<1>. QED
  BY <1>2, <1>3 DEF IInv

LEMMA HandOverStep ==
    ASSUME IInv, HandOver
    PROVE  IInv'
<1>1. /\ PlaceInv /\ AddingInv /\ FlowInv /\ JobInv /\ QueueInv /\ OutcomesInv
      /\ handed /\ place' = place /\ Submit("periodic", flow)
      /\ flow' = flow /\ adding' = adding /\ packets' = packets /\ job' = job
      /\ model' = model /\ switches' = switches /\ outcomes' = outcomes
  BY DEF IInv, HandOver
<1>2. place # "none" /\ place' \in {"table", "closed"}
  BY <1>1 DEF PlaceInv
<1>3. PlaceInv' /\ QueueInv'
  BY <1>1, <1>2, SubmitIs
<1>4. AddingInv'
  BY <1>1 DEF AddingInv
<1>5. FlowInv' /\ JobInv' /\ OutcomesInv'
  BY <1>1, <1>2, FlowKept, JobsKept, OutcomesKept
<1>. QED
  BY <1>3, <1>4, <1>5 DEF IInv

LEMMA SwitchStep ==
    ASSUME IInv, NEW m, SwitchModel(m)
    PROVE  IInv'
<1>1. /\ PlaceInv /\ AddingInv /\ FlowInv /\ JobInv /\ QueueInv /\ OutcomesInv
      /\ place' = place /\ queue' = queue /\ handed' = handed
      /\ flow' = flow /\ adding' = adding /\ packets' = packets /\ job' = job
      /\ switches' = switches + 1 /\ outcomes' = outcomes
  BY DEF IInv, SwitchModel
<1>2. switches \in Nat /\ switches' > 0
  BY <1>1 DEF QueueInv
<1>3. PlaceInv' /\ QueueInv' /\ AddingInv'
  BY <1>1, <1>2 DEF PlaceInv, QueueInv, AddingInv
<1>4. FlowInv'
  BY <1>1 DEF FlowInv, LengthsInv, PshInv, UrgInv, CountsInv, SeenInv, Done
<1>5. JobInv'
  <2>1. SUFFICES ASSUME NEW w \in Workers, job[w] # Idle
                 PROVE  JobOk(job[w])'
    BY <1>1 DEF JobInv
  <2>2. PICK j : j = job[w] /\ JobOk(j)
    BY <1>1, <2>1 DEF JobInv
  <2>3. j.at = 21 => MappedInv(j, packets)'
    <3>1. SUFFICES ASSUME j.at = 21 PROVE MappedInv(j, packets)'
      OBVIOUS
    <3>2. MappedInv(j, packets)
      BY <2>2, <3>1 DEF JobOk
    <3>3. j.asked <= switches' /\ j.asked # switches'
      BY <1>1, <1>2, <3>2 DEF MappedInv
    <3>. QED
      BY <1>1, <3>2, <3>3 DEF MappedInv
  <2>. QED
    BY <1>1, <2>2, <2>3 DEF JobOk, MappedInv, Complete
<1>6. OutcomesInv'
  BY <1>1, <1>2 DEF OutcomesInv, OutcomeOk, Explained
<1>. QED
  BY <1>3, <1>4, <1>5, <1>6 DEF IInv

-----------------------------------------------------------------------------
(* The steps of a worker.                                                  *)

LEMMA InitIsOk == Init => IInv
<1> SUFFICES ASSUME Init PROVE IInv
  OBVIOUS
<1>1. /\ place = "none" /\ packets = <<>> /\ queue = <<>> /\ ~handed /\ adding = Nothing
      /\ job = [w \in Workers |-> Idle] /\ switches = 0 /\ model \in Models /\ outcomes = {}
  BY DEF Init
<1>2. PlaceInv /\ AddingInv /\ FlowInv
  BY <1>1 DEF PlaceInv, AddingInv, FlowInv
<1>3. QueueInv
  <2>1. model # {}
    BY <1>1, LiveFlowConstants
  <2>. QED
    BY <1>1, <2>1 DEF QueueInv
<1>4. JobInv
  BY <1>1 DEF JobInv
<1>5. OutcomesInv
  BY <1>1 DEF OutcomesInv
<1>. QED
  BY <1>2, <1>3, <1>4, <1>5 DEF IInv

LEMMA OneJob ==
    ASSUME JobInv, NEW w \in Workers, NEW j, j = Idle \/ JobOk(j), job' = [job EXCEPT ![w] = j],
           flow' = flow, place' = place, packets' = packets, adding' = adding,
           switches' = switches, model' = model
    PROVE  JobInv'
<1>1. DOMAIN job' = Workers
  BY DEF JobInv
<1>2. ASSUME NEW x \in Workers, job'[x] # Idle
      PROVE  JobOk(job[x])'
  <2>1. PICK k : k = job'[x] /\ k # Idle
    BY <1>2
  <2>2. JobOk(k)
    <3>1. CASE x = w
      BY <2>1, <3>1 DEF JobInv
    <3>2. CASE x # w
      BY <2>1, <3>2 DEF JobInv
    <3>. QED
      BY <3>1, <3>2
  <2>3. JobOk(k)'
    BY <2>2 DEF JobOk, MappedInv, Complete
  <2>. QED
    BY <2>1, <2>3
<1>. QED
  BY <1>1, <1>2 DEF JobInv

LEMMA WorkerKeeps ==
    ASSUME IInv, WorkerStays
    PROVE  PlaceInv' /\ AddingInv' /\ FlowInv' /\ QueueInv'
BY DEF IInv, WorkerStays, PlaceInv, AddingInv, FlowInv, LengthsInv, PshInv, UrgInv, CountsInv,
       SeenInv, Done, QueueInv

\* The job goes on, or it ends with an outcome.
LEMMA GoesOn ==
    ASSUME IInv, WorkerStays, outcomes' = outcomes, NEW w \in Workers, NEW j, JobOk(j),
           job' = [job EXCEPT ![w] = j]
    PROVE  IInv'
<1>1. JobInv'
  BY OneJob DEF IInv, WorkerStays
<1>2. OutcomesInv'
  BY OutcomesKept DEF IInv, WorkerStays
<1>. QED
  BY <1>1, <1>2, WorkerKeeps DEF IInv

LEMMA GoesHome ==
    ASSUME IInv, WorkerStays, NEW w \in Workers, NEW o, OutcomeOk(o, packets),
           outcomes' = outcomes \cup {o}, job' = [job EXCEPT ![w] = Idle]
    PROVE  IInv'
<1>1. JobInv'
  BY OneJob DEF IInv, WorkerStays
<1>2. OutcomesInv'
  BY DEF IInv, WorkerStays, OutcomesInv, OutcomeOk, Explained
<1>. QED
  BY <1>1, <1>2, WorkerKeeps DEF IInv

LEMMA JobBounds ==
    ASSUME IInv, NEW j, JobOk(j)
    PROVE  /\ Len(packets) \in Nat /\ j.since \in 0..Len(packets)
           /\ Complete \in 0..Len(packets)
<1>1. Len(packets) \in Nat /\ packets \in Seq(Packet)
  BY DEF IInv, PlaceInv
<1>2. packets # <<>>
  BY DEF IInv, PlaceInv, JobOk
<1>3. Len(packets) >= 1
  BY <1>1, <1>2
<1>4. Complete \in 0..Len(packets)
  BY <1>1, <1>3 DEF Complete
<1>. QED
  BY <1>1, <1>4 DEF JobOk

LEMMA EndsStep ==
    ASSUME IInv, WorkerStays, NEW w \in Workers, job[w] # Idle, NEW how, NEW result,
           Ends(w, how, result),
           how # "answered" =>
             Explained([how |-> how, result |-> result, kind |-> job[w].kind,
                        since |-> job[w].since, upto |-> Len(packets)], packets),
           how = "answered" /\ OnSchema(result) =>
             /\ VectorOk(packets, result, job[w].since)
             /\ job[w].kind = "final" => Exact(packets, result)
    PROVE  IInv'
<1>1. PICK j : j = job[w] /\ JobOk(j)
  BY DEF IInv, JobInv
<1> DEFINE o == [how |-> how, result |-> result, kind |-> j.kind, since |-> j.since,
                 upto |-> Len(packets)]
<1>2. Len(packets) \in Nat /\ j.since \in 0..Len(packets)
  BY <1>1, JobBounds
<1>3. /\ o.how = how /\ o.result = result /\ o.kind = j.kind /\ o.since = j.since
      /\ o.upto = Len(packets)
  OBVIOUS
<1>4. /\ outcomes' = outcomes \cup {o} /\ job' = [job EXCEPT ![w] = Idle]
      /\ how # "answered" => Explained(o, packets)
  BY <1>1 DEF Ends
<1>5. PICK x : x = o
  OBVIOUS
<1> HIDE DEF o
<1>6. OutcomeOk(x, packets)
  BY <1>1, <1>2, <1>3, <1>4, <1>5 DEF OutcomeOk, VectorOk, JobOk
<1>. QED
  BY <1>4, <1>5, <1>6, GoesHome

LEMMA TakeStep ==
    ASSUME IInv, NEW w \in Workers, Take(w)
    PROVE  IInv'
<1>1. /\ PlaceInv /\ AddingInv /\ FlowInv /\ JobInv /\ QueueInv /\ OutcomesInv
      /\ queue # <<>> /\ queue' = Tail(queue)
      /\ place' = place /\ handed' = handed /\ model' = model
      /\ flow' = flow /\ adding' = adding /\ packets' = packets
      /\ switches' = switches /\ outcomes' = outcomes
  BY DEF IInv, Take
<1> DEFINE j == [kind |-> Head(queue), at |-> 1, view |-> <<>>, since |-> Complete,
                 left |-> <<>>, size |-> 0]
<1>2. job' = [job EXCEPT ![w] = j]
  BY DEF Take
<1>3. /\ place # "none" /\ packets \in Seq(Packet) /\ packets # <<>> /\ Len(packets) \in Nat
  BY <1>1 DEF PlaceInv
<1>4. /\ queue \in Seq({"periodic", "final"}) /\ Len(queue) \in Nat /\ 1 \in DOMAIN queue
      /\ Head(queue) = queue[1] /\ Head(queue) \in {"periodic", "final"}
      /\ Tail(queue) \in Seq({"periodic", "final"})
      /\ \A i \in DOMAIN Tail(queue) : i + 1 \in DOMAIN queue /\ Tail(queue)[i] = queue[i + 1]
  BY <1>1 DEF QueueInv
<1>5. Complete \in 0..Len(packets)
  BY <1>3 DEF Complete
<1>6. Complete \in 0..Complete
  BY <1>5
<1>7. Head(queue) = "final" => place = "closed" /\ Complete = Len(packets)
  <2>1. Head(queue) = "final" => place = "closed"
    BY <1>1, <1>4 DEF QueueInv
  <2>2. place = "closed" => adding = Nothing
    BY <1>1 DEF AddingInv
  <2>. QED
    BY <1>3, <2>1, <2>2 DEF Complete
<1>8. /\ j.kind = Head(queue) /\ j.at = 1 /\ j.view = <<>> /\ j.since = Complete
      /\ JobFields \subseteq DOMAIN j
  BY DEF JobFields
<1>9. PICK k : k = j
  OBVIOUS
<1> HIDE DEF j
<1>10. ReadingInv(k, flow.keys, packets)
  <2>1. DOMAIN k.view = {} /\ ReadBefore(k.at) = {}
    BY <1>8, <1>9 DEF ReadBefore
  <2>2. k.at = 1 /\ JobFields \subseteq DOMAIN k
    BY <1>8, <1>9
  <2>. QED
    BY <2>1, <2>2 DEF ReadingInv, CountsLater, ScanningInv
<1>11. JobOk(k)
  BY <1>3, <1>4, <1>6, <1>7, <1>8, <1>9, <1>10 DEF JobOk
<1>12. JobInv'
  BY <1>1, <1>2, <1>9, <1>11, OneJob
<1>13. PlaceInv' /\ QueueInv' /\ AddingInv'
  BY <1>1, <1>3, <1>4 DEF PlaceInv, QueueInv, AddingInv
<1>14. FlowInv' /\ OutcomesInv'
  BY <1>1, <1>3, FlowKept, OutcomesKept
<1>. QED
  BY <1>12, <1>13, <1>14 DEF IInv

\* What the counters of a side of the flow are now.
LEMMA ValuesAre ==
    ASSUME PlaceInv, FlowInv, place # "none"
    PROVE  /\ Value(flow, "inPkts") = Cardinality(OnSide(packets, "fwd"))
           /\ Value(flow, "outPkts") = Cardinality(OnSide(packets, "bwd"))
           /\ Len(Value(flow, "lengths"))
                = Cardinality(OnSide(packets, "fwd")) + Cardinality(OnSide(packets, "bwd"))
<1>1. FlowType(flow, packets) /\ LengthsInv(flow)
  BY DEF FlowInv
<1>2. flow.lengths["fwd"] \in Seq(Nat) /\ flow.lengths["bwd"] \in Seq(Nat)
  BY <1>1, FlowFields DEF Sides
<1>3. /\ Len(flow.lengths["fwd"]) = Cardinality(OnSide(packets, "fwd"))
      /\ Len(flow.lengths["bwd"]) = Cardinality(OnSide(packets, "bwd"))
  BY <1>1 DEF LengthsInv, LengthsOf, Sides
<1>4. /\ Value(flow, "inPkts") = Len(flow.lengths["fwd"])
      /\ Value(flow, "outPkts") = Len(flow.lengths["bwd"])
      /\ Value(flow, "lengths") = flow.lengths["fwd"] \o flow.lengths["bwd"]
  BY DEF Value
<1>5. Len(flow.lengths["fwd"] \o flow.lengths["bwd"])
        = Len(flow.lengths["fwd"]) + Len(flow.lengths["bwd"])
  BY <1>2
<1>. QED
  BY <1>3, <1>4, <1>5, Zenon

LEMMA ReadAdds ==
    ASSUME IInv, NEW j, JobOk(j), j.at \in 1..19, Reads[j.at] # "scan",
           NEW k, k = [j EXCEPT !.at = j.at + 1,
                                !.view = With(j.view, Reads[j.at], Value(flow, Reads[j.at]))]
    PROVE  JobOk(k)
<1> DEFINE i == j.at
           what == Reads[i]
           x == Value(flow, what)
           v == j.view
           u == With(v, what, x)
<1>1. /\ PlaceInv /\ AddingInv /\ FlowInv /\ place # "none" /\ i \in 1..19
      /\ ReadingInv(j, flow.keys, packets) /\ JobFields \subseteq DOMAIN j
  <2>1. PlaceInv /\ AddingInv /\ FlowInv
    BY DEF IInv
  <2>2. i <= 20
    OBVIOUS
  <2>3. place # "none" /\ ReadingInv(j, flow.keys, packets)
    BY <2>2 DEF JobOk
  <2>4. JobFields \subseteq DOMAIN j
    BY <2>3 DEF ReadingInv
  <2>. QED
    BY <2>1, <2>3, <2>4
<1>2. /\ k.at = i + 1 /\ k.view = u /\ k.kind = j.kind /\ k.since = j.since
      /\ DOMAIN k = DOMAIN j
  BY <1>1 DEF JobFields
<1>3. /\ ReadBefore(i) \subseteq DOMAIN v /\ DOMAIN v \subseteq ReadBefore(i) \cup {"scan"}
      /\ \A name \in DOMAIN v : ReadOk(packets, name, v[name], j.since)
      /\ CountsLater(packets, v) /\ ScanningInv(j, flow.keys, packets)
  BY <1>1 DEF ReadingInv
<1>4. what \notin DOMAIN v /\ what # "scan"
  BY <1>1, <1>3, ReadNext
<1> HIDE DEF x, v, what
<1>5. /\ DOMAIN u = DOMAIN v \cup {what} /\ u[what] = x
      /\ \A name \in DOMAIN v : u[name] = v[name]
  BY <1>4, WithIs
<1> HIDE DEF u
<1>6. ReadBefore(i + 1) = ReadBefore(i) \cup {what}
  BY <1>1, ReadNext DEF what
<1>7. ASSUME NEW name \in DOMAIN u PROVE ReadOk(packets, name, u[name], j.since)
  <2>1. j.since \in 0..Complete
    BY DEF JobOk
  <2>2. ReadOk(packets, what, x, j.since)
    <3>1. PICK n : n = j.since
      OBVIOUS
    <3>2. ReadOk(packets, what, Value(flow, what), n)
      BY <1>1, <2>1, <3>1, ReadIsOk
    <3>. QED
      BY <3>1, <3>2 DEF x
  <2>3. CASE name = what
    BY <1>5, <2>2, <2>3
  <2>4. CASE name # what
    BY <1>3, <1>5, <2>4
  <2>. QED
    BY <2>3, <2>4
<1>8. CountsLater(packets, u)
  <2>1. what = "inPkts" => x = Cardinality(OnSide(packets, "fwd"))
    BY <1>1, ValuesAre DEF x
  <2>2. what = "outPkts" => x = Cardinality(OnSide(packets, "bwd"))
    BY <1>1, ValuesAre DEF x
  <2>3. /\ SoFar(packets, u, "inPkts", "fwd") = SoFar(packets, v, "inPkts", "fwd")
        /\ SoFar(packets, u, "outPkts", "bwd") = SoFar(packets, v, "outPkts", "bwd")
    BY <1>4, <1>5, <2>1, <2>2 DEF SoFar
  <2>4. CASE what = "lengths"
    <3>1. i = 2
      <4>1. 2 \in 1..19 /\ Reads[2] = "lengths"
        BY ReadsAre
      <4>. QED
        BY <1>1, <2>4, <4>1, ReadOnce DEF what
    <3>2. "inPkts" \notin DOMAIN v /\ "outPkts" \notin DOMAIN v
      <4>1. "inPkts" \notin ReadBefore(i) /\ "outPkts" \notin ReadBefore(i)
        <5>1. ~(i > 4) /\ ~(i > 5)
          BY <3>1
        <5>. QED
          BY <1>1, <5>1, ReadNext
      <4>. QED
        BY <1>3, <4>1
    <3>3. Len(x) = Cardinality(OnSide(packets, "fwd")) + Cardinality(OnSide(packets, "bwd"))
      BY <1>1, <2>4, ValuesAre DEF x
    <3>4. /\ SoFar(packets, v, "inPkts", "fwd") = Cardinality(OnSide(packets, "fwd"))
          /\ SoFar(packets, v, "outPkts", "bwd") = Cardinality(OnSide(packets, "bwd"))
      BY <3>2 DEF SoFar
    <3>5. /\ Cardinality(OnSide(packets, "fwd")) \in Nat /\ Cardinality(OnSide(packets, "bwd")) \in Nat
      BY <1>1, OnSideOf DEF PlaceInv
    <3>. QED
      BY <1>5, <2>3, <2>4, <3>3, <3>4, <3>5 DEF CountsLater
  <2>5. CASE what # "lengths"
    BY <1>3, <1>5, <2>3, <2>5 DEF CountsLater
  <2>. QED
    BY <2>4, <2>5
<1>9. ScanningInv(k, flow.keys, packets)
  <2>1. i # 13
    BY <1>4, ReadsAre DEF what
  <2>2. "scan" \in DOMAIN u <=> "scan" \in DOMAIN v
    BY <1>4, <1>5
  <2>3. i <= 12 => "scan" \notin DOMAIN v
    BY <1>3 DEF ScanningInv, v
  <2>4. i > 13 => "scan" \in DOMAIN v /\ ScanOk(packets, v["scan"], j.since)
    <3>1. i > 13 => "scan" \in ReadBefore(i)
      BY <1>1, ReadNext
    <3>. QED
      BY <1>3, <3>1 DEF ScanningInv, v
  <2>5. k.at <= 12 => "scan" \notin DOMAIN k.view
    BY <1>1, <1>2, <2>2, <2>3
  <2>6. k.at = 13 => "scan" \notin DOMAIN k.view
    BY <1>1, <1>2, <2>2, <2>3
  <2>7. k.at > 13 => ScanOk(packets, k.view["scan"], k.since)
    BY <1>1, <1>2, <1>5, <2>1, <2>4
  <2>. QED
    BY <2>5, <2>6, <2>7 DEF ScanningInv
<1>10. ReadingInv(k, flow.keys, packets)
  BY <1>1, <1>2, <1>3, <1>5, <1>6, <1>7, <1>8, <1>9 DEF ReadingInv
<1>11. k.at \in 1..21 /\ k.at <= 20 /\ k.at # 21
  BY <1>1, <1>2
<1>. QED
  BY <1>2, <1>10, <1>11 DEF JobOk

LEMMA ReadStep ==
    ASSUME IInv, NEW w \in Workers, Read(w)
    PROVE  IInv'
<1>1. PICK what \in ToSet(Reads) \ {"scan"} :
        /\ At(w, what)
        /\ job' = [job EXCEPT ![w].at = @ + 1,
                              ![w].view = With(@, what, Value(flow, what))]
  BY DEF Read
<1>2. WorkerStays /\ outcomes' = outcomes
  BY DEF Read
<1>3. PICK j : j = job[w] /\ JobOk(j)
  BY <1>1 DEF At, IInv, JobInv
<1>4. j.at \in 1..19 /\ Reads[j.at] = what /\ what # "scan" /\ w \in DOMAIN job
  <2>1. j.at \in 1..21
    BY <1>3 DEF JobOk
  <2>2. j.at <= 19 /\ Reads[j.at] = what
    BY <1>1, <1>3, ReadsAre DEF At
  <2>. QED
    BY <2>1, <2>2 DEF IInv, JobInv
<1>5. PICK k : k = [j EXCEPT !.at = j.at + 1,
                             !.view = With(j.view, Reads[j.at], Value(flow, Reads[j.at]))]
  OBVIOUS
<1>6. JobOk(k)
  BY <1>3, <1>4, <1>5, ReadAdds
<1>7. job' = [job EXCEPT ![w] = k]
  <2>1. k = [j EXCEPT !.at = j.at + 1, !.view = With(j.view, what, Value(flow, what))]
    BY <1>4, <1>5
  <2>. QED
    BY <1>1, <1>3, <1>4, <2>1
<1>. QED
  BY <1>2, <1>6, <1>7, GoesOn

\* The flags of the packets that are complete are counted.
LEMMA FlagsAreCounted ==
    ASSUME PlaceInv, AddingInv, FlowInv, place # "none", NEW n \in 0..Complete,
           NEW x \in Flags(packets, 1..n)
    PROVE  x \in ToSet(flow.keys) /\ flow.counts[x] > 0
<1>1. PICK i \in 1..n : x \in packets[i].flags
  BY DEF Flags
<1>2. i \in DOMAIN packets /\ Done(i, x)
  BY CompleteIsDone
<1>. QED
  BY <1>1, <1>2 DEF FlowInv, CountsInv

LEMMA AtScan ==
    ASSUME IInv, NEW w \in Workers, At(w, "scan")
    PROVE  \E j : j = job[w] /\ JobOk(j) /\ j.at = 13 /\ ReadingInv(j, flow.keys, packets)
<1>1. PICK j : j = job[w] /\ JobOk(j)
  BY DEF At, IInv, JobInv
<1>2. j.at \in 1..21 /\ j.at <= 19 /\ Reads[j.at] = "scan"
  BY <1>1, ReadsAre DEF At, JobOk
<1>3. j.at = 13
  <2>1. 13 \in 1..19 /\ j.at \in 1..19 /\ Reads[13] = "scan"
    BY <1>2, ReadsAre
  <2>. QED
    BY <1>2, <2>1, ReadOnce
<1>. QED
  BY <1>1, <1>3 DEF JobOk

\* The reads of a job whose loop over the flags is under way.
LEMMA ScanKeepsReads ==
    ASSUME NEW j, NEW k, NEW keys, NEW s, ReadingInv(j, keys, s), j.at = 13, k.at \in {13, 14},
           JobFields \subseteq DOMAIN k, k.since = j.since,
           DOMAIN k.view = DOMAIN j.view \cup {"scan"},
           \A name \in DOMAIN j.view : name # "scan" => k.view[name] = j.view[name],
           ScanningInv(k, keys, s)
    PROVE  ReadingInv(k, keys, s)
<1>1. ReadBefore(14) = ReadBefore(13) \cup {"scan"}
  <2>1. 13 \in 1..19 /\ 13 + 1 = 14
    OBVIOUS
  <2>2. ReadBefore(13 + 1) = ReadBefore(13) \cup {Reads[13]}
    BY <2>1, ReadNext
  <2>. QED
    BY <2>1, <2>2, ReadsAre
<1>2. /\ ReadBefore(13) \subseteq DOMAIN j.view
      /\ DOMAIN j.view \subseteq ReadBefore(13) \cup {"scan"}
  BY DEF ReadingInv
<1>3. /\ ReadBefore(k.at) \subseteq DOMAIN k.view
      /\ DOMAIN k.view \subseteq ReadBefore(k.at) \cup {"scan"}
  <2>1. CASE k.at = 13
    BY <1>2, <2>1
  <2>2. CASE k.at = 14
    BY <1>1, <1>2, <2>2
  <2>. QED
    BY <2>1, <2>2
<1>4. ASSUME NEW name \in DOMAIN k.view PROVE ReadOk(s, name, k.view[name], k.since)
  <2>1. CASE name = "scan"
    BY <2>1 DEF ReadOk
  <2>2. CASE name # "scan"
    <3>1. name \in DOMAIN j.view /\ k.view[name] = j.view[name]
      BY <2>2
    <3>2. ReadOk(s, name, j.view[name], j.since)
      BY <3>1 DEF ReadingInv
    <3>. QED
      BY <3>1, <3>2
  <2>. QED
    BY <2>1, <2>2
<1>5. CountsLater(s, k.view)
  <2>1. CountsLater(s, j.view)
    BY DEF ReadingInv
  <2>2. /\ "lengths" \in DOMAIN k.view =>
            "lengths" \in DOMAIN j.view /\ k.view["lengths"] = j.view["lengths"]
        /\ SoFar(s, k.view, "inPkts", "fwd") = SoFar(s, j.view, "inPkts", "fwd")
        /\ SoFar(s, k.view, "outPkts", "bwd") = SoFar(s, j.view, "outPkts", "bwd")
    BY DEF SoFar
  <2>. QED
    BY <2>1, <2>2 DEF CountsLater
<1>. QED
  BY <1>3, <1>4, <1>5 DEF ReadingInv

LEMMA ScanBeginsStep ==
    ASSUME IInv, NEW w \in Workers, ScanBegins(w)
    PROVE  IInv'
<1>1. PICK j : j = job[w] /\ JobOk(j) /\ j.at = 13 /\ ReadingInv(j, flow.keys, packets)
  BY AtScan DEF ScanBegins
<1>2. /\ WorkerStays /\ outcomes' = outcomes /\ w \in DOMAIN job /\ "scan" \notin DOMAIN j.view
      /\ JobFields \subseteq DOMAIN j
      /\ PlaceInv /\ AddingInv /\ FlowInv /\ place # "none" /\ j.since \in 0..Complete
  BY <1>1 DEF ScanBegins, IInv, JobInv, ReadingInv, JobOk
<1>3. PICK u : u = With(j.view, "scan", {})
  OBVIOUS
<1>4. PICK k : k = [j EXCEPT !.view = u, !.left = flow.keys, !.size = Len(flow.keys)]
  OBVIOUS
<1>5. job' = [job EXCEPT ![w] = k]
  BY <1>1, <1>2, <1>3, <1>4 DEF ScanBegins
<1>6. /\ k.view = u /\ k.left = flow.keys /\ k.size = Len(flow.keys) /\ k.at = j.at
      /\ k.since = j.since /\ k.kind = j.kind /\ DOMAIN k = DOMAIN j
  BY <1>2, <1>4 DEF JobFields
<1>7. /\ DOMAIN u = DOMAIN j.view \cup {"scan"} /\ u["scan"] = {}
      /\ \A name \in DOMAIN j.view : u[name] = j.view[name]
  BY <1>2, <1>3 DEF With, Joined
<1>8. ScanningInv(k, flow.keys, packets)
  <2>1. flow.keys \in Seq(TcpFlags)
    BY <1>2, FlowFields DEF FlowInv
  <2>2. Len(flow.keys) \in Nat
    BY <2>1
  <2>3. Flags(packets, 1..j.since) \subseteq ToSet(flow.keys)
    <3>1. PICK n : n = j.since
      OBVIOUS
    <3>2. Flags(packets, 1..n) \subseteq ToSet(flow.keys)
      BY <1>2, <3>1, FlagsAreCounted
    <3>. QED
      BY <3>1, <3>2
  <2>. QED
    BY <1>1, <1>6, <1>7, <2>1, <2>2, <2>3 DEF ScanningInv
<1>9. ReadingInv(k, flow.keys, packets)
  BY <1>1, <1>2, <1>6, <1>7, <1>8, ScanKeepsReads
<1>10. JobOk(k)
  BY <1>1, <1>6, <1>9 DEF JobOk
<1>. QED
  BY <1>2, <1>5, <1>10, GoesOn

LEMMA ScanStep ==
    ASSUME IInv, NEW w \in Workers, Scan(w)
    PROVE  IInv'
<1>1. PICK j : j = job[w] /\ JobOk(j) /\ j.at = 13 /\ ReadingInv(j, flow.keys, packets)
  BY AtScan DEF Scan
<1>2. /\ WorkerStays /\ w \in DOMAIN job /\ "scan" \in DOMAIN j.view /\ job[w] # Idle
      /\ JobFields \subseteq DOMAIN j
      /\ PlaceInv /\ AddingInv /\ FlowInv /\ place # "none" /\ j.since \in 0..Complete
  BY <1>1 DEF Scan, At, IInv, JobInv, ReadingInv, JobOk
<1>3. /\ j.left \in Seq(TcpFlags) /\ ToSet(j.left) \subseteq ToSet(flow.keys)
      /\ Flags(packets, 1..j.since) \subseteq j.view["scan"] \cup ToSet(j.left)
      /\ j.view["scan"] \subseteq Flags(packets, DOMAIN packets)
      /\ j.size \in Nat /\ j.size <= Len(flow.keys)
      /\ Len(flow.keys) # j.size
          => Flags(packets, (j.since + 1)..Len(packets)) \cap {"ECE", "CWR"} # {}
  BY <1>1, <1>2 DEF ReadingInv, ScanningInv
<1>4. ASSUME Len(flow.keys) # j.size PROVE IInv'
  <2>1. Ends(w, "raised", 0)
    BY <1>1, <1>4 DEF Scan
  <2>2. Flags(packets, (j.since + 1)..Len(packets)) \cap {"ECE", "CWR"} # {}
    BY <1>3, <1>4
  <2>3. j.kind = "periodic"
    <3>1. SUFFICES ASSUME j.kind = "final" PROVE FALSE
      BY <1>1 DEF JobOk
    <3>2. j.since = Len(packets) /\ Len(packets) \in Nat
      BY <1>1, <3>1, JobBounds DEF JobOk
    <3>3. (j.since + 1)..Len(packets) = {}
      BY <3>2
    <3>. QED
      BY <2>2, <3>3 DEF Flags
  <2>. QED
    BY <1>1, <1>2, <2>1, <2>2, <2>3, EndsStep DEF Explained
<1>5. ASSUME Len(flow.keys) = j.size, j.left = <<>> PROVE IInv'
  <2>1. PICK k : k = [j EXCEPT !.at = j.at + 1]
    OBVIOUS
  <2>2. job' = [job EXCEPT ![w] = k] /\ outcomes' = outcomes
    BY <1>1, <1>2, <1>5, <2>1 DEF Scan
  <2>3. /\ k.at = 14 /\ k.view = j.view /\ k.since = j.since /\ k.kind = j.kind
        /\ DOMAIN k = DOMAIN j
    BY <1>1, <1>2, <2>1 DEF JobFields
  <2>4. ScanOk(packets, j.view["scan"], j.since)
    BY <1>3, <1>5, ToSetOne DEF ScanOk
  <2>5. ScanningInv(k, flow.keys, packets)
    BY <2>3, <2>4 DEF ScanningInv
  <2>6. ReadingInv(k, flow.keys, packets)
    BY <1>1, <1>2, <2>3, <2>5, ScanKeepsReads
  <2>7. JobOk(k)
    BY <1>1, <2>3, <2>6 DEF JobOk
  <2>. QED
    BY <1>2, <2>2, <2>7, GoesOn
<1>6. ASSUME Len(flow.keys) = j.size, j.left # <<>> PROVE IInv'
  <2>1. PICK h : h = Head(j.left)
    OBVIOUS
  <2>2. PICK seen : seen = j.view["scan"] \cup {x \in {h} : flow.counts[x] > 0}
    OBVIOUS
  <2>3. PICK k : k = [j EXCEPT !.left = Tail(j.left), !.view["scan"] = seen]
    OBVIOUS
  <2>4. job' = [job EXCEPT ![w] = k] /\ outcomes' = outcomes
    BY <1>1, <1>2, <1>6, <2>1, <2>2, <2>3 DEF Scan, JobFields
  <2>5. /\ k.at = 13 /\ k.left = Tail(j.left) /\ k.size = j.size /\ k.since = j.since
        /\ k.kind = j.kind /\ DOMAIN k = DOMAIN j
        /\ DOMAIN k.view = DOMAIN j.view /\ k.view["scan"] = seen
        /\ \A name \in DOMAIN j.view : name # "scan" => k.view[name] = j.view[name]
    BY <1>1, <1>2, <2>3 DEF JobFields
  <2>6. /\ h \in TcpFlags /\ Tail(j.left) \in Seq(TcpFlags)
        /\ ToSet(j.left) = {h} \cup ToSet(Tail(j.left))
    BY <1>3, <1>6, <2>1, HeadTail
  <2>7. h \in Flags(packets, 1..j.since) => flow.counts[h] > 0
    <3>1. PICK n : n = j.since
      OBVIOUS
    <3>2. h \in Flags(packets, 1..n) => flow.counts[h] > 0
      BY <1>2, <3>1, FlagsAreCounted
    <3>. QED
      BY <3>1, <3>2
  <2>8. flow.counts[h] > 0 => h \in Flags(packets, DOMAIN packets)
    BY <1>2, <1>3, <2>6 DEF FlowInv, CountsInv, Flags
  <2>9. /\ Flags(packets, 1..j.since) \subseteq seen \cup ToSet(Tail(j.left))
        /\ seen \subseteq Flags(packets, DOMAIN packets)
    BY <1>3, <2>2, <2>6, <2>7, <2>8
  <2>10. ScanningInv(k, flow.keys, packets)
    BY <1>3, <1>6, <2>5, <2>6, <2>9 DEF ScanningInv
  <2>11. DOMAIN k.view = DOMAIN j.view \cup {"scan"}
    BY <1>2, <2>5
  <2>12. ReadingInv(k, flow.keys, packets)
    BY <1>1, <1>2, <2>5, <2>10, <2>11, ScanKeepsReads
  <2>13. JobOk(k)
    BY <1>1, <2>5, <2>12 DEF JobOk
  <2>. QED
    BY <1>2, <2>4, <2>13, GoesOn
<1>. QED
  BY <1>4, <1>5, <1>6

LEMMA MapStep ==
    ASSUME IInv, NEW w \in Workers, Map(w)
    PROVE  IInv'
<1>1. PICK j : j = job[w] /\ JobOk(j)
  BY DEF Map, IInv, JobInv
<1>2. /\ WorkerStays /\ w \in DOMAIN job /\ job[w] # Idle /\ j.at = 20
      /\ QueueInv /\ PlaceInv /\ FlowInv /\ place # "none" /\ packets # <<>>
      /\ ReadingInv(j, flow.keys, packets)
  <2>1. WorkerStays /\ job[w] # Idle /\ j.at = Len(Reads) + 1
    BY <1>1 DEF Map
  <2>2. Len(Reads) = 19
    BY ReadsAre
  <2>3. j.at = 20
    BY <2>1, <2>2
  <2>4. place # "none" /\ ReadingInv(j, flow.keys, packets)
    BY <1>1, <2>3 DEF JobOk
  <2>5. /\ QueueInv /\ PlaceInv /\ FlowInv /\ w \in DOMAIN job
    BY DEF IInv, JobInv
  <2>. QED
    BY <2>1, <2>3, <2>4, <2>5 DEF PlaceInv
<1>3. ASSUME model = {} PROVE IInv'
  <2>1. Ends(w, "no model", 0)
    BY <1>3 DEF Map
  <2>2. switches > 0
    BY <1>2, <1>3 DEF QueueInv
  <2>. QED
    BY <1>2, <2>1, <2>2, EndsStep DEF Explained
<1>4. ASSUME model # {} PROVE IInv'
  <2>1. PICK v : v = Mapped(Features(flow, j.view), model)
    OBVIOUS
  <2>2. PICK k : k = [kind |-> j.kind, at |-> j.at + 1, since |-> j.since, asked |-> switches,
                      vector |-> v]
    OBVIOUS
  <2>3. job' = [job EXCEPT ![w] = k] /\ outcomes' = outcomes
    BY <1>1, <1>4, <2>1, <2>2 DEF Map
  <2>4. /\ k.kind = j.kind /\ k.at = 21 /\ k.since = j.since /\ k.asked = switches
        /\ k.vector = v
    BY <1>2, <2>2
  <2>5. DOMAIN v = model
    BY <2>1 DEF Mapped
  <2>6. PICK n : n = j.since
    OBVIOUS
  <2>7. PICK view : view = j.view
    OBVIOUS
  <2>8. AllRead(packets, view, n) /\ n \in 0..Len(packets) /\ packets \in Seq(Packet)
    BY <1>1, <1>2, <2>6, <2>7, JobBounds, ReadToTheEnd DEF PlaceInv
  <2>9. OnSchema(v) => Computed(v, flow, view, model)
    BY <2>1, <2>7 DEF Computed
  <2>10. OnSchema(v) => VectorOk(packets, v, n)
    BY <2>8, <2>9, VectorIsOk
  <2>11. OnSchema(v) /\ j.kind = "final" => Exact(packets, v)
    <3>1. flow.started = packets[1].time
      BY <1>2, FlowFields DEF FlowInv
    <3>2. j.kind = "final" => n = Len(packets)
      BY <1>1, <2>6 DEF JobOk
    <3>. QED
      BY <1>2, <2>8, <2>9, <3>1, <3>2, VectorIsExact
  <2>12. MappedInv(k, packets)
    BY <1>2, <2>4, <2>5, <2>6, <2>10, <2>11 DEF MappedInv, QueueInv
  <2>13. JobOk(k)
    BY <1>1, <2>4, <2>12 DEF JobOk
  <2>. QED
    BY <1>2, <2>3, <2>13, GoesOn
<1>. QED
  BY <1>3, <1>4

LEMMA PredictStep ==
    ASSUME IInv, NEW w \in Workers, Predict(w)
    PROVE  IInv'
<1>1. PICK j : j = job[w] /\ JobOk(j)
  BY DEF Predict, IInv, JobInv
<1>2. /\ WorkerStays /\ job[w] # Idle /\ QueueInv /\ MappedInv(j, packets)
  <2>1. WorkerStays /\ job[w] # Idle /\ j.at = Len(Reads) + 2
    BY <1>1 DEF Predict
  <2>2. Len(Reads) = 19
    BY ReadsAre
  <2>3. j.at = 21
    BY <2>1, <2>2
  <2>. QED
    BY <1>1, <2>1, <2>3 DEF IInv, JobOk
<1>3. ASSUME model = {}, Ends(w, "no model", 0) PROVE IInv'
  BY <1>2, <1>3, EndsStep DEF QueueInv, Explained
<1>4. ASSUME ~Valid(j.vector), Ends(w, "rejected", switches - j.asked) PROVE IInv'
  <2>1. switches - j.asked > 0
    BY <1>2, <1>4 DEF MappedInv, QueueInv, Valid
  <2>2. PICK late : late = switches - j.asked
    OBVIOUS
  <2>3. Ends(w, "rejected", late) /\ late > 0
    BY <1>4, <2>1, <2>2
  <2>. QED
    BY <1>2, <2>3, EndsStep DEF Explained
<1>5. ASSUME Ends(w, "answered", j.vector) PROVE IInv'
  <2>1. PICK v : v = j.vector
    OBVIOUS
  <2>2. Ends(w, "answered", v)
    BY <1>5, <2>1
  <2>3. OnSchema(v) => VectorOk(packets, v, job[w].since)
    BY <1>1, <1>2, <2>1 DEF MappedInv
  <2>4. OnSchema(v) /\ job[w].kind = "final" => Exact(packets, v)
    BY <1>1, <1>2, <2>1 DEF MappedInv
  <2>. QED
    BY <1>2, <2>2, <2>3, <2>4, EndsStep
<1>. QED
  BY <1>1, <1>3, <1>4, <1>5 DEF Predict

-----------------------------------------------------------------------------
(* The theorems.                                                           *)

\* The invariant of the flow, its packets and the jobs that read it is
\* inductive: add_packet writes what its packet carries and nothing else
\* (flow_manager.py:40), and each read of extract_flow_features
\* (flow_features.py:93) is between what the complete packets wrote when the
\* job began and what all of them wrote.
THEOREM Invariance == Spec => []IInv
<1>1. IInv /\ [Next]_vars => IInv'
  <2> SUFFICES ASSUME IInv, [Next]_vars PROVE IInv'
    OBVIOUS
  <2>1. ASSUME NEW f \in Frames, Arrive(f) PROVE IInv'
    BY <2>1, ArriveStep
  <2>2. CASE Write
    BY <2>2, WriteStep
  <2>3. CASE LastWrite
    BY <2>3, LastWriteStep
  <2>4. CASE Expire
    BY <2>4, ExpireStep
  <2>5. CASE Sweep
    BY <2>5, SweepStep
  <2>6. CASE HandOver
    BY <2>6, HandOverStep
  <2>7. ASSUME NEW w \in Workers, Take(w) PROVE IInv'
    BY <2>7, TakeStep
  <2>8. ASSUME NEW w \in Workers, Read(w) PROVE IInv'
    BY <2>8, ReadStep
  <2>9. ASSUME NEW w \in Workers, ScanBegins(w) PROVE IInv'
    BY <2>9, ScanBeginsStep
  <2>10. ASSUME NEW w \in Workers, Scan(w) PROVE IInv'
    BY <2>10, ScanStep
  <2>11. ASSUME NEW w \in Workers, Map(w) PROVE IInv'
    BY <2>11, MapStep
  <2>12. ASSUME NEW w \in Workers, Predict(w) PROVE IInv'
    BY <2>12, PredictStep
  <2>13. ASSUME NEW m \in Models \cup {{}}, SwitchModel(m) PROVE IInv'
    BY <2>13, SwitchStep
  <2>14. CASE UNCHANGED vars
    <3>1. WorkerStays /\ job' = job /\ outcomes' = outcomes
      BY <2>14 DEF vars, WorkerStays
    <3>2. JobInv' /\ OutcomesInv'
      BY <3>1, JobsKept, OutcomesKept DEF IInv, WorkerStays
    <3>. QED
      BY <3>1, <3>2, WorkerKeeps DEF IInv
  <2>. QED
    BY <2>1, <2>2, <2>3, <2>4, <2>5, <2>6, <2>7, <2>8, <2>9, <2>10, <2>11, <2>12, <2>13, <2>14
       DEF Next
<1>. QED
  BY InitIsOk, <1>1, PTL DEF Spec

LEMMA OutcomesAreOk ==
    ASSUME OutcomesInv
    PROVE  ClosedFlowsAreExact /\ SnapshotsAreBracketed /\ LossesAreExplained
<1>1. ClosedFlowsAreExact
  BY DEF OutcomesInv, OutcomeOk, OnSchema, ClosedFlowsAreExact, Measured, Answered
<1>2. SnapshotsAreBracketed
  BY DEF OutcomesInv, OutcomeOk, OnSchema, SnapshotsAreBracketed, Measured, Answered
<1>3. LossesAreExplained
  BY DEF OutcomesInv, OutcomeOk, Explained, LossesAreExplained, Lost, Answered
<1>. QED
  BY <1>1, <1>2, <1>3

\* A flow that was closed is classified on exactly its packets, for any
\* number of packets, frames, workers and models: its counts, its bytes, the
\* flags of each direction, its duration, its longest and its shortest packet
\* and the packets of its histogram, although the worker that reads it takes
\* no lock (flow_features.py:93).
THEOREM ClosedFlowsAreExactHolds == Spec => []ClosedFlowsAreExact
<1>1. IInv => ClosedFlowsAreExact
  BY OutcomesAreOk DEF IInv
<1>. QED
  BY Invariance, <1>1, PTL

\* Whatever the capture thread writes between two reads of a worker, what the
\* worker reports of a flow still open lies between what the flow was when the
\* classification began and what it was when it ended, and its histogram never
\* counts more sizes than packets (flow_features.py:104, 112, 116).
THEOREM SnapshotsAreBracketedHolds == Spec => []SnapshotsAreBracketed
<1>1. IInv => SnapshotsAreBracketed
  BY OutcomesAreOk DEF IInv
<1>. QED
  BY Invariance, <1>1, PTL

\* No flow is lost for another reason than a model that was absent, a model
\* that changed during the classification (detector.py:49, 52), or a first ECE
\* or CWR flag during the loop over the flags (flow_features.py:139).
THEOREM LossesAreExplainedHolds == Spec => []LossesAreExplained
<1>1. IInv => LossesAreExplained
  BY OutcomesAreOk DEF IInv
<1>. QED
  BY Invariance, <1>1, PTL
=============================================================================
