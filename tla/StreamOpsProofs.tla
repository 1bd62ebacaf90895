---------------------------- MODULE StreamOpsProofs ----------------------------
(* What the calls of the streams do, for every width of an int and of a byte, *)
(* every range, value and offset: what a WriteStream leaves (EncodeOK), what  *)
(* ReadStream makes of it when all or part of it arrives (DecodeCppOK), and   *)
(* the client's stream (DecodeCsOK); at the end, the helpers of NetworkUtil.  *)
(*                                                                            *)
(* Recursion comes first.  No prover here instantiates the induction theorems *)
(* of the library, which take a predicate; but a set has a least element      *)
(* (WFMin), and from that follow induction over subsets of Nat and what the   *)
(* recursive functions of the model compute.                                  *)
EXTENDS StreamOps, WellFoundedInduction, TLAPS

-----------------------------------------------------------------------------
\* Recursion.

(* Induction over the natural numbers, as a fact about sets. *)
LEMMA Induction ==
    ASSUME NEW T \in SUBSET Nat, 0 \in T, \A n \in T : n + 1 \in T
    PROVE  T = Nat
<1> SUFFICES ASSUME T # Nat PROVE FALSE
  OBVIOUS
<1> DEFINE Missing == Nat \ T
<1>1. Missing \subseteq Nat /\ Missing # {}
  OBVIOUS
<1>2. PICK n \in Missing : \A m \in Missing : ~(<<m, n>> \in OpToRel(<, Nat))
  BY <1>1, NatLessThanWellFounded, WFMin
<1>3. n \in Nat /\ n \notin T /\ n # 0
  OBVIOUS
<1>4. n - 1 \in Nat /\ n - 1 < n /\ (n - 1) + 1 = n
  BY <1>3
<1>5. n - 1 \notin Missing
  BY <1>2, <1>3, <1>4 DEF OpToRel
<1>6. n - 1 \in T
  BY <1>4, <1>5
<1> QED
  BY <1>3, <1>4, <1>6

(* The same up to a bound. *)
LEMMA BoundedInduction ==
    ASSUME NEW N \in Nat, NEW T, 0 \in T, \A n \in 1..N : n - 1 \in T => n \in T
    PROVE  0..N \subseteq T
<1> DEFINE U == {n \in Nat : n <= N => n \in T}
<1>1. U \in SUBSET Nat /\ 0 \in U
  OBVIOUS
<1>2. ASSUME NEW n \in U PROVE n + 1 \in U
  <2>1. n \in Nat /\ n + 1 \in Nat /\ (n + 1) - 1 = n
    OBVIOUS
  <2>2. CASE n + 1 <= N
    <3>1. n + 1 \in 1..N /\ n \in T
      BY <2>1, <2>2
    <3>2. n + 1 \in T
      BY <2>1, <3>1
    <3> QED
      BY <2>1, <3>2
  <2> QED
    BY <2>1, <2>2
<1>3. U = Nat
  <2> HIDE DEF U
  <2> QED
    BY <1>1, <1>2, Induction
<1> QED
  BY <1>3

(* Recursive functions on 0..N: step[n] leads from f[n - 1] to f[n]. *)
Recurrence(f, N, base, step) == f[0] = base /\ \A n \in 1..N : f[n] = step[n][f[n - 1]]

LEMMA Recursion ==
    ASSUME NEW N \in Nat, NEW S, NEW base \in S, NEW step \in [1..N -> [S -> S]]
    PROVE  \E f \in [0..N -> S] : Recurrence(f, N, base, step)
<1> DEFINE Good(k) == \E g \in [0..k -> S] : Recurrence(g, k, base, step)
           T == {k \in 0..N : Good(k)}
<1>1. 0 \in T
  <2>1. Recurrence([n \in 0..0 |-> base], 0, base, step)
    BY DEF Recurrence
  <2> QED
    BY <2>1
<1>2. ASSUME NEW k \in 1..N, k - 1 \in T PROVE k \in T
  <2>1. PICK g \in [0..(k - 1) -> S] : Recurrence(g, k - 1, base, step)
    BY <1>2
  <2> DEFINE h == [n \in 0..k |-> IF n = k THEN step[k][g[k - 1]] ELSE g[n]]
  <2>2. k - 1 \in 0..(k - 1) /\ g[k - 1] \in S /\ step[k] \in [S -> S]
    OBVIOUS
  <2>3. step[k][g[k - 1]] \in S
    BY <2>2
  <2>4. h \in [0..k -> S]
    BY <2>3
  <2>5. h[0] = base
    BY <2>1 DEF Recurrence
  <2>6. ASSUME NEW n \in 1..k PROVE h[n] = step[n][h[n - 1]]
    <3>0. n - 1 \in 0..k /\ n - 1 # k /\ n \in 0..k
      OBVIOUS
    <3>1. h[n - 1] = g[n - 1]
      BY <3>0
    <3>2. CASE n = k
      BY <3>0, <3>1, <3>2
    <3>3. CASE n # k
      <4>1. n \in 1..(k - 1)
        BY <3>3
      <4>2. h[n] = g[n]
        BY <3>3, <3>0
      <4>3. g[n] = step[n][g[n - 1]]
        BY <4>1, <2>1 DEF Recurrence
      <4> HIDE DEF h
      <4> QED
        BY <4>2, <4>3, <3>1
    <3> QED
      BY <3>2, <3>3
  <2> HIDE DEF h
  <2>7. Recurrence(h, k, base, step)
    BY <2>5, <2>6 DEF Recurrence
  <2> QED
    BY <2>4, <2>7
<1>3. N \in T
  <2> HIDE DEF T
  <2>1. 0..N \subseteq T
    BY <1>1, <1>2, BoundedInduction
  <2> QED
    BY <2>1
<1> QED
  BY <1>3


-----------------------------------------------------------------------------
\* Arithmetic.

LEMMA Multiples ==
    ASSUME NEW b \in Nat, NEW j \in Nat, NEW k \in Nat
    PROVE  /\ j * b \in Nat /\ (j + 1) * b = j * b + b
           /\ j < k => j * b + b <= k * b
           /\ j <= k => j * b <= k * b
OBVIOUS

LEMMA Quotient ==
    ASSUME NEW a \in Int, NEW b \in Nat \ {0}
    PROVE  /\ a \div b \in Int /\ a % b \in 0..(b - 1)
           /\ a = ((a \div b) * b) + (a % b)
           /\ a >= 0 => a \div b >= 0
<1>1. /\ a = (b * (a \div b)) + (a % b)
      /\ a % b \in 0..(b - 1)
      /\ a \div b \in Int
  OBVIOUS
<1>2. a >= 0 => a \div b >= 0
  BY <1>1
<1>3. b * (a \div b) = (a \div b) * b
  BY <1>1
<1> QED
  BY <1>1, <1>2, <1>3

(* Quotient and remainder are the only ones. *)
LEMMA Division ==
    ASSUME NEW b \in Nat \ {0}, NEW q \in Int, NEW r \in 0..(b - 1)
    PROVE  (q * b + r) \div b = q /\ (q * b + r) % b = r
<1> DEFINE a == q * b + r
           q1 == a \div b
           r1 == a % b
<1>1. a \in Int /\ q * b \in Int
  OBVIOUS
<1>2. q1 \in Int /\ r1 \in 0..(b - 1) /\ a = q1 * b + r1
  BY <1>1, Quotient
<1>3. q1 * b + r1 = q * b + r
  BY <1>2
<1> HIDE DEF q1, r1
<1>4. q1 = q
  <2>1. q1 * b - q * b = (q1 - q) * b /\ q1 - q \in Int
    BY <1>2
  <2>2. ASSUME NEW d \in Int, d >= 1 PROVE d * b >= b
    BY <2>2
  <2>3. ASSUME NEW d \in Int, d <= -1 PROVE d * b <= -b
    BY <2>3
  <2>4. q1 * b \in Int /\ q1 * b - q * b = r - r1
    BY <1>1, <1>2, <1>3
  <2>5. r - r1 < b /\ r - r1 > -b
    BY <1>2
  <2>6. ~(q1 - q >= 1)
    BY <2>1, <2>2, <2>4, <2>5
  <2>7. ~(q1 - q <= -1)
    BY <2>1, <2>3, <2>4, <2>5
  <2> QED
    BY <1>2, <2>6, <2>7
<1>5. r1 = r
  BY <1>1, <1>2, <1>3, <1>4
<1> QED
  BY <1>4, <1>5 DEF q1, r1

LEMMA Small ==
    ASSUME NEW b \in Nat \ {0}, NEW r \in 0..(b - 1)
    PROVE  r % b = r /\ r \div b = 0
<1>1. 0 * b + r = r
  OBVIOUS
<1> QED
  BY <1>1, Division

(* The powers of two in use, one after the other. *)
Width == 0..(IntBits + ByteBits + 1)

LEMMA Constants == /\ IntBits \in Nat \ {0, 1} /\ ByteBits \in Nat \ {0}
                   /\ BufferSize \in Nat \ {0, 1} /\ (BufferSize - 1) * ByteBits <= IntMax
BY NetworkUtilAssumption, StreamOpsAssumption

LEMMA Powers == \A n \in Width : 2^n \in Nat \ {0}
<1> DEFINE N == IntBits + ByteBits + 1
           T == {n \in Width : 2^n \in Nat \ {0}}
<1>1. N \in Nat
  BY Constants
<1>2. 0 \in T
  BY <1>1 DEF Width
<1>3. ASSUME NEW n \in 1..N, n - 1 \in T PROVE n \in T
  <2>1. n - 1 \in 0..(IntBits + ByteBits) /\ (n - 1) + 1 = n /\ n \in Width
    BY <1>1, Constants DEF Width
  <2>2. 2^n = 2 * 2^(n - 1)
    BY <2>1, PowersAssumption
  <2>3. 2^(n - 1) \in Nat \ {0}
    BY <1>3
  <2> QED
    BY <2>1, <2>2, <2>3
<1> HIDE DEF T
<1>4. 0..N \subseteq T
  <2> HIDE DEF N
  <2> QED
    BY <1>1, <1>2, <1>3, BoundedInduction
<1> QED
  BY <1>4 DEF T, Width

LEMMA Doubling == ASSUME NEW n \in Width, n # 0
                  PROVE  2^n = 2 * 2^(n - 1) /\ n - 1 \in Width
<1>1. n - 1 \in 0..(IntBits + ByteBits) /\ (n - 1) + 1 = n
  BY Constants DEF Width
<1> QED
  BY <1>1, PowersAssumption, Constants DEF Width

LEMMA PowersGrow == ASSUME NEW m \in Width, NEW n \in Width, m <= n PROVE 2^m <= 2^n
<1> DEFINE N == IntBits + ByteBits + 1
           T == {k \in 0..N : m <= k => 2^m <= 2^k}
<1>1. N \in Nat /\ Width = 0..N
  BY Constants DEF Width
<1>2. 0 \in T
  <2>1. \A x, y \in Width : x = y => 2^x <= 2^y
    BY Powers
  <2>2. m <= 0 => m = 0
    BY DEF Width
  <2>3. 0 \in Width
    BY <1>1
  <2>4. m <= 0 => 2^m <= 2^0
    BY <2>1, <2>2, <2>3
  <2> QED
    BY <1>1, <2>4
<1>3. ASSUME NEW k \in 1..N, k - 1 \in T PROVE k \in T
  <2>1. k \in Width /\ k # 0 /\ 2^k = 2 * 2^(k - 1) /\ k - 1 \in Width
    BY <1>1, Doubling
  <2>2. 2^(k - 1) \in Nat /\ 2^k \in Nat /\ 2^m \in Nat
    BY <2>1, Powers
  <2>3. m <= k - 1 \/ m = k \/ m > k
    BY <1>1, <2>1
  <2>4. CASE m <= k - 1
    BY <1>3, <2>1, <2>2, <2>4
  <2> QED
    BY <2>1, <2>2, <2>3, <2>4
<1> HIDE DEF T, N
<1>4. 0..N \subseteq T
  BY <1>1, <1>2, <1>3, BoundedInduction
<1> QED
  BY <1>1, <1>4 DEF T

(* The function FromBits recurs by exists, and is the only one. *)
LEMMA FromBitsRecurs ==
    ASSUME NEW s \in Seq(Bit)
    PROVE  \E f \in [0..Len(s) -> Int] :
              /\ FromBits(s) = f[Len(s)]
              /\ f[0] = 0
              /\ \A n \in 1..Len(s) : f[n] = f[n - 1] + s[n] * 2^(n - 1)
<1>1. Len(s) \in Nat /\ 0 \in Int
  OBVIOUS
<1> DEFINE N == Len(s)
           step == [n \in 1..N |-> [x \in Int |-> x + s[n] * 2^(n - 1)]]
           Body(f, n) == IF n = 0 THEN 0 ELSE f[n - 1] + s[n] * 2^(n - 1)
           Equation(f) == f = [n \in 0..N |-> Body(f, n)]
           value == CHOOSE f : Equation(f)
<1>2. step \in [1..N -> [Int -> Int]]
  <2> SUFFICES ASSUME NEW n \in 1..N, NEW x \in Int PROVE x + s[n] * 2^(n - 1) \in Int
    OBVIOUS
  <2>1. s[n] \in Int /\ n - 1 \in Nat
    BY DEF Bit
  <2>2. 2^(n - 1) \in Int
    BY <2>1
  <2> QED
    BY <2>1, <2>2
<1>3. PICK f \in [0..N -> Int] : Recurrence(f, N, 0, step)
  <2> HIDE DEF step, N
  <2> QED
    BY <1>1, <1>2, Recursion DEF N
<1>4. ASSUME NEW n \in 1..N PROVE f[n] = f[n - 1] + s[n] * 2^(n - 1)
  <2>1. f[n - 1] \in Int
    BY <1>4
  <2>2. step[n][f[n - 1]] = f[n - 1] + s[n] * 2^(n - 1)
    BY <2>1
  <2> QED
    BY <2>2, <1>3 DEF Recurrence
<1>5. f[0] = 0
  BY <1>3 DEF Recurrence
<1>6. Equation(f)
  <2>1. \A n \in 0..N : f[n] = Body(f, n)
    BY <1>4, <1>5
  <2> QED
    BY <2>1
<1>7. Equation(value)
  <2> HIDE DEF Equation
  <2> QED BY <1>6
<1>8. \A n \in 0..N : value[n] = Body(value, n)
  <2> HIDE DEF value, Body, N
  <2> QED BY <1>7
<1>9. \A n \in 0..N : value[n] = f[n]
  <2> DEFINE T == {n \in 0..N : value[n] = f[n]}
  <2>1. 0 \in T
    <3> HIDE DEF value
    <3> QED BY <1>1, <1>8, <1>5
  <2>2. ASSUME NEW n \in 1..N, n - 1 \in T PROVE n \in T
    <3>1. value[n] = Body(value, n) /\ value[n - 1] = f[n - 1]
      BY <1>8, <2>2
    <3> HIDE DEF value
    <3> QED BY <3>1, <1>4
  <2> HIDE DEF T
  <2>3. 0..N \subseteq T
    <3> HIDE DEF N
    <3> QED BY <2>1, <2>2, <1>1, BoundedInduction DEF N
  <2> QED
    BY <2>3 DEF T
<1>10. FromBits(s) = value[N]
  BY DEF FromBits
<1> HIDE DEF value
<1> QED
  BY <1>1, <1>4, <1>5, <1>9, <1>10

LEMMA ToBitsIsSeq ==
    ASSUME NEW v \in Nat, NEW n \in Width
    PROVE  /\ ToBits(v, n) \in Seq(Bit) /\ Len(ToBits(v, n)) = n
           /\ \A i \in 0..(n - 1) : BitOf(v, i) \in Bit /\ ToBits(v, n)[i + 1] = BitOf(v, i)
<1>1. n \in Nat
  BY DEF Width
<1>2. ASSUME NEW i \in 0..(n - 1) PROVE BitOf(v, i) \in Bit
  <2>1. i \in Width
    BY Constants DEF Width
  <2>2. v \div 2^i \in Int
    BY <2>1, Powers, Quotient
  <2> QED
    BY <2>2 DEF BitOf, Bit
<1>3. \A i \in 1..n : BitOf(v, i - 1) \in Bit
  BY <1>1, <1>2
<1>4. [i \in 1..n |-> BitOf(v, i - 1)] \in Seq(Bit)
  BY <1>1, <1>3
<1>5. Len([i \in 1..n |-> BitOf(v, i - 1)]) = n
  BY <1>1
<1>6. \A i \in 0..(n - 1) : [j \in 1..n |-> BitOf(v, j - 1)][i + 1] = BitOf(v, i)
  BY <1>1
<1> QED
  BY <1>2, <1>4, <1>5, <1>6 DEF ToBits

(* One bit more of a number. *)
LEMMA BitSplits ==
    ASSUME NEW v \in Nat, NEW i \in Width, i + 1 \in Width
    PROVE  v % 2^(i + 1) = (v % 2^i) + BitOf(v, i) * 2^i
<1> DEFINE p == 2^i
           q == v \div p
           r == v % p
           h == q \div 2
           b == q % 2
<1>1. p \in Nat \ {0}
  BY Powers
<1>2. 2^(i + 1) = 2 * p
  <2>1. i + 1 # 0 /\ (i + 1) - 1 = i
    BY DEF Width
  <2> QED
    BY <2>1, Doubling
<1>3. q \in Nat /\ r \in 0..(p - 1) /\ v = q * p + r
  <2> HIDE DEF p
  <2>1. v \in Int /\ v >= 0
    OBVIOUS
  <2>2. v \div p \in Int /\ v % p \in 0..(p - 1) /\ v = (v \div p) * p + (v % p) /\ v \div p >= 0
    BY <1>1, <2>1, Quotient
  <2> QED
    BY <2>2
<1>4. h \in Nat /\ b \in {0, 1} /\ q = 2 * h + b
  <2> HIDE DEF q
  <2> QED
    BY <1>3
<1> HIDE DEF p, q, r, h, b
<1>5. v = h * (2 * p) + (b * p + r)
  <2>1. (2 * h + b) * p = h * (2 * p) + b * p
    BY <1>1, <1>4
  <2>2. q * p = h * (2 * p) + b * p
    BY <1>4, <2>1
  <2>3. h * (2 * p) \in Int /\ b * p \in Int
    BY <1>1, <1>4
  <2> QED
    BY <1>3, <2>2, <2>3
<1>6. b * p + r \in 0..(2 * p - 1) /\ 2 * p \in Nat \ {0}
  BY <1>1, <1>3, <1>4
<1>7. v % (2 * p) = b * p + r
  BY <1>4, <1>5, <1>6, Division
<1>8. BitOf(v, i) = b
  BY DEF BitOf, b, q, p
<1>9. b * p + r = r + b * p
  BY <1>1, <1>3, <1>4
<1> QED
  BY <1>2, <1>7, <1>8, <1>9 DEF r, p

(* FromBits undoes ToBits. *)
LEMMA FromBitsOf ==
    ASSUME NEW v \in Nat, NEW n \in Width
    PROVE  FromBits(ToBits(v, n)) = v % 2^n
<1> DEFINE s == ToBits(v, n)
<1>1. s \in Seq(Bit) /\ Len(s) = n /\ \A i \in 0..(n - 1) : s[i + 1] = BitOf(v, i)
  BY ToBitsIsSeq
<1>2. PICK f \in [0..n -> Int] :
         /\ FromBits(s) = f[n] /\ f[0] = 0
         /\ \A k \in 1..n : f[k] = f[k - 1] + s[k] * 2^(k - 1)
  <2> HIDE DEF s
  <2> QED
    BY <1>1, FromBitsRecurs
<1> DEFINE T == {k \in 0..n : f[k] = v % 2^k}
<1>3. n \in Nat
  BY DEF Width
<1>4. 0 \in T
  <2>1. 2^0 = 1
    OBVIOUS
  <2>2. v % 1 = 0
    OBVIOUS
  <2> QED
    BY <1>2, <1>3, <2>1, <2>2
<1>5. ASSUME NEW k \in 1..n, k - 1 \in T PROVE k \in T
  <2>1. k - 1 \in 0..(n - 1) /\ (k - 1) + 1 = k /\ k - 1 \in Width /\ k \in Width
    BY <1>3, Constants DEF Width
  <2>2. s[k] = BitOf(v, k - 1)
    BY <1>1, <2>1
  <2>3. v % 2^k = (v % 2^(k - 1)) + BitOf(v, k - 1) * 2^(k - 1)
    BY <2>1, BitSplits
  <2>4. f[k - 1] = v % 2^(k - 1)
    BY <1>5
  <2>5. f[k] = f[k - 1] + s[k] * 2^(k - 1)
    BY <1>2
  <2>6. f[k] = v % 2^k
    BY <2>2, <2>3, <2>4, <2>5
  <2>7. k \in 0..n
    BY <1>3
  <2> QED
    BY <2>6, <2>7
<1> HIDE DEF T
<1>6. 0..n \subseteq T
  BY <1>3, <1>4, <1>5, BoundedInduction
<1>7. f[n] = v % 2^n
  BY <1>3, <1>6 DEF T
<1> QED
  BY <1>2, <1>7 DEF s

LEMMA FromBitsRange ==
    ASSUME NEW s \in Seq(Bit), Len(s) \in Width
    PROVE  FromBits(s) \in 0..(2^Len(s) - 1)
<1> DEFINE n == Len(s)
<1>1. n \in Nat
  OBVIOUS
<1>2. PICK f \in [0..n -> Int] :
         /\ FromBits(s) = f[n] /\ f[0] = 0
         /\ \A k \in 1..n : f[k] = f[k - 1] + s[k] * 2^(k - 1)
  BY FromBitsRecurs
<1> HIDE DEF n
<1> DEFINE T == {k \in 0..n : 0 <= f[k] /\ f[k] < 2^k}
<1>3. 0 \in T
  <2>1. 2^0 = 1
    OBVIOUS
  <2> QED
    BY <1>1, <1>2, <2>1
<1>4. ASSUME NEW k \in 1..n, k - 1 \in T PROVE k \in T
  <2>1. k \in Width /\ k # 0
    BY <1>1 DEF Width, n
  <2>2. 2^k = 2 * 2^(k - 1) /\ k - 1 \in Width /\ 2^(k - 1) \in Nat
    BY <2>1, Doubling, Powers
  <2>3. s[k] \in {0, 1}
    BY DEF Bit, n
  <2>4. k - 1 \in 0..n /\ f[k - 1] \in Int /\ 0 <= f[k - 1] /\ f[k - 1] < 2^(k - 1)
    BY <1>1, <1>4
  <2>5. f[k] = f[k - 1] + s[k] * 2^(k - 1)
    BY <1>2
  <2>6. s[k] * 2^(k - 1) = 0 \/ s[k] * 2^(k - 1) = 2^(k - 1)
    BY <2>2, <2>3
  <2>7. 0 <= f[k] /\ f[k] < 2^k
    BY <2>2, <2>4, <2>5, <2>6
  <2>8. k \in 0..n
    BY <1>1
  <2> QED
    BY <2>7, <2>8
<1> HIDE DEF T
<1>5. 0..n \subseteq T
  BY <1>1, <1>3, <1>4, BoundedInduction
<1>6. 0 <= f[n] /\ f[n] < 2^n /\ f[n] \in Int
  BY <1>1, <1>5 DEF T
<1>7. n \in Width /\ 2^n \in Nat
  BY Powers DEF n
<1> QED
  BY <1>2, <1>6, <1>7 DEF n

-----------------------------------------------------------------------------
\* Integers of IntBits bits.

LEMMA IntRange == /\ IntMax \in Nat \ {0} /\ IntMin = -IntMax - 1 /\ 2^IntBits = 2 * IntMax + 2
                  /\ 2^(IntBits - 1) = IntMax + 1
<1>1. IntBits \in Width /\ IntBits # 0 /\ IntBits - 1 \in Width /\ IntBits - 1 # 0
  BY Constants DEF Width
<1>2. 2^IntBits = 2 * 2^(IntBits - 1) /\ 2^(IntBits - 1) = 2 * 2^(IntBits - 1 - 1)
      /\ IntBits - 1 - 1 \in Width
  BY <1>1, Doubling
<1>3. 2^(IntBits - 1 - 1) \in Nat \ {0} /\ 2^(IntBits - 1) \in Nat \ {0}
  BY <1>1, <1>2, Powers
<1> QED
  BY <1>2, <1>3 DEF IntMax, IntMin

LEMMA SignedRange ==
    ASSUME NEW n \in Int
    PROVE  Signed(n) \in IntMin..IntMax /\ (n \in IntMin..IntMax => Signed(n) = n)
<1> DEFINE M == 2^IntBits
           u == n % M
<1>1. M = 2 * IntMax + 2 /\ IntMax \in Nat /\ IntMin = -IntMax - 1 /\ M \in Nat \ {0}
  BY IntRange
<1> HIDE DEF M
<1>2. u \in 0..(M - 1)
  BY <1>1, Quotient
<1>3. Signed(n) = IF u > IntMax THEN u - M ELSE u
  BY DEF Signed, M
<1>4. Signed(n) \in IntMin..IntMax
  <2> HIDE DEF u
  <2> QED
    BY <1>1, <1>2, <1>3
<1>5. ASSUME n \in IntMin..IntMax, n >= 0 PROVE u = n
  <2>1. n \in 0..(M - 1)
    BY <1>1, <1>5
  <2> QED
    BY <1>1, <2>1, Small
<1>6. ASSUME n \in IntMin..IntMax, n < 0 PROVE u = n + M
  <2>1. n + M \in 0..(M - 1) /\ n = (-1) * M + (n + M)
    BY <1>1, <1>6
  <2>2. -1 \in Int
    OBVIOUS
  <2>3. ((-1) * M + (n + M)) % M = n + M
    BY <1>1, <2>1, <2>2, Division
  <2> QED
    BY <2>1, <2>3
<1> HIDE DEF u
<1> QED
  BY <1>1, <1>3, <1>4, <1>5, <1>6

(* The bits of a range are as few as hold it. *)
LEMMA BitsRequiredHold ==
    ASSUME NEW min \in Int, NEW max \in Int, min <= max, max - min < 2^IntBits
    PROVE  LET n == BitsRequired(min, max)
           IN /\ n \in 0..IntBits /\ n \in Width /\ max - min < 2^n
              /\ n # 0 => 2^(n - 1) <= max - min
<1> DEFINE range == max - min
           M == 2^IntBits
           n == BitsRequired(min, max)
<1>1. IntBits \in Width /\ IntBits \in Nat /\ \A k \in 0..IntBits : k \in Width
  BY Constants DEF Width
<1>2. M \in Nat \ {0}
  BY <1>1, Powers
<1>3. range \in 0..(M - 1)
  BY <1>2
<1>4. range % M = range
  <2> HIDE DEF range, M
  <2> QED
    BY <1>2, <1>3, Small
<1>5. CASE range = 0
  <2>1. n = 0
    BY <1>4, <1>5 DEF BitsRequired
  <2>2. 2^0 = 1
    OBVIOUS
  <2> QED
    BY <1>1, <1>5, <2>1, <2>2
<1>6. CASE range # 0
  <2> DEFINE Fits(k) == range \in 2^(k - 1)..(2^k - 1)
             T == {k \in 0..IntBits : range >= 2^k}
  <2>1. \E k \in 1..IntBits : Fits(k)
    <3> SUFFICES ASSUME \A k \in 1..IntBits : ~Fits(k) PROVE FALSE
      OBVIOUS
    <3>1. 0 \in T
      <4>1. 2^0 = 1
        OBVIOUS
      <4> QED
        BY <1>1, <1>3, <1>6, <4>1
    <3>2. ASSUME NEW k \in 1..IntBits, k - 1 \in T PROVE k \in T
      <4>1. ~Fits(k)
        OBVIOUS
      <4>2. k \in Width /\ k - 1 \in Width /\ 2^k \in Nat /\ 2^(k - 1) \in Nat
        <5>1. k \in 0..IntBits /\ k - 1 \in 0..IntBits
          BY <1>1
        <5> QED
          BY <1>1, <5>1, Powers
      <4>3. range >= 2^(k - 1) /\ range \in Int
        BY <3>2, <1>3
      <4> HIDE DEF range
      <4>4. range >= 2^k
        BY <4>1, <4>2, <4>3
      <4>5. k \in 0..IntBits
        BY <1>1
      <4> QED
        BY <4>4, <4>5
    <3> HIDE DEF T
    <3>3. 0..IntBits \subseteq T
      BY <1>1, <3>1, <3>2, BoundedInduction
    <3>4. range >= M
      BY <1>1, <3>3 DEF T
    <3> QED
      BY <1>2, <1>3, <3>4
  <2>2. n = CHOOSE k \in 1..IntBits : Fits(k)
    BY <1>4, <1>6 DEF BitsRequired
  <2>3. n \in 1..IntBits /\ Fits(n)
    <3> HIDE DEF Fits, n
    <3> QED
      BY <2>1, <2>2
  <2> HIDE DEF n
  <2>4. n \in 0..IntBits /\ n \in Width /\ n - 1 \in Width
    <3>1. n \in 0..IntBits /\ n - 1 \in 0..IntBits
      BY <1>1, <2>3
    <3> QED
      BY <1>1, <3>1
  <2>5. 2^n \in Nat /\ 2^(n - 1) \in Nat
    BY <2>4, Powers
  <2>6. max - min < 2^n /\ 2^(n - 1) <= max - min
    BY <2>3, <2>5
  <2> QED
    BY <2>4, <2>6 DEF n
<1> QED
  BY <1>5, <1>6

-----------------------------------------------------------------------------
\* What is where in the bits of a datagram.

(* The n bits after the first from are those of v, or are zero. *)
Holds(d, from, v, n) == \A j \in 0..(n - 1) : d[from + j + 1] = BitOf(v, j)
Zeros(d, from, n)    == \A j \in 0..(n - 1) : d[from + j + 1] = 0

HoldsBytes(d, from, bytes, to) ==
    LET start == from + AlignBits(from)
    IN /\ to = start + Len(bytes) * ByteBits
       /\ Zeros(d, from, AlignBits(from))
       /\ \A i \in 0..(Len(bytes) - 1) : Holds(d, start + i * ByteBits, bytes[i + 1], ByteBits)

HoldsInt(d, from, v, min, max, to) == /\ to = from + BitsRequired(min, max)
                                      /\ Holds(d, from, v - min, BitsRequired(min, max))

(* The bits from..to are those a writer in lang makes of the call c. *)
Carries(d, from, c, lang, to) ==
    \/ c.op \in {"int", "enum"} /\ HoldsInt(d, from, c.value[1], c.min, c.max, to)
    \/ c.op = "bits" /\ to = from + c.size /\ Holds(d, from, c.value[1], c.size)
    \/ c.op = "uint64" /\ to = from + IntBits + IntBits
          /\ Holds(d, from, c.value[1], IntBits) /\ Holds(d, from + IntBits, c.value[2], IntBits)
    \/ c.op = "align" /\ to = from + AlignBits(from) /\ Zeros(d, from, AlignBits(from))
    \/ c.op = "bytes" /\ HoldsBytes(d, from, c.value, to)
    \/ c.op = "string" /\ \E mid \in Nat :
          /\ HoldsInt(d, from, Len(SentBytes(c, lang)), 0, StringMax(lang), mid)
          /\ HoldsBytes(d, mid, SentBytes(c, lang), to)

-----------------------------------------------------------------------------
\* The writer.

Extended(t, s) == /\ t \in Seq(Bit) /\ Len(s) <= Len(t)
                  /\ \A i \in 1..Len(s) : t[i] = s[i]

(* u is at least as long as t, and the same beyond the first k bits. *)
Alike(u, t, k) == /\ u \in Seq(Bit) /\ Len(t) <= Len(u)
                  /\ \A i \in (k + 1)..Len(t) : u[i] = t[i]

LEMMA ExtendedAlike == \A t, u : Extended(u, t) => Alike(u, t, 0)
BY DEF Extended, Alike

LEMMA AlignRange == ASSUME NEW n \in Nat
                    PROVE  /\ AlignBits(n) \in 0..(ByteBits - 1)
                           /\ (n + AlignBits(n)) % ByteBits = 0
<1> DEFINE b == ByteBits
           q == n \div b
           r == n % b
<1>1. b \in Nat \ {0} /\ q \in Nat /\ r \in 0..(b - 1) /\ n = q * b + r
  <2>1. b \in Nat \ {0} /\ n \in Int /\ n >= 0
    BY Constants
  <2> HIDE DEF b
  <2>2. n \div b \in Int /\ n % b \in 0..(b - 1) /\ n = (n \div b) * b + (n % b) /\ n \div b >= 0
    BY <2>1, Quotient
  <2> QED
    BY <2>1, <2>2
<1>2. AlignBits(n) = (b - r) % b
  BY DEF AlignBits
<1> HIDE DEF b, q, r
<1>3. CASE r = 0
  <2>1. AlignBits(n) = 0
    <3>1. b = 1 * b + 0 /\ b - r = b /\ 0 \in 0..(b - 1) /\ 1 \in Int
      BY <1>1, <1>3
    <3>2. (1 * b + 0) % b = 0
      BY <1>1, <3>1, Division
    <3> QED
      BY <1>2, <3>1, <3>2
  <2>2. (q * b + 0) % b = 0 /\ q \in Int /\ 0 \in 0..(b - 1)
    <3>1. q \in Int /\ 0 \in 0..(b - 1)
      BY <1>1
    <3> QED
      BY <1>1, <3>1, Division
  <2>3. n + AlignBits(n) = q * b + 0
    BY <1>1, <1>3, <2>1
  <2> QED
    BY <1>1, <2>1, <2>2, <2>3 DEF b
<1>4. CASE r # 0
  <2>1. b - r \in 0..(b - 1)
    BY <1>1, <1>4
  <2>2. AlignBits(n) = b - r
    BY <1>1, <1>2, <2>1, Small
  <2>3. n + AlignBits(n) = (q + 1) * b + 0
    <3>1. q * b \in Int /\ (q + 1) * b = q * b + b
      BY <1>1, Multiples
    <3> QED
      BY <1>1, <2>2, <3>1
  <2>4. ((q + 1) * b + 0) % b = 0
    <3>1. q + 1 \in Int /\ 0 \in 0..(b - 1)
      BY <1>1
    <3> QED
      BY <1>1, <3>1, Division
  <2> QED
    BY <2>1, <2>2, <2>3, <2>4 DEF b
<1> QED
  BY <1>1, <1>3, <1>4

LEMMA Appended ==
    ASSUME NEW s \in Seq(Bit), NEW n \in Nat, NEW f \in [1..n -> Bit]
    PROVE  /\ Extended(s \o f, s) /\ Len(s \o f) = Len(s) + n
           /\ \A j \in 0..(n - 1) : (s \o f)[Len(s) + j + 1] = f[j + 1]
<1>1. f \in Seq(Bit) /\ Len(f) = n
  OBVIOUS
<1>2. s \o f \in Seq(Bit) /\ Len(s \o f) = Len(s) + n
  BY <1>1
<1>3. \A i \in 1..Len(s) : (s \o f)[i] = s[i]
  BY <1>1
<1>4. ASSUME NEW j \in 0..(n - 1) PROVE (s \o f)[Len(s) + j + 1] = f[j + 1]
  BY <1>1
<1> QED
  BY <1>2, <1>3, <1>4 DEF Extended

LEMMA WriteBitsOK ==
    ASSUME NEW s \in Seq(Bit), NEW v \in Nat, NEW n \in Width
    PROVE  LET t == WriteBits(s, v, n)
           IN Extended(t, s) /\ Len(t) = Len(s) + n /\ Holds(t, Len(s), v, n)
<1> DEFINE f == ToBits(v, n)
<1>1. n \in Nat
  BY DEF Width
<1>2. f \in [1..n -> Bit] /\ \A j \in 0..(n - 1) : f[j + 1] = BitOf(v, j)
  <2>1. f \in Seq(Bit) /\ Len(f) = n /\ \A j \in 0..(n - 1) : f[j + 1] = BitOf(v, j)
    BY ToBitsIsSeq
  <2> HIDE DEF f
  <2> QED
    BY <2>1
<1> HIDE DEF f
<1>3. Extended(s \o f, s) /\ Len(s \o f) = Len(s) + n
  BY <1>1, <1>2, Appended
<1>4. \A j \in 0..(n - 1) : (s \o f)[Len(s) + j + 1] = f[j + 1]
  BY <1>1, <1>2, Appended
<1> QED
  BY <1>2, <1>3, <1>4 DEF WriteBits, Holds, f

LEMMA WriteAlignOK ==
    ASSUME NEW s \in Seq(Bit)
    PROVE  LET t == WriteAlign(s)
           IN /\ Extended(t, s) /\ Len(t) = Len(s) + AlignBits(Len(s))
              /\ Zeros(t, Len(s), AlignBits(Len(s)))
<1> DEFINE n == AlignBits(Len(s))
           f == [i \in 1..n |-> 0]
<1>1. n \in Nat
  BY AlignRange, Constants
<1> HIDE DEF n
<1>2. f \in [1..n -> Bit] /\ \A j \in 0..(n - 1) : f[j + 1] = 0
  BY <1>1 DEF Bit
<1>3. WriteAlign(s) = s \o f
  BY DEF WriteAlign, n
<1> HIDE DEF f
<1>4. Extended(s \o f, s) /\ Len(s \o f) = Len(s) + n
  BY <1>1, <1>2, Appended
<1>5. \A j \in 0..(n - 1) : (s \o f)[Len(s) + j + 1] = f[j + 1]
  BY <1>1, <1>2, Appended
<1> QED
  BY <1>2, <1>3, <1>4, <1>5 DEF Zeros, n

LEMMA ExtendedTwice ==
    ASSUME NEW s \in Seq(Bit), NEW t, NEW u, Extended(t, s), Extended(u, t)
    PROVE  Extended(u, s)
<1>1. t \in Seq(Bit) /\ u \in Seq(Bit) /\ Len(s) <= Len(t) /\ Len(t) <= Len(u)
  BY DEF Extended
<1>2. ASSUME NEW i \in 1..Len(s) PROVE u[i] = s[i]
  <2>1. i \in 1..Len(t) /\ t[i] = s[i]
    BY <1>1 DEF Extended
  <2> QED
    BY <2>1 DEF Extended
<1> QED
  BY <1>1, <1>2 DEF Extended

(* What is longer, or has changed before it, still holds it. *)
LEMMA StillHolds ==
    ASSUME NEW t \in Seq(Bit), NEW u, NEW k \in Nat, Alike(u, t, k), NEW from \in Nat, k <= from,
           NEW n \in Nat, from + n <= Len(t)
    PROVE  /\ \A v : Holds(t, from, v, n) => Holds(u, from, v, n)
           /\ Zeros(t, from, n) => Zeros(u, from, n)
<1>1. \A j \in 0..(n - 1) : u[from + j + 1] = t[from + j + 1]
  <2> SUFFICES ASSUME NEW j \in 0..(n - 1) PROVE u[from + j + 1] = t[from + j + 1]
    OBVIOUS
  <2>1. from + j + 1 \in (k + 1)..Len(t)
    OBVIOUS
  <2> QED
    BY <2>1 DEF Alike
<1> QED
  BY <1>1 DEF Holds, Zeros

LEMMA ByteFacts == Byte \subseteq Nat /\ ByteBits \in Width /\ IntBits \in Width
<1>1. ByteBits \in Width /\ IntBits \in Width
  BY Constants DEF Width
<1> QED
  BY <1>1, Powers DEF Byte

LEMMA WriteBytesOK ==
    ASSUME NEW s \in Seq(Bit), NEW bytes \in Seq(Byte)
    PROVE  LET t == WriteBytes(s, bytes)
           IN Extended(t, s) /\ HoldsBytes(t, Len(s), bytes, Len(t))
<1> DEFINE a == WriteAlign(s)
           n == Len(bytes) * ByteBits
           f == [k \in 1..n |-> BitOf(bytes[(k - 1) \div ByteBits + 1], (k - 1) % ByteBits)]
           start == Len(s) + AlignBits(Len(s))
<1>1. ByteBits \in Nat \ {0} /\ Len(bytes) \in Nat /\ n \in Nat /\ Len(s) \in Nat
  BY Constants, Multiples
<1>2. Extended(a, s) /\ Len(a) = start /\ Zeros(a, Len(s), AlignBits(Len(s)))
  BY WriteAlignOK
<1>3. a \in Seq(Bit) /\ AlignBits(Len(s)) \in Nat
  <2>1. AlignBits(Len(s)) \in Nat
    BY <1>1, AlignRange
  <2> QED
    BY <1>2, <2>1 DEF Extended
<1>4. ASSUME NEW i \in 0..(Len(bytes) - 1), NEW j \in 0..(ByteBits - 1)
      PROVE  /\ i * ByteBits + j + 1 \in 1..n
             /\ f[i * ByteBits + j + 1] = BitOf(bytes[i + 1], j)
  <2>1. i \in Nat /\ i + 1 <= Len(bytes) /\ i + 1 \in Nat
    BY <1>1
  <2>2. i * ByteBits \in Nat /\ (i + 1) * ByteBits = i * ByteBits + ByteBits
    BY <1>1, <2>1, Multiples
  <2>3. (i + 1) * ByteBits <= n
    BY <1>1, <2>1, Multiples
  <2> DEFINE k == i * ByteBits + j + 1
  <2>4. k \in 1..n
    <3>1. i * ByteBits + ByteBits <= n
      BY <2>2, <2>3
    <3> HIDE DEF n
    <3> QED
      BY <1>1, <2>2, <3>1
  <2>5. k - 1 = i * ByteBits + j
    BY <2>2
  <2>6. (i * ByteBits + j) \div ByteBits = i /\ (i * ByteBits + j) % ByteBits = j
    <3>1. i \in Int
      BY <2>1
    <3> QED
      BY <1>1, <3>1, Division
  <2>7. f[k] = BitOf(bytes[(k - 1) \div ByteBits + 1], (k - 1) % ByteBits)
    <3> HIDE DEF k, n
    <3> QED
      BY <2>4
  <2>8. f[k] = BitOf(bytes[i + 1], j)
    BY <2>5, <2>6, <2>7
  <2> QED
    BY <2>4, <2>8
<1>5. f \in [1..n -> Bit]
  <2> SUFFICES ASSUME NEW k \in 1..n
               PROVE  BitOf(bytes[(k - 1) \div ByteBits + 1], (k - 1) % ByteBits) \in Bit
    OBVIOUS
  <2> DEFINE i == (k - 1) \div ByteBits
             j == (k - 1) % ByteBits
  <2>1. k - 1 \in Nat
    BY <1>1
  <2>2. i \in Nat /\ j \in 0..(ByteBits - 1) /\ k - 1 = i * ByteBits + j
    <3>1. k - 1 \in Int /\ k - 1 >= 0
      BY <2>1
    <3>2. i \in Int /\ j \in 0..(ByteBits - 1) /\ k - 1 = i * ByteBits + j /\ i >= 0
      BY <1>1, <3>1, Quotient
    <3> QED
      BY <3>2
  <2> HIDE DEF i, j
  <2>3. i + 1 \in 1..Len(bytes)
    <3>1. i >= Len(bytes) => n <= i * ByteBits
      BY <1>1, <2>2, Multiples
    <3>2. i * ByteBits \in Nat
      BY <1>1, <2>2, Multiples
    <3>3. ~(i >= Len(bytes))
      <4> HIDE DEF n
      <4> QED
        BY <1>1, <2>2, <3>1, <3>2
    <3> QED
      BY <1>1, <2>2, <3>3
  <2>4. bytes[i + 1] \in Nat
    <3>1. bytes[i + 1] \in Byte
      BY <2>3
    <3> QED
      BY <3>1, ByteFacts
  <2>5. BitOf(bytes[i + 1], j) \in Bit
    <3>1. ByteBits \in Width
      BY ByteFacts
    <3> QED
      BY <2>2, <2>4, <3>1, ToBitsIsSeq
  <2> QED
    BY <2>5 DEF i, j
<1>6. WriteBytes(s, bytes) = a \o f
  BY DEF WriteBytes
<1> HIDE DEF f, n, a
<1>7. Extended(a \o f, a) /\ Len(a \o f) = Len(a) + n
  BY <1>1, <1>3, <1>5, Appended
<1>8. \A j \in 0..(n - 1) : (a \o f)[Len(a) + j + 1] = f[j + 1]
  BY <1>1, <1>3, <1>5, Appended
<1> DEFINE t == a \o f
<1> HIDE DEF t
<1>9. Extended(t, s)
  BY <1>2, <1>7, ExtendedTwice DEF t
<1>10. Zeros(t, Len(s), AlignBits(Len(s)))
  <2>1. Len(s) + AlignBits(Len(s)) <= Len(a) /\ Extended(t, a)
    BY <1>1, <1>2, <1>3, <1>7 DEF t
  <2> QED
    BY <1>1, <1>2, <1>3, <2>1, StillHolds, ExtendedAlike
<1>11. \A i \in 0..(Len(bytes) - 1) : Holds(t, start + i * ByteBits, bytes[i + 1], ByteBits)
  <2> SUFFICES ASSUME NEW i \in 0..(Len(bytes) - 1), NEW j \in 0..(ByteBits - 1)
               PROVE  t[start + i * ByteBits + j + 1] = BitOf(bytes[i + 1], j)
    BY DEF Holds
  <2>1. i * ByteBits + j + 1 \in 1..n /\ f[i * ByteBits + j + 1] = BitOf(bytes[i + 1], j)
    BY <1>4
  <2>2. i * ByteBits \in Nat /\ j \in Nat
    BY <1>1, Multiples
  <2> DEFINE m == i * ByteBits
  <2> HIDE DEF m
  <2>3. m + j \in 0..(n - 1) /\ m \in Nat
    BY <1>1, <2>1, <2>2 DEF m
  <2>4. t[Len(a) + (m + j) + 1] = f[(m + j) + 1]
    BY <1>8, <2>3 DEF t
  <2>5. Len(a) + (m + j) + 1 = start + m + j + 1
    BY <1>1, <1>2, <1>3, <2>2, <2>3
  <2>6. t[start + m + j + 1] = f[m + j + 1]
    BY <2>4, <2>5
  <2> QED
    BY <2>1, <2>6 DEF m
<1>12. Len(t) = start + n
  BY <1>2, <1>7 DEF t
<1> QED
  BY <1>6, <1>9, <1>10, <1>11, <1>12 DEF HoldsBytes, t, n

LEMMA WriteIntOK ==
    ASSUME NEW s \in Seq(Bit), NEW min \in IntMin..IntMax, NEW max \in IntMin..IntMax,
           min <= max, NEW v \in min..max
    PROVE  LET t == WriteInteger(s, v, min, max)
           IN Extended(t, s) /\ HoldsInt(t, Len(s), v, min, max, Len(t))
<1> DEFINE M == 2^IntBits
           n == BitsRequired(min, max)
<1>1. M = 2 * IntMax + 2 /\ IntMin = -IntMax - 1 /\ IntMax \in Nat
  BY IntRange
<1>2. M \in Nat \ {0} /\ v - min \in 0..(M - 1) /\ v - min \in Nat
  <2> HIDE DEF M
  <2> QED
    BY <1>1
<1>3. (v - min) % M = v - min
  <2> HIDE DEF M
  <2> QED
    BY <1>2, Small
<1>4. n \in Width
  <2>1. min \in Int /\ max \in Int /\ max - min < M
    <3> HIDE DEF M
    <3> QED
      BY <1>1
  <2> QED
    BY <2>1, BitsRequiredHold
<1>5. WriteInteger(s, v, min, max) = WriteBits(s, v - min, n)
  BY <1>3 DEF WriteInteger
<1> HIDE DEF n
<1> QED
  BY <1>2, <1>4, <1>5, WriteBitsOK DEF HoldsInt, n

LEMMA WriteStringOK ==
    ASSUME NEW s \in Seq(Bit), NEW bytes \in Seq(Byte), NEW max \in 1..IntMax, Len(bytes) <= max
    PROVE  LET t == WriteBytes(WriteInteger(s, Len(bytes), 0, max), bytes)
           IN /\ Extended(t, s)
              /\ \E mid \in Nat : /\ HoldsInt(t, Len(s), Len(bytes), 0, max, mid)
                                  /\ HoldsBytes(t, mid, bytes, Len(t))
<1> DEFINE u == WriteInteger(s, Len(bytes), 0, max)
           t == WriteBytes(u, bytes)
<1>1. IntMax \in Nat /\ IntMin = -IntMax - 1
  BY IntRange
<1>2. 0 \in IntMin..IntMax /\ max \in IntMin..IntMax /\ 0 <= max /\ Len(bytes) \in 0..max
  BY <1>1
<1>3. Extended(u, s) /\ HoldsInt(u, Len(s), Len(bytes), 0, max, Len(u))
  BY <1>2, WriteIntOK
<1> HIDE DEF u
<1>4. u \in Seq(Bit)
  BY <1>3 DEF Extended
<1>5. Extended(t, u) /\ HoldsBytes(t, Len(u), bytes, Len(t))
  BY <1>4, WriteBytesOK
<1> HIDE DEF t
<1>6. HoldsInt(t, Len(s), Len(bytes), 0, max, Len(u))
  <2> DEFINE n == BitsRequired(0, max)
  <2>1. n \in Nat
    <3>1. 0 \in Int /\ max \in Int /\ max - 0 < 2^IntBits /\ IntBits \in Nat
      <4>1. 2^IntBits = 2 * IntMax + 2
        BY IntRange
      <4> QED
        BY <1>1, <4>1, Constants
    <3> QED
      BY <1>2, <3>1, BitsRequiredHold
  <2> HIDE DEF n
  <2>2. Len(u) = Len(s) + n /\ Holds(u, Len(s), Len(bytes) - 0, n)
    BY <1>3 DEF HoldsInt, n
  <2>3. Len(s) \in Nat /\ Len(s) + n <= Len(u)
    BY <2>1, <2>2
  <2>4. Holds(t, Len(s), Len(bytes) - 0, n)
    BY <1>4, <1>5, <2>1, <2>2, <2>3, StillHolds, ExtendedAlike
  <2> QED
    BY <2>2, <2>4 DEF HoldsInt, n
<1>7. Extended(t, s)
  BY <1>3, <1>5, ExtendedTwice
<1>8. Len(u) \in Nat
  BY <1>4
<1> QED
  BY <1>5, <1>6, <1>7, <1>8 DEF t, u

LEMMA WriteLongOK ==
    ASSUME NEW s \in Seq(Bit), NEW lo \in Uint, NEW hi \in Uint
    PROVE  LET t == WriteBits(WriteBits(s, lo, IntBits), hi, IntBits)
           IN /\ Extended(t, s) /\ Len(t) = Len(s) + IntBits + IntBits
              /\ Holds(t, Len(s), lo, IntBits) /\ Holds(t, Len(s) + IntBits, hi, IntBits)
<1> DEFINE u == WriteBits(s, lo, IntBits)
           t == WriteBits(u, hi, IntBits)
<1>1. IntBits \in Width /\ IntBits \in Nat /\ lo \in Nat /\ hi \in Nat
  BY Constants, ByteFacts, Powers DEF Uint
<1>2. Extended(u, s) /\ Len(u) = Len(s) + IntBits /\ Holds(u, Len(s), lo, IntBits)
  BY <1>1, WriteBitsOK
<1> HIDE DEF u
<1>3. u \in Seq(Bit) /\ Len(s) \in Nat
  BY <1>2 DEF Extended
<1>4. Extended(t, u) /\ Len(t) = Len(u) + IntBits /\ Holds(t, Len(u), hi, IntBits)
  BY <1>1, <1>3, WriteBitsOK
<1> HIDE DEF t
<1>5. Len(s) + IntBits <= Len(u)
  BY <1>1, <1>2, <1>3
<1>6. Holds(t, Len(s), lo, IntBits)
  <2>1. Alike(t, u, 0) /\ 0 <= Len(s) /\ 0 \in Nat
    BY <1>3, <1>4, ExtendedAlike
  <2> QED
    BY <1>1, <1>2, <1>3, <1>5, <2>1, StillHolds
<1>7. Extended(t, s)
  BY <1>2, <1>4, ExtendedTwice
<1> QED
  BY <1>2, <1>4, <1>6, <1>7 DEF t, u

(* Whatever is written stands behind what was written before. *)
LEMMA EncodeOK ==
    ASSUME NEW s \in Seq(Bit), NEW c, NEW lang \in Lang, Legal(c, lang)
    PROVE  LET t == Encode(s, c, lang)
           IN Extended(t, s) /\ Carries(t, Len(s), c, lang, Len(t))
<1> DEFINE t == Encode(s, c, lang)
<1>1. CASE c.op \in {"int", "enum"}
  <2>1. /\ c.min \in IntMin..IntMax /\ c.max \in IntMin..IntMax /\ c.min < c.max
        /\ c.value[1] \in c.min..c.max
    BY <1>1 DEF Legal
  <2>2. c.min <= c.max
    BY <2>1, IntRange
  <2>3. t = WriteInteger(s, c.value[1], c.min, c.max)
    BY <1>1 DEF Encode
  <2>4. Extended(t, s) /\ HoldsInt(t, Len(s), c.value[1], c.min, c.max, Len(t))
    BY <2>1, <2>2, <2>3, WriteIntOK
  <2> QED
    BY <1>1, <2>4 DEF Carries
<1>2. CASE c.op = "bits"
  <2>1. c.size \in 1..IntBits /\ c.value[1] \in 0..(2^c.size - 1)
    BY <1>2 DEF Legal
  <2>2. c.size \in Width /\ c.value[1] \in Nat
    <3>1. c.size \in Width
      BY <2>1, Constants DEF Width
    <3>2. 2^c.size \in Nat
      BY <3>1, Powers
    <3> QED
      BY <2>1, <3>1, <3>2
  <2>3. t = WriteBits(s, c.value[1], c.size)
    BY <1>2 DEF Encode
  <2>4. Extended(t, s) /\ Len(t) = Len(s) + c.size /\ Holds(t, Len(s), c.value[1], c.size)
    BY <2>2, <2>3, WriteBitsOK
  <2> QED
    BY <1>2, <2>4 DEF Carries
<1>3. CASE c.op = "uint64"
  <2>1. c.value[1] \in Uint /\ c.value[2] \in Uint
    BY <1>3 DEF Legal
  <2>2. t = WriteBits(WriteBits(s, c.value[1], IntBits), c.value[2], IntBits)
    BY <1>3 DEF Encode
  <2> QED
    BY <1>3, <2>1, <2>2, WriteLongOK DEF Carries
<1>4. CASE c.op = "align"
  <2>1. t = WriteAlign(s)
    BY <1>4 DEF Encode
  <2> QED
    BY <1>4, <2>1, WriteAlignOK DEF Carries
<1>5. CASE c.op = "bytes"
  <2>1. c.value \in Seq(Byte)
    BY <1>5 DEF Legal
  <2>2. t = WriteBytes(s, c.value)
    BY <1>5 DEF Encode
  <2> QED
    BY <1>5, <2>1, <2>2, WriteBytesOK DEF Carries
<1>6. CASE c.op = "string"
  <2>1. /\ c.value \in Seq(Byte) /\ Len(c.value) * ByteBits <= IntMax /\ c.chars \in 0..Len(c.value)
        /\ lang = "cpp" => Len(c.value) <= BufferSize - 1
    BY <1>6 DEF Legal
  <2> DEFINE sent == SentBytes(c, lang)
             max  == StringMax(lang)
  <2>2. sent \in Seq(Byte) /\ Len(sent) <= Len(c.value)
    <3>1. CASE lang = "cpp"
      BY <2>1, <3>1 DEF SentBytes
    <3>2. CASE lang = "cs"
      <4>1. SubSeq(c.value, 1, c.chars) \in Seq(Byte) /\ Len(SubSeq(c.value, 1, c.chars)) = c.chars
        BY <2>1
      <4> QED
        BY <2>1, <3>2, <4>1 DEF SentBytes
    <3> QED
      BY <3>1, <3>2 DEF Lang
  <2>3. max \in 1..IntMax /\ Len(sent) <= max
    <3>1. /\ IntMax \in Nat \ {0} /\ ByteBits \in Nat \ {0} /\ BufferSize \in Nat \ {0, 1}
          /\ (BufferSize - 1) * ByteBits <= IntMax /\ Len(c.value) \in Nat /\ Len(sent) \in Nat
      BY <2>1, <2>2, IntRange, Constants
    <3>2. \A n \in Nat : n <= n * ByteBits
      BY <3>1
    <3>3. BufferSize - 1 \in Nat /\ BufferSize - 1 <= (BufferSize - 1) * ByteBits
          /\ Len(c.value) <= Len(c.value) * ByteBits
      BY <3>1, <3>2
    <3>4. BufferSize - 1 <= IntMax /\ Len(c.value) <= IntMax
      <4>1. (BufferSize - 1) * ByteBits \in Int /\ Len(c.value) * ByteBits \in Int
        BY <3>1
      <4> QED
        BY <2>1, <3>1, <3>3, <4>1
    <3>5. CASE lang = "cpp"
      <4>1. max = BufferSize - 1
        BY <3>5 DEF StringMax
      <4> QED
        BY <2>1, <2>2, <3>1, <3>4, <3>5, <4>1
    <3>6. CASE lang = "cs"
      <4>1. max = IntMax
        BY <3>6 DEF StringMax
      <4> QED
        BY <2>2, <3>1, <3>4, <4>1
    <3> QED
      BY <3>5, <3>6 DEF Lang
  <2>4. t = WriteBytes(WriteInteger(s, Len(sent), 0, max), sent)
    BY <1>6 DEF Encode
  <2> HIDE DEF t, sent, max
  <2>5. /\ Extended(t, s)
        /\ \E mid \in Nat : /\ HoldsInt(t, Len(s), Len(sent), 0, max, mid)
                            /\ HoldsBytes(t, mid, sent, Len(t))
    BY <2>2, <2>3, <2>4, WriteStringOK
  <2> QED
    BY <1>6, <2>5 DEF Carries, sent, max, t
<1> QED
  BY <1>1, <1>2, <1>3, <1>4, <1>5, <1>6 DEF Legal

-----------------------------------------------------------------------------
\* The reader.

(* The end of the word a bit is in is no further than that of a word beyond it. *)
LEMMA ToWordOK ==
    ASSUME NEW n \in Nat
    PROVE  /\ ToWord(n) \in Nat
           /\ \A m \in Nat : m <= n + ToWord(n) => m + ToWord(m) <= n + ToWord(n)
<1> DEFINE w == WordBits
<1>1. w \in Nat \ {0}
  BY Constants DEF WordBits
<1>2. ASSUME NEW m \in Nat
      PROVE  /\ ToWord(m) \in Nat
             /\ \E k \in Nat : /\ m + ToWord(m) = k * w
                              /\ \A j \in Nat : m <= j * w => k * w <= j * w
  <2> DEFINE q == m \div w
             r == m % w
  <2>1. ToWord(m) = (w - r) % w
    BY DEF ToWord
  <2>2. q \in Nat /\ r \in 0..(w - 1) /\ m = q * w + r
    <3>a. m \in Int /\ m >= 0 /\ w \in Nat \ {0}
      BY <1>1
    <3> HIDE DEF w
    <3>1. m \div w \in Int /\ m % w \in 0..(w - 1) /\ m = (m \div w) * w + (m % w) /\ m \div w >= 0
      BY <3>a, Quotient
    <3> QED
      BY <3>1
  <2> HIDE DEF w, q, r
  <2>3. CASE r = 0
    <3>1. w = 1 * w + 0 /\ w - r = w /\ 0 \in 0..(w - 1) /\ 1 \in Int
      BY <1>1, <2>3
    <3>2. (1 * w + 0) % w = 0
      BY <1>1, <3>1, Division
    <3>3. ToWord(m) = 0
      BY <2>1, <3>1, <3>2
    <3>4. m + ToWord(m) = q * w /\ m = q * w
      <4>1. q * w \in Int
        BY <1>1, <2>2
      <4> QED
        BY <2>2, <2>3, <3>3, <4>1
    <3> QED
      BY <2>2, <3>3, <3>4
  <2>4. CASE r # 0
    <3>1. w - r \in 0..(w - 1)
      BY <1>1, <2>2, <2>4
    <3>2. ToWord(m) = w - r
      BY <1>1, <2>1, <3>1, Small
    <3> DEFINE a == q * w
               b == (q + 1) * w
    <3>3. a \in Nat /\ b = a + w /\ q + 1 \in Nat
      BY <1>1, <2>2, Multiples
    <3>4. \A j \in Nat : (j <= q => j * w <= a) /\ (q + 1 <= j => b <= j * w) /\ j * w \in Nat
      BY <1>1, <2>2, <3>3, Multiples
    <3>5. m = a + r
      BY <2>2
    <3> HIDE DEF a, b
    <3>6. m + ToWord(m) = b
      BY <1>1, <2>2, <3>2, <3>3, <3>5
    <3>7. ASSUME NEW j \in Nat, m <= j * w PROVE b <= j * w
      <4>1. ~(j <= q)
        BY <2>2, <2>4, <3>3, <3>4, <3>5, <3>7
      <4>2. q + 1 <= j
        BY <2>2, <4>1
      <4> QED
        BY <3>4, <4>2
    <3>8. ToWord(m) \in Nat
      BY <3>1, <3>2
    <3> QED
      BY <3>3, <3>6, <3>7, <3>8 DEF b
  <2> QED
    BY <2>3, <2>4 DEF w
<1> HIDE DEF w
<1>3. PICK k \in Nat : n + ToWord(n) = k * w
  BY <1>2
<1>4. ASSUME NEW m \in Nat, m <= n + ToWord(n) PROVE m + ToWord(m) <= n + ToWord(n)
  <2>1. PICK i \in Nat : /\ m + ToWord(m) = i * w
                         /\ \A j \in Nat : m <= j * w => i * w <= j * w
    BY <1>2
  <2> QED
    BY <1>3, <1>4, <2>1
<1> QED
  BY <1>2, <1>4

ReaderType == [data : Seq(Bit), pos : Nat, bitsRead : Nat, error : BOOLEAN, ok : BOOLEAN,
               value : Seq(Int), threw : BOOLEAN]

(* A reader in its data: the stream has counted no more bits than the bit     *)
(* reader, nor than there are; one that has not thrown is before the end, any *)
(* in the last word.                                                          *)
InData(r) == /\ r \in ReaderType /\ r.bitsRead <= r.pos /\ r.bitsRead <= Len(r.data)
             /\ r.pos <= Len(r.data) + ToWord(Len(r.data))
             /\ ~r.threw => r.pos <= Len(r.data)

(* Any call leaves it there, and an error it has noted; one that returns true *)
(* leaves equal counts equal.                                                 *)
Stepped(r, q) == /\ InData(q) /\ q.data = r.data /\ (r.error => q.error)
                 /\ q.ok /\ r.bitsRead = r.pos => q.bitsRead = q.pos

(* The call has read the bits up to to and delivers value; or there was no such bit. *)
Gave(r, q, to, value) ==
    /\ q.ok /\ q.pos = to /\ q.bitsRead = r.bitsRead + (to - r.pos)
    /\ q.error = r.error /\ q.threw = r.threw /\ q.value = value
Ended(r, q) == ~q.ok /\ q.error /\ q.threw = r.threw
Answered(r, q, to, value) == IF to <= Len(r.data) THEN Gave(r, q, to, value) ELSE Ended(r, q)

(* The data is the datagram d, or as much of it as has come. *)
BeginsLike(r, d) == Len(r.data) <= Len(d) /\ \A i \in 1..Len(r.data) : r.data[i] = d[i]

LEMMA InDataOK ==
    ASSUME NEW r \in ReaderType, r.bitsRead <= r.pos, r.pos <= Len(r.data)
    PROVE  InData(r)
<1>1. r.pos \in Nat /\ r.bitsRead \in Nat /\ Len(r.data) \in Nat
  BY DEF ReaderType
<1>2. ToWord(Len(r.data)) \in Nat
  BY <1>1, ToWordOK
<1> QED
  BY <1>1, <1>2 DEF InData

LEMMA OverflowOK ==
    ASSUME NEW r, InData(r)
    PROVE  Stepped(r, Overflow(r)) /\ Ended(r, Overflow(r))
<1> DEFINE q == Overflow(r)
<1>1. r \in ReaderType
  BY DEF InData
<1>2. /\ q \in ReaderType /\ q.data = r.data /\ q.pos = r.pos /\ q.bitsRead = r.bitsRead
      /\ q.error = TRUE /\ q.ok = FALSE /\ q.threw = r.threw
  BY <1>1 DEF Overflow, ReaderType
<1> HIDE DEF q
<1> QED
  BY <1>2 DEF q, Stepped, Ended, InData

LEMMA AdvanceOK ==
    ASSUME NEW r, InData(r), NEW n \in Nat, ~WouldOverflow(r, n), NEW value \in Seq(Int),
           NEW q, q = [Advance(r, n) EXCEPT !.value = value]
    PROVE  Stepped(r, q) /\ Gave(r, q, r.pos + n, value)
<1>1. r \in ReaderType /\ r.pos \in Nat /\ r.bitsRead \in Nat /\ Len(r.data) \in Nat
      /\ r.bitsRead <= r.pos
  BY DEF InData, ReaderType
<1>2. /\ q \in ReaderType /\ q.data = r.data /\ q.pos = r.pos + n /\ q.bitsRead = r.bitsRead + n
      /\ q.error = r.error /\ q.ok = TRUE /\ q.value = value /\ q.threw = r.threw
  <2> DEFINE a == Advance(r, n)
  <2>1. /\ a \in ReaderType /\ a.data = r.data /\ a.pos = r.pos + n /\ a.bitsRead = r.bitsRead + n
        /\ a.error = r.error /\ a.ok = TRUE /\ a.threw = r.threw
    <3> DEFINE p == r.pos + n
               b == r.bitsRead + n
    <3>1. p \in Nat /\ b \in Nat
      BY <1>1
    <3>2. a = [r EXCEPT !.pos = p, !.bitsRead = b, !.ok = TRUE]
      BY DEF Advance
    <3> HIDE DEF a, p, b
    <3>3. /\ a \in ReaderType /\ a.data = r.data /\ a.pos = p /\ a.bitsRead = b
          /\ a.error = r.error /\ a.ok = TRUE /\ a.threw = r.threw
      BY <1>1, <3>1, <3>2 DEF ReaderType
    <3> QED
      BY <3>3 DEF p, b
  <2>2. q = [a EXCEPT !.value = value]
    OBVIOUS
  <2> HIDE DEF a
  <2>3. /\ q \in ReaderType /\ q.data = a.data /\ q.pos = a.pos /\ q.bitsRead = a.bitsRead
        /\ q.error = a.error /\ q.ok = a.ok /\ q.value = value /\ q.threw = a.threw
    BY <2>1, <2>2 DEF ReaderType
  <2> QED
    BY <2>1, <2>3
<1>3. r.pos + n <= Len(r.data)
  BY <1>1 DEF WouldOverflow
<1>6. r.bitsRead + n <= r.pos + n /\ r.bitsRead + n = r.bitsRead + ((r.pos + n) - r.pos)
  BY <1>1
<1>7. InData(q)
  BY <1>2, <1>3, <1>6, InDataOK
<1>8. r.bitsRead = r.pos => q.bitsRead = q.pos
  BY <1>2
<1> QED
  BY <1>2, <1>3, <1>6, <1>7, <1>8 DEF Stepped, Gave

(* The bits ahead, which are those of d. *)
LEMMA AheadOK ==
    ASSUME NEW r, InData(r), NEW n \in Nat, ~WouldOverflow(r, n)
    PROVE  /\ Ahead(r, n) \in Seq(Bit) /\ Len(Ahead(r, n)) = n
           /\ \A j \in 0..(n - 1) : Ahead(r, n)[j + 1] = r.data[r.pos + j + 1]
<1>1. r.data \in Seq(Bit) /\ r.pos \in Nat /\ r.pos + n <= Len(r.data)
  BY DEF InData, ReaderType, WouldOverflow
<1>2. SubSeq(r.data, r.pos + 1, r.pos + n) \in Seq(Bit)
      /\ Len(SubSeq(r.data, r.pos + 1, r.pos + n)) = n
  BY <1>1
<1>3. ASSUME NEW j \in 0..(n - 1)
      PROVE  SubSeq(r.data, r.pos + 1, r.pos + n)[j + 1] = r.data[r.pos + j + 1]
  <2> DEFINE s == r.data
             a == r.pos + 1
             b == r.pos + n
             i == j + 1
  <2>1. s \in Seq(Bit) /\ a \in Nat \ {0} /\ b \in Nat /\ b <= Len(s) /\ i \in 1..(b - a + 1)
        /\ a + i - 1 = r.pos + j + 1
    BY <1>1
  <2> HIDE DEF s, a, b, i
  <2>2. SubSeq(s, a, b)[i] = s[a + i - 1]
    BY <2>1
  <2> QED
    BY <2>1, <2>2 DEF s, a, b, i
<1> QED
  BY <1>2, <1>3 DEF Ahead

(* Bits that hold a number have its value. *)
LEMMA HeldValue ==
    ASSUME NEW s \in Seq(Bit), NEW n \in Width, Len(s) = n, NEW v \in 0..(2^n - 1),
           \A j \in 0..(n - 1) : s[j + 1] = BitOf(v, j)
    PROVE  FromBits(s) = v
<1>1. n \in Nat /\ 2^n \in Nat \ {0}
  BY Powers DEF Width
<1>2. v \in Nat
  BY <1>1
<1>3. ToBits(v, n) \in Seq(Bit) /\ Len(ToBits(v, n)) = n
      /\ \A j \in 0..(n - 1) : ToBits(v, n)[j + 1] = BitOf(v, j)
  BY <1>2, ToBitsIsSeq
<1>4. s = ToBits(v, n)
  <2> DEFINE u == ToBits(v, n)
  <2> HIDE DEF u
  <2>1. u \in Seq(Bit) /\ Len(u) = n /\ \A j \in 0..(n - 1) : u[j + 1] = BitOf(v, j)
    BY <1>3 DEF u
  <2>2. ASSUME NEW i \in 1..n PROVE s[i] = u[i]
    <3>1. i - 1 \in 0..(n - 1) /\ (i - 1) + 1 = i
      BY <1>1
    <3> QED
      BY <2>1, <3>1
  <2>3. s = u
    BY <2>1, <2>2
  <2> QED
    BY <2>3 DEF u
<1>5. FromBits(s) = v % 2^n
  BY <1>2, <1>4, FromBitsOf
<1>6. v % 2^n = v
  <2> DEFINE p == 2^n
  <2> HIDE DEF p
  <2>1. p \in Nat \ {0} /\ v \in 0..(p - 1)
    BY <1>1 DEF p
  <2>2. v % p = v
    BY <2>1, Small
  <2> QED
    BY <2>2 DEF p
<1> QED
  BY <1>5, <1>6

LEMMA SerializeBitsOK ==
    ASSUME NEW r, InData(r), NEW n \in Width
    PROVE  LET q == SerializeBits(r, n)
           IN /\ Stepped(r, q) /\ (q.ok => Len(q.value) = 1 /\ q.value[1] \in 0..(2^n - 1))
              /\ q.threw = r.threw
              /\ \A d, v : BeginsLike(r, d) /\ v \in 0..(2^n - 1) /\ Holds(d, r.pos, v, n)
                     => Answered(r, q, r.pos + n, <<v>>)
<1> DEFINE q == SerializeBits(r, n)
           x == FromBits(Ahead(r, n))
<1>1. n \in Nat /\ r.pos \in Nat /\ Len(r.data) \in Nat
  BY DEF Width, InData, ReaderType
<1>2. CASE WouldOverflow(r, n)
  <2>1. q = Overflow(r)
    BY <1>2 DEF SerializeBits
  <2>2. Stepped(r, q) /\ Ended(r, q)
    BY <2>1, OverflowOK
  <2>3. ~(r.pos + n <= Len(r.data))
    BY <1>1, <1>2 DEF WouldOverflow
  <2> HIDE DEF q
  <2>4. \A v : Answered(r, q, r.pos + n, <<v>>)
    BY <2>2, <2>3 DEF Answered
  <2> QED
    BY <2>2, <2>4 DEF Ended, q
<1>3. CASE ~WouldOverflow(r, n)
  <2>1. q = [Advance(r, n) EXCEPT !.value = <<x>>]
    BY <1>3 DEF SerializeBits
  <2>2. Ahead(r, n) \in Seq(Bit) /\ Len(Ahead(r, n)) = n
        /\ \A j \in 0..(n - 1) : Ahead(r, n)[j + 1] = r.data[r.pos + j + 1]
    BY <1>1, <1>3, AheadOK
  <2>3. x \in 0..(2^n - 1) /\ x \in Int
    BY <2>2, FromBitsRange
  <2> HIDE DEF x
  <2>4. <<x>> \in Seq(Int)
    BY <2>3
  <2> HIDE DEF q
  <2>5. Stepped(r, q) /\ Gave(r, q, r.pos + n, <<x>>)
    BY <1>1, <1>3, <2>1, <2>4, AdvanceOK
  <2>6. Len(q.value) = 1 /\ q.value[1] = x
    BY <2>5 DEF Gave
  <2>7. ASSUME NEW d, NEW v, BeginsLike(r, d), v \in 0..(2^n - 1), Holds(d, r.pos, v, n)
        PROVE  x = v
    <3>1. ASSUME NEW j \in 0..(n - 1) PROVE Ahead(r, n)[j + 1] = BitOf(v, j)
      <4>1. r.pos + j + 1 \in 1..Len(r.data)
        BY <1>1, <1>3 DEF WouldOverflow
      <4>2. r.data[r.pos + j + 1] = d[r.pos + j + 1]
        BY <4>1, <2>7 DEF BeginsLike
      <4> QED
        BY <2>2, <2>7, <4>2 DEF Holds
    <3> QED
      BY <2>2, <2>7, <3>1, HeldValue DEF x
  <2>8. r.pos + n <= Len(r.data)
    BY <1>1, <1>3 DEF WouldOverflow
  <2>9. \A d, v : BeginsLike(r, d) /\ v \in 0..(2^n - 1) /\ Holds(d, r.pos, v, n)
                     => Answered(r, q, r.pos + n, <<v>>)
    BY <2>5, <2>7, <2>8 DEF Answered
  <2>10. q.threw = r.threw
    BY <2>5 DEF Gave
  <2> QED
    BY <2>3, <2>5, <2>6, <2>9, <2>10 DEF q
<1> QED
  BY <1>2, <1>3

LEMMA SerializeIntegerOK ==
    ASSUME NEW r, InData(r), NEW min \in IntMin..IntMax, NEW max \in IntMin..IntMax, min <= max
    PROVE  LET q == SerializeInteger(r, min, max)
           IN /\ Stepped(r, q) /\ q.threw = r.threw
              /\ q.ok => Len(q.value) = 1 /\ q.value[1] \in Int /\ (min = 0 => q.value[1] \in Nat)
              /\ \A d, v, to : BeginsLike(r, d) /\ v \in min..max /\ HoldsInt(d, r.pos, v, min, max, to)
                     => Answered(r, q, to, <<v>>)
<1> DEFINE q == SerializeInteger(r, min, max)
           n == BitsRequired(min, max)
           x == FromBits(Ahead(r, n))
           y == Signed(x + min)
<1>1. r.pos \in Nat /\ Len(r.data) \in Nat
  BY DEF InData, ReaderType
<1>2. 2^IntBits = 2 * IntMax + 2 /\ IntMin = -IntMax - 1 /\ IntMax \in Nat \ {0} /\ IntBits \in Nat
      /\ 2^(IntBits - 1) = IntMax + 1
  BY IntRange, Constants
<1>3. n \in 0..IntBits /\ n \in Width /\ max - min < 2^n /\ (n # 0 => 2^(n - 1) <= max - min)
  <2>1. min \in Int /\ max \in Int /\ max - min < 2^IntBits
    BY <1>2
  <2> QED
    BY <2>1, BitsRequiredHold
<1>4. n \in Nat
  BY <1>2, <1>3
<1>5. CASE WouldOverflow(r, n)
  <2>1. q = Overflow(r)
    BY <1>5 DEF SerializeInteger
  <2>2. Stepped(r, q) /\ Ended(r, q)
    BY <2>1, OverflowOK
  <2>3. ~(r.pos + n <= Len(r.data))
    BY <1>1, <1>4, <1>5 DEF WouldOverflow
  <2>4. \A d, v, to : HoldsInt(d, r.pos, v, min, max, to) => to = r.pos + n
    BY DEF HoldsInt
  <2> HIDE DEF q, n
  <2>5. \A d, v, to : HoldsInt(d, r.pos, v, min, max, to) => Answered(r, q, to, <<v>>)
    BY <2>2, <2>3, <2>4 DEF Answered
  <2> QED
    BY <2>2, <2>5 DEF Ended, q
<1>6. CASE ~WouldOverflow(r, n)
  <2>1. q = [Advance(r, n) EXCEPT !.value = <<y>>]
    BY <1>6 DEF SerializeInteger
  <2> HIDE DEF n, q
  <2>2. Ahead(r, n) \in Seq(Bit) /\ Len(Ahead(r, n)) = n
        /\ \A j \in 0..(n - 1) : Ahead(r, n)[j + 1] = r.data[r.pos + j + 1]
    BY <1>4, <1>6, AheadOK
  <2>3. x \in 0..(2^n - 1) /\ x \in Int /\ 2^n \in Nat
    BY <1>3, <2>2, FromBitsRange, Powers
  <2>4. y \in Int /\ (x + min \in IntMin..IntMax => y = x + min)
    <3>1. x + min \in Int
      BY <2>3
    <3> HIDE DEF x
    <3> QED
      BY <3>1, <1>2, SignedRange
  <2>5. min = 0 => y \in Nat
    <3> SUFFICES ASSUME min = 0 PROVE y \in Nat
      OBVIOUS
    <3>1. n <= IntBits - 1
      <4>1. n # IntBits
        <5> SUFFICES ASSUME n = IntBits PROVE FALSE
          OBVIOUS
        <5>1. n # 0 /\ 2^(n - 1) = IntMax + 1
          BY <1>2, Constants
        <5>2. 2^(n - 1) <= max - min
          BY <1>3, <5>1
        <5> QED
          BY <1>2, <5>1, <5>2
      <4> QED
        BY <1>2, <1>3, <4>1
    <3>2. IntBits - 1 \in Width
      BY Constants DEF Width
    <3>3. 2^n <= IntMax + 1
      BY <1>2, <1>3, <3>1, <3>2, PowersGrow
    <3>4. x \in 0..IntMax
      <4> HIDE DEF x
      <4> QED
        BY <1>2, <2>3, <3>3
    <3> HIDE DEF x, y
    <3> QED
      BY <1>2, <2>4, <3>4
  <2> HIDE DEF x, y
  <2>6. <<y>> \in Seq(Int)
    BY <2>4
  <2>7. Stepped(r, q) /\ Gave(r, q, r.pos + n, <<y>>)
    BY <1>4, <1>6, <2>1, <2>6, AdvanceOK
  <2>8. Len(q.value) = 1 /\ q.value[1] = y /\ q.threw = r.threw
    BY <2>7 DEF Gave
  <2>9. ASSUME NEW d, NEW v, NEW to, BeginsLike(r, d), v \in min..max, HoldsInt(d, r.pos, v, min, max, to)
        PROVE  y = v /\ to = r.pos + n
    <3>1. to = r.pos + n /\ Holds(d, r.pos, v - min, n)
      BY <2>9 DEF HoldsInt, n
    <3>2. v - min \in 0..(2^n - 1)
      BY <1>2, <1>3, <2>3, <2>9
    <3>3. ASSUME NEW j \in 0..(n - 1) PROVE Ahead(r, n)[j + 1] = BitOf(v - min, j)
      <4>1. r.pos + j + 1 \in 1..Len(r.data)
        BY <1>1, <1>4, <1>6 DEF WouldOverflow
      <4>2. r.data[r.pos + j + 1] = d[r.pos + j + 1]
        BY <4>1, <2>9 DEF BeginsLike
      <4> QED
        BY <2>2, <3>1, <4>2 DEF Holds
    <3>4. x = v - min
      BY <1>3, <2>2, <3>2, <3>3, HeldValue DEF x
    <3>5. y = v
      BY <1>2, <2>4, <2>9, <3>4
    <3> QED
      BY <3>1, <3>5
  <2>10. r.pos + n <= Len(r.data)
    BY <1>1, <1>4, <1>6 DEF WouldOverflow
  <2>11. \A d, v, to : BeginsLike(r, d) /\ v \in min..max /\ HoldsInt(d, r.pos, v, min, max, to)
                     => Answered(r, q, to, <<v>>)
    BY <2>7, <2>9, <2>10 DEF Answered
  <2> QED
    BY <2>4, <2>5, <2>7, <2>8, <2>11 DEF q
<1> QED
  BY <1>5, <1>6

LEMMA SerializeAlignOK ==
    ASSUME NEW r, InData(r)
    PROVE  LET q == SerializeAlign(r)
           IN /\ Stepped(r, q) /\ q.threw = r.threw
              /\ \A d : BeginsLike(r, d) /\ Zeros(d, r.pos, AlignBits(r.pos))
                     => Answered(r, q, r.pos + AlignBits(r.pos), << >>)
<1> DEFINE q == SerializeAlign(r)
           n == AlignBits(r.pos)
           Padded == \E i \in 1..n : Ahead(r, n)[i] # 0
<1>1. r \in ReaderType /\ r.pos \in Nat /\ Len(r.data) \in Nat /\ r.bitsRead \in Nat /\ r.bitsRead <= r.pos
  BY DEF InData, ReaderType
<1>2. n \in Nat
  <2>1. AlignBits(r.pos) \in 0..(ByteBits - 1)
    BY <1>1, AlignRange
  <2> QED
    BY <2>1, Constants
<1>3. CASE WouldOverflow(r, n)
  <2>1. q = Overflow(r)
    BY <1>3 DEF SerializeAlign
  <2>2. Stepped(r, q) /\ Ended(r, q)
    BY <2>1, OverflowOK
  <2>3. ~(r.pos + n <= Len(r.data))
    BY <1>1, <1>2, <1>3 DEF WouldOverflow
  <2> HIDE DEF q, n
  <2> QED
    BY <2>2, <2>3 DEF Answered, Ended, q, n
<1>4. CASE ~WouldOverflow(r, n) /\ Padded
  <2>1. q = [r EXCEPT !.pos = @ + n, !.ok = FALSE]
    BY <1>4 DEF SerializeAlign
  <2>2. r.pos + n <= Len(r.data)
    BY <1>1, <1>2, <1>4 DEF WouldOverflow
  <2> DEFINE p == r.pos + n
  <2>3. q = [r EXCEPT !.pos = p, !.ok = FALSE] /\ p \in Nat
    BY <1>1, <1>2, <2>1
  <2> HIDE DEF q, p
  <2>4. /\ q \in ReaderType /\ q.data = r.data /\ q.pos = p /\ q.bitsRead = r.bitsRead
        /\ q.error = r.error /\ q.threw = r.threw /\ ~q.ok
    BY <1>1, <2>3 DEF ReaderType
  <2>5. r.bitsRead <= p /\ p <= Len(r.data)
    BY <1>1, <1>2, <2>2 DEF p
  <2>6. Stepped(r, q)
    <3>1. InData(q)
      BY <2>4, <2>5, InDataOK
    <3> QED
      BY <2>4, <3>1 DEF Stepped
  <2>7. ASSUME NEW d, BeginsLike(r, d), Zeros(d, r.pos, n) PROVE FALSE
    <3> HIDE DEF n
    <3>1. PICK i \in 1..n : Ahead(r, n)[i] # 0
      BY <1>4
    <3>2. i - 1 \in 0..(n - 1) /\ (i - 1) + 1 = i
      BY <1>2
    <3>3. Ahead(r, n)[(i - 1) + 1] = r.data[r.pos + (i - 1) + 1]
      BY <1>2, <1>4, <3>2, AheadOK
    <3>4. r.pos + (i - 1) + 1 \in 1..Len(r.data)
      BY <1>1, <1>2, <2>2, <3>2
    <3>5. r.data[r.pos + (i - 1) + 1] = d[r.pos + (i - 1) + 1]
      BY <2>7, <3>4 DEF BeginsLike
    <3>6. d[r.pos + (i - 1) + 1] = 0
      BY <2>7, <3>2 DEF Zeros
    <3> QED
      BY <3>1, <3>2, <3>3, <3>5, <3>6
  <2> QED
    BY <2>4, <2>6, <2>7 DEF q, n
<1>5. CASE ~WouldOverflow(r, n) /\ ~Padded
  <2>1. q = [Advance(r, n) EXCEPT !.value = << >>]
    BY <1>5 DEF SerializeAlign
  <2>2. << >> \in Seq(Int)
    OBVIOUS
  <2> HIDE DEF q, n
  <2>3. Stepped(r, q) /\ Gave(r, q, r.pos + n, << >>)
    BY <1>2, <1>5, <2>1, <2>2, AdvanceOK
  <2>4. r.pos + n <= Len(r.data)
    BY <1>1, <1>2, <1>5 DEF WouldOverflow
  <2> QED
    BY <2>3, <2>4 DEF Answered, Gave, q, n
<1> QED
  BY <1>3, <1>4, <1>5

LEMMA AnsweredTwice ==
    ASSUME NEW r, NEW a, NEW q, NEW mid \in Nat, NEW to \in Nat, mid <= to,
           InData(r), a.data = r.data, Stepped(a, q),
           NEW u, NEW v, Answered(r, a, mid, u),
           a.ok => Answered(a, q, to, v), ~a.ok => q = a
    PROVE  Answered(r, q, to, v)
<1>1. /\ r.pos \in Nat /\ r.bitsRead \in Nat /\ Len(r.data) \in Nat
  BY DEF InData, ReaderType
<1>2. CASE ~(mid <= Len(r.data))
  <2>1. Ended(r, a) /\ ~(to <= Len(r.data))
    BY <1>1, <1>2 DEF Answered
  <2>2. ~a.ok
    BY <2>1 DEF Ended
  <2> QED
    BY <2>1, <2>2 DEF Answered
<1>3. CASE mid <= Len(r.data)
  <2>1. Gave(r, a, mid, u)
    BY <1>3 DEF Answered
  <2>2. /\ a.ok /\ a.pos = mid /\ a.bitsRead = r.bitsRead + (mid - r.pos) /\ a.error = r.error
        /\ a.threw = r.threw
    BY <2>1 DEF Gave
  <2>3. Answered(a, q, to, v)
    BY <2>2
  <2>4. CASE to <= Len(r.data)
    <3>1. Gave(a, q, to, v)
      BY <2>3, <2>4 DEF Answered
    <3>2. /\ q.ok /\ q.pos = to /\ q.bitsRead = a.bitsRead + (to - a.pos) /\ q.error = a.error
          /\ q.threw = a.threw /\ q.value = v
      BY <3>1 DEF Gave
    <3>3. q.bitsRead = r.bitsRead + (to - r.pos)
      BY <1>1, <2>2, <3>2
    <3> QED
      BY <2>2, <2>4, <3>2, <3>3 DEF Answered, Gave
  <2>5. CASE ~(to <= Len(r.data))
    <3>1. Ended(a, q)
      BY <2>3, <2>5 DEF Answered
    <3> QED
      BY <2>2, <2>5, <3>1 DEF Answered, Ended
  <2> QED
    BY <2>4, <2>5
<1> QED
  BY <1>2, <1>3

(* Bytes: bits b * ByteBits + 1 on to the byte's last. *)
LEMMA BytesAhead ==
    ASSUME NEW s \in Seq(Bit), NEW n \in Nat, Len(s) = n * ByteBits, NEW i \in 0..(n - 1)
    PROVE  LET piece == SubSeq(s, i * ByteBits + 1, (i + 1) * ByteBits)
           IN /\ piece \in Seq(Bit) /\ Len(piece) = ByteBits
              /\ \A j \in 0..(ByteBits - 1) : /\ piece[j + 1] = s[i * ByteBits + j + 1]
                                              /\ i * ByteBits + j \in 0..(n * ByteBits - 1)
<1> DEFINE a == i * ByteBits
           m == n * ByteBits
<1>1. ByteBits \in Nat \ {0} /\ i \in Nat /\ i < n
  BY Constants
<1>2. a \in Nat /\ m \in Nat /\ (i + 1) * ByteBits = a + ByteBits /\ a + ByteBits <= m
  BY <1>1, Multiples
<1> HIDE DEF a, m
<1>3. Len(s) = m
  BY DEF m
<1>4. SubSeq(s, a + 1, a + ByteBits) \in Seq(Bit) /\ Len(SubSeq(s, a + 1, a + ByteBits)) = ByteBits
  BY <1>1, <1>2, <1>3
<1>5. ASSUME NEW j \in 0..(ByteBits - 1)
      PROVE  SubSeq(s, a + 1, a + ByteBits)[j + 1] = s[a + j + 1] /\ a + j \in 0..(m - 1)
  BY <1>1, <1>2, <1>3
<1> DEFINE piece == SubSeq(s, a + 1, a + ByteBits)
<1>6. piece = SubSeq(s, i * ByteBits + 1, (i + 1) * ByteBits)
  BY <1>2 DEF a
<1>7. /\ piece \in Seq(Bit) /\ Len(piece) = ByteBits
      /\ \A j \in 0..(ByteBits - 1) : piece[j + 1] = s[a + j + 1] /\ a + j \in 0..(m - 1)
  BY <1>4, <1>5
<1> HIDE DEF piece
<1> QED
  BY <1>6, <1>7 DEF a, m

LEMMA SerializeBytesOK ==
    ASSUME NEW r, InData(r), NEW n \in Nat
    PROVE  LET q == SerializeBytes(r, n)
           IN /\ Stepped(r, q)
              /\ \A d, to : \A bytes \in Seq(Byte) :
                    /\ BeginsLike(r, d) /\ HoldsBytes(d, r.pos, bytes, to)
                    /\ Len(bytes) = n /\ to <= IntMax
                    => Answered(r, q, to, bytes)
<1> DEFINE q == SerializeBytes(r, n)
           a == SerializeAlign(r)
           m == n * ByteBits
           start == r.pos + AlignBits(r.pos)
           Byte_(i) == FromBits(SubSeq(Ahead(a, m), (i - 1) * ByteBits + 1, i * ByteBits))
           value == [i \in 1..n |-> Byte_(i)]
           Wrapped == Signed(a.pos + m) > Len(a.data)
<1>1. /\ r \in ReaderType /\ r.pos \in Nat /\ Len(r.data) \in Nat /\ m \in Nat /\ ByteBits \in Nat \ {0}
      /\ start \in Nat
  <2>1. r \in ReaderType /\ r.pos \in Nat /\ Len(r.data) \in Nat
    BY DEF InData, ReaderType
  <2>2. ByteBits \in Nat \ {0}
    BY Constants
  <2>3. m \in Nat
    BY <2>2, Multiples
  <2>4. AlignBits(r.pos) \in 0..(ByteBits - 1)
    BY <2>1, AlignRange
  <2> QED
    BY <2>1, <2>2, <2>3, <2>4
<1>2. Stepped(r, a) /\ a.threw = r.threw
  BY SerializeAlignOK
<1>3. InData(a) /\ a.data = r.data /\ a \in ReaderType
  BY <1>2 DEF Stepped, InData
<1>4. \A d : BeginsLike(r, d) /\ Zeros(d, r.pos, AlignBits(r.pos)) => Answered(r, a, start, << >>)
  BY SerializeAlignOK
<1>5. \A d, bytes, to : HoldsBytes(d, r.pos, bytes, to) /\ Len(bytes) = n
         => Zeros(d, r.pos, AlignBits(r.pos)) /\ to = start + m
  BY DEF HoldsBytes
<1>6. q = IF ~a.ok THEN a
          ELSE IF Wrapped THEN Overflow(a)
          ELSE IF WouldOverflow(a, m) THEN [a EXCEPT !.pos = @ + ToWord(@), !.ok = FALSE, !.threw = TRUE]
          ELSE [Advance(a, m) EXCEPT !.value = value]
  BY DEF SerializeBytes
<1> HIDE DEF q, a, start
<1>7. a.pos + m <= IntMax => Signed(a.pos + m) = a.pos + m
  <2> DEFINE x == a.pos + m
  <2>1. a.pos \in Nat
    BY <1>3 DEF ReaderType
  <2>2. x \in Nat
    BY <1>1, <2>1
  <2> HIDE DEF x
  <2>3. x \in Int /\ IntMin <= 0 /\ IntMin \in Int /\ IntMax \in Int
    BY <2>2, IntRange
  <2>4. x <= IntMax => Signed(x) = x
    BY <2>2, <2>3, SignedRange
  <2> QED
    BY <2>4 DEF x
<1> DEFINE Whole == a.ok /\ ~Wrapped /\ ~WouldOverflow(a, m)
<1>8. ASSUME Whole
      PROVE  /\ value \in Seq(Int) /\ Stepped(a, q) /\ Gave(a, q, a.pos + m, value)
             /\ a.pos + m <= Len(a.data)
  <2>1. Ahead(a, m) \in Seq(Bit) /\ Len(Ahead(a, m)) = m
    BY <1>1, <1>3, <1>8, AheadOK
  <2>2. ASSUME NEW i \in 1..n PROVE Byte_(i) \in Int
    <3> DEFINE s == Ahead(a, m)
               k == i - 1
    <3> HIDE DEF s
    <3>1. k \in 0..(n - 1) /\ k + 1 = i
      OBVIOUS
    <3>2. s \in Seq(Bit) /\ Len(s) = n * ByteBits
      BY <2>1 DEF s
    <3> HIDE DEF k, m
    <3>3. SubSeq(s, k * ByteBits + 1, (k + 1) * ByteBits) \in Seq(Bit)
          /\ Len(SubSeq(s, k * ByteBits + 1, (k + 1) * ByteBits)) = ByteBits
      BY <3>1, <3>2, BytesAhead
    <3>4. FromBits(SubSeq(s, k * ByteBits + 1, (k + 1) * ByteBits)) \in Int
      <4>1. ByteBits \in Width /\ 2^ByteBits \in Nat
        BY ByteFacts, Powers
      <4> DEFINE u == SubSeq(s, k * ByteBits + 1, (k + 1) * ByteBits)
      <4> HIDE DEF u
      <4>2. u \in Seq(Bit) /\ Len(u) = ByteBits
        BY <3>3 DEF u
      <4>3. FromBits(u) \in 0..(2^ByteBits - 1)
        BY <4>1, <4>2, FromBitsRange
      <4>4. FromBits(u) \in Int
        BY <4>1, <4>3
      <4> QED
        BY <4>4 DEF u
    <3> QED
      BY <3>1, <3>4 DEF s, k
  <2> HIDE DEF m, Byte_
  <2>3. value \in Seq(Int)
    BY <2>2
  <2>4. q = [Advance(a, m) EXCEPT !.value = value]
    BY <1>6, <1>8
  <2> HIDE DEF value
  <2>5. Stepped(a, q) /\ Gave(a, q, a.pos + m, value)
    BY <1>1, <1>3, <1>8, <2>3, <2>4, AdvanceOK
  <2>6. a.pos + m <= Len(a.data)
    <3>1. a.pos \in Nat /\ Len(a.data) \in Nat
      BY <1>3 DEF ReaderType
    <3> QED
      BY <1>1, <1>8, <3>1 DEF WouldOverflow
  <2> QED
    BY <2>3, <2>5, <2>6
<1>9. Stepped(r, q)
  <2>1. CASE ~a.ok
    BY <1>2, <1>6, <2>1
  <2>2. CASE a.ok /\ Wrapped
    <3>1. q = Overflow(a)
      BY <1>6, <2>2
    <3>2. Stepped(a, q)
      BY <1>3, <3>1, OverflowOK
    <3>3. ~q.ok
      BY <1>3, <3>1, OverflowOK DEF Ended
    <3> QED
      BY <1>2, <3>2, <3>3 DEF Stepped
  <2>3. CASE a.ok /\ ~Wrapped /\ WouldOverflow(a, m)
    <3> DEFINE L == Len(a.data)
               p == a.pos + ToWord(a.pos)
    <3>1. a.pos \in Nat /\ L \in Nat /\ a.bitsRead \in Nat /\ a.bitsRead <= a.pos /\ a.bitsRead <= L
          /\ a.pos <= L + ToWord(L)
      BY <1>3 DEF InData, ReaderType
    <3>2. ToWord(a.pos) \in Nat /\ p <= L + ToWord(L)
      BY <3>1, ToWordOK
    <3>3. p \in Nat /\ a.bitsRead <= p
      BY <3>1, <3>2
    <3>4. q = [a EXCEPT !.pos = p, !.ok = FALSE, !.threw = TRUE]
      BY <1>6, <2>3
    <3> HIDE DEF p
    <3>5. /\ q \in ReaderType /\ q.data = a.data /\ q.pos = p /\ q.bitsRead = a.bitsRead
          /\ q.error = a.error /\ q.ok = FALSE /\ q.threw = TRUE
      BY <1>3, <3>3, <3>4 DEF ReaderType
    <3>6. InData(q)
      BY <3>1, <3>2, <3>3, <3>5 DEF InData
    <3> QED
      BY <1>2, <3>5, <3>6 DEF Stepped
  <2>4. CASE Whole
    BY <1>2, <1>8, <2>4 DEF Stepped
  <2> HIDE DEF m
  <2> QED
    BY <2>1, <2>2, <2>3, <2>4
<1>10. ASSUME NEW d, NEW to, NEW bytes \in Seq(Byte), BeginsLike(r, d), HoldsBytes(d, r.pos, bytes, to),
              Len(bytes) = n, to <= IntMax
       PROVE  Answered(r, q, to, bytes)
  <2>1. to = start + m /\ Zeros(d, r.pos, AlignBits(r.pos))
    BY <1>5, <1>10
  <2>2. Answered(r, a, start, << >>)
    BY <1>4, <1>10, <2>1
  <2>3. to \in Nat /\ start <= to
    BY <1>1, <2>1
  <2>4. ASSUME a.ok PROVE Stepped(a, q) /\ Answered(a, q, to, bytes)
    <3>1. a.pos = start
      BY <2>2, <2>4 DEF Answered, Gave, Ended
    <3>2. Wrapped <=> WouldOverflow(a, m)
      <4>1. Signed(a.pos + m) = a.pos + m
        BY <1>7, <1>10, <2>1, <3>1
      <4> HIDE DEF m
      <4> QED
        BY <4>1 DEF WouldOverflow
    <3>3. WouldOverflow(a, m) <=> ~(to <= Len(a.data))
      <4>1. a.pos \in Nat /\ Len(a.data) \in Nat
        BY <1>3 DEF ReaderType
      <4> HIDE DEF m
      <4> QED
        BY <1>1, <2>1, <3>1, <4>1 DEF WouldOverflow
    <3>4. CASE WouldOverflow(a, m)
      <4>1. q = Overflow(a)
        BY <1>6, <2>4, <3>2, <3>4
      <4>2. Stepped(a, q) /\ Ended(a, q)
        BY <1>3, <4>1, OverflowOK
      <4> QED
        BY <3>3, <3>4, <4>2 DEF Answered
    <3>5. CASE ~WouldOverflow(a, m)
      <4>1. Whole
        BY <2>4, <3>2, <3>5
      <4>2. Stepped(a, q) /\ Gave(a, q, to, value) /\ to <= Len(a.data)
        BY <1>8, <2>1, <3>1, <4>1
      <4>3. value = bytes
        <5> DEFINE s == Ahead(a, m)
        <5>1. /\ s \in Seq(Bit) /\ Len(s) = m
              /\ \A j \in 0..(m - 1) : s[j + 1] = a.data[a.pos + j + 1]
          BY <1>1, <1>3, <3>5, AheadOK
        <5>2. \A j \in 0..(m - 1) : s[j + 1] = d[start + j + 1]
          <6> SUFFICES ASSUME NEW j \in 0..(m - 1) PROVE s[j + 1] = d[start + j + 1]
            OBVIOUS
          <6> HIDE DEF s, m
          <6>1. start + j + 1 \in 1..Len(r.data)
            BY <1>1, <1>3, <2>1, <4>2
          <6>2. r.data[start + j + 1] = d[start + j + 1]
            BY <1>10, <6>1 DEF BeginsLike
          <6> QED
            BY <1>3, <3>1, <5>1, <6>2
        <5>3. ASSUME NEW i \in 1..n PROVE Byte_(i) = bytes[i]
          <6> DEFINE k == i - 1
                     u == SubSeq(s, k * ByteBits + 1, (k + 1) * ByteBits)
          <6>1. k \in 0..(n - 1) /\ k + 1 = i /\ k \in Nat
            OBVIOUS
          <6> HIDE DEF k, s
          <6>2. /\ u \in Seq(Bit) /\ Len(u) = ByteBits
                /\ \A j \in 0..(ByteBits - 1) : /\ u[j + 1] = s[k * ByteBits + j + 1]
                                                /\ k * ByteBits + j \in 0..(m - 1)
            BY <5>1, <6>1, BytesAhead
          <6>3. Holds(d, start + k * ByteBits, bytes[k + 1], ByteBits)
            BY <1>10, <6>1 DEF HoldsBytes, start
          <6>4. bytes[i] \in 0..(2^ByteBits - 1)
            <7>1. bytes[i] \in Byte
              BY <1>10
            <7> QED
              BY <7>1 DEF Byte
          <6> HIDE DEF u
          <6>5. ASSUME NEW j \in 0..(ByteBits - 1) PROVE u[j + 1] = BitOf(bytes[i], j)
            <7> DEFINE b == k * ByteBits
            <7>1. b \in Nat
              BY <1>1, <6>1, Multiples
            <7>2. u[j + 1] = s[b + j + 1] /\ b + j \in 0..(m - 1)
              BY <6>2
            <7>3. d[(start + b) + j + 1] = BitOf(bytes[i], j)
              BY <6>1, <6>3 DEF Holds
            <7> HIDE DEF b, m
            <7>4. s[(b + j) + 1] = d[start + (b + j) + 1]
              BY <5>2, <7>2
            <7>5. (b + j) + 1 = b + j + 1 /\ start + (b + j) + 1 = (start + b) + j + 1
              BY <1>1, <7>1
            <7> QED
              BY <7>2, <7>3, <7>4, <7>5
          <6>6. FromBits(u) = bytes[i]
            BY <6>2, <6>4, <6>5, ByteFacts, HeldValue
          <6> QED
            BY <6>1, <6>6 DEF u, k, s
        <5> HIDE DEF Byte_, m
        <5>4. value = [i \in 1..n |-> bytes[i]]
          BY <5>3
        <5>5. bytes = [i \in 1..n |-> bytes[i]]
          BY <1>10
        <5> QED
          BY <5>4, <5>5
      <4> HIDE DEF value
      <4> QED
        BY <4>2, <4>3 DEF Answered
    <3> HIDE DEF m
    <3> QED
      BY <3>4, <3>5
  <2>5. ~a.ok => q = a
    BY <1>6
  <2>6. Stepped(a, q)
    <3>1. ~a.ok => Stepped(a, q)
      BY <1>3, <2>5 DEF Stepped
    <3> QED
      BY <2>4, <3>1
  <2> HIDE DEF m
  <2> QED
    BY <1>1, <1>3, <2>2, <2>3, <2>4, <2>5, <2>6, AnsweredTwice
<1> HIDE DEF m
<1>11. \A d, to : \A bytes \in Seq(Byte) :
           /\ BeginsLike(r, d) /\ HoldsBytes(d, r.pos, bytes, to)
           /\ Len(bytes) = n /\ to <= IntMax
           => Answered(r, q, to, bytes)
  BY <1>10
<1> QED
  BY <1>9, <1>11 DEF m, q

-----------------------------------------------------------------------------
\* The server's calls on a reader.

LEMMA RangeZero == 0 \in IntMin..IntMax /\ IntMin \in Int /\ IntMax \in Nat /\ IntMin <= 0
BY IntRange

LEMMA ReadIntOK ==
    ASSUME NEW r, InData(r), NEW min \in IntMin..IntMax, NEW max \in IntMin..IntMax, min <= max
    PROVE  LET q == ReadInt(r, min, max)
           IN /\ Stepped(r, q) /\ q.threw = r.threw
              /\ q.ok => Len(q.value) = 1 /\ q.value[1] \in min..max
              /\ \A d, v, to : BeginsLike(r, d) /\ v \in min..max /\ HoldsInt(d, r.pos, v, min, max, to)
                     => Answered(r, q, to, <<v>>)
<1> DEFINE s == SerializeInteger(r, min, max)
           o == s.ok /\ s.value[1] \in min..max
           q == ReadInt(r, min, max)
<1>1. /\ Stepped(r, s) /\ s.threw = r.threw
      /\ s.ok => Len(s.value) = 1 /\ s.value[1] \in Int
  BY SerializeIntegerOK
<1>2. \A d, v, to : BeginsLike(r, d) /\ v \in min..max /\ HoldsInt(d, r.pos, v, min, max, to)
                     => Answered(r, s, to, <<v>>)
  BY SerializeIntegerOK
<1>3. q = [s EXCEPT !.ok = o]
  BY DEF ReadInt, InRange
<1> HIDE DEF q
<1>4. o \in BOOLEAN /\ (o => s.ok /\ s.value[1] \in min..max)
  OBVIOUS
<1>5. (s.ok /\ s.value[1] \in min..max) => o
  OBVIOUS
<1> HIDE DEF s, o
<1>6. s \in ReaderType
  BY <1>1 DEF Stepped, InData
<1>7. /\ q \in ReaderType /\ q.data = s.data /\ q.pos = s.pos /\ q.bitsRead = s.bitsRead
      /\ q.error = s.error /\ q.ok = o /\ q.value = s.value /\ q.threw = s.threw
  BY <1>3, <1>4, <1>6 DEF ReaderType
<1>8. Stepped(r, q)
  BY <1>1, <1>4, <1>7 DEF Stepped, InData
<1>9. ASSUME NEW d, NEW v, NEW to, BeginsLike(r, d), v \in min..max, HoldsInt(d, r.pos, v, min, max, to)
      PROVE  Answered(r, q, to, <<v>>)
  <2>1. Answered(r, s, to, <<v>>)
    BY <1>2, <1>9
  <2>2. CASE to <= Len(r.data)
    <3>1. Gave(r, s, to, <<v>>)
      BY <2>1, <2>2 DEF Answered
    <3>2. s.ok /\ s.value = <<v>>
      BY <3>1 DEF Gave
    <3>3. o
      <4>1. s.value[1] = v
        BY <3>2
      <4> QED
        BY <1>5, <1>9, <3>2, <4>1
    <3>4. Gave(r, q, to, <<v>>)
      BY <1>7, <3>1, <3>3 DEF Gave
    <3> QED
      BY <2>2, <3>4 DEF Answered
  <2>3. CASE ~(to <= Len(r.data))
    <3>1. Ended(r, s)
      BY <2>1, <2>3 DEF Answered
    <3>2. ~s.ok /\ s.error /\ s.threw = r.threw
      BY <3>1 DEF Ended
    <3>3. ~o
      BY <1>4, <3>2
    <3>4. Ended(r, q)
      BY <1>7, <3>2, <3>3 DEF Ended
    <3> QED
      BY <2>3, <3>4 DEF Answered
  <2> QED
    BY <2>2, <2>3
<1>10. q.ok => Len(q.value) = 1 /\ q.value[1] \in min..max
  BY <1>1, <1>4, <1>7
<1>11. q.threw = r.threw
  BY <1>1, <1>7
<1> QED
  BY <1>8, <1>9, <1>10, <1>11 DEF q

(* Another value in place of the one delivered. *)
LEMMA ValueReplaced ==
    ASSUME NEW r, NEW s, Stepped(r, s), NEW w \in Seq(Int), NEW q, q = [s EXCEPT !.value = w]
    PROVE  /\ Stepped(r, q) /\ q.ok = s.ok /\ q.threw = s.threw /\ q.pos = s.pos /\ q.error = s.error
           /\ q.value = w
           /\ \A to, v : Answered(r, s, to, v) => Answered(r, q, to, w)
<1>1. s \in ReaderType
  BY DEF Stepped, InData
<1>2. /\ q \in ReaderType /\ q.data = s.data /\ q.pos = s.pos /\ q.bitsRead = s.bitsRead
      /\ q.error = s.error /\ q.ok = s.ok /\ q.value = w /\ q.threw = s.threw
  BY <1>1 DEF ReaderType
<1>3. Stepped(r, q)
  BY <1>2 DEF Stepped, InData
<1>4. ASSUME NEW to, NEW v, Answered(r, s, to, v) PROVE Answered(r, q, to, w)
  <2>1. Gave(r, s, to, v) => Gave(r, q, to, w)
    BY <1>2 DEF Gave
  <2>2. Ended(r, s) => Ended(r, q)
    BY <1>2 DEF Ended
  <2> QED
    BY <1>4, <2>1, <2>2 DEF Answered
<1> QED
  BY <1>2, <1>3, <1>4

LEMMA ReadEnumOK ==
    ASSUME NEW r, InData(r), NEW c, c.min \in IntMin..IntMax, c.max \in IntMin..IntMax, c.min <= c.max
    PROVE  LET q == ReadEnum(r, c)
           IN /\ Stepped(r, q)
              /\ \A d, v, to : BeginsLike(r, d) /\ v \in c.min..c.max
                               /\ HoldsInt(d, r.pos, v, c.min, c.max, to)
                     => Answered(r, q, to, << >>)
<1> DEFINE s == ReadInt(r, c.min, c.max)
<1>1. Stepped(r, s)
  BY ReadIntOK
<1>2. \A d, v, to : BeginsLike(r, d) /\ v \in c.min..c.max /\ HoldsInt(d, r.pos, v, c.min, c.max, to)
                     => Answered(r, s, to, <<v>>)
  BY ReadIntOK
<1>3. ReadEnum(r, c) = [s EXCEPT !.value = << >>] /\ << >> \in Seq(Int)
  BY DEF ReadEnum
<1> DEFINE q == ReadEnum(r, c)
<1> HIDE DEF s, q
<1>4. q = [s EXCEPT !.value = << >>] /\ << >> \in Seq(Int)
  BY <1>3 DEF q
<1>5. Stepped(r, q) /\ \A to, v : Answered(r, s, to, v) => Answered(r, q, to, << >>)
  BY <1>1, <1>4, ValueReplaced
<1> QED
  BY <1>2, <1>5 DEF q

LEMMA Joined ==
    ASSUME NEW x \in Seq(Int), NEW y \in Seq(Int)
    PROVE  /\ x \o y \in Seq(Int) /\ Len(x \o y) = Len(x) + Len(y)
           /\ \A i \in 1..Len(x) : (x \o y)[i] = x[i]
           /\ \A i \in 1..Len(y) : (x \o y)[Len(x) + i] = y[i]
OBVIOUS

LEMMA Pair == ASSUME NEW a \in Int, NEW b \in Int PROVE <<a>> \o <<b>> = <<a, b>>
<1> DEFINE x == <<a>>
           y == <<b>>
           z == <<a, b>>
<1>1. x \in Seq(Int) /\ y \in Seq(Int) /\ Len(x) = 1 /\ Len(y) = 1 /\ x[1] = a /\ y[1] = b
  OBVIOUS
<1>2. z \in Seq(Int) /\ Len(z) = 2 /\ z[1] = a /\ z[2] = b
  OBVIOUS
<1> HIDE DEF x, y, z
<1>3. x \o y \in Seq(Int) /\ Len(x \o y) = 2 /\ (x \o y)[1] = a /\ (x \o y)[2] = b
  <2>1. x \o y \in Seq(Int) /\ Len(x \o y) = Len(x) + Len(y)
    BY <1>1, Joined
  <2>2. \A i \in 1..Len(x) : (x \o y)[i] = x[i]
    BY <1>1
  <2>3. \A i \in 1..Len(y) : (x \o y)[Len(x) + i] = y[i]
    BY <1>1, Joined
  <2>4. (x \o y)[1] = a
    BY <1>1, <2>2
  <2>5. 1 \in 1..Len(y) /\ Len(x) + 1 = 2
    BY <1>1
  <2>6. (x \o y)[2] = y[1]
    BY <2>3, <2>5
  <2> QED
    BY <1>1, <2>1, <2>4, <2>6
<1> DEFINE u == x \o y
<1> HIDE DEF u
<1>4. u \in Seq(Int) /\ Len(u) = 2 /\ u[1] = a /\ u[2] = b
  BY <1>3 DEF u
<1>5. \A i \in 1..2 : u[i] = z[i]
  BY <1>2, <1>4
<1>6. u = z
  BY <1>2, <1>4, <1>5
<1> QED
  BY <1>6 DEF u, x, y, z

LEMMA ReadUint64OK ==
    ASSUME NEW r, InData(r)
    PROVE  LET q == ReadUint64(r)
           IN /\ Stepped(r, q)
              /\ \A d, to : \A lo \in Uint : \A hi \in Uint :
                    /\ BeginsLike(r, d) /\ to = r.pos + IntBits + IntBits
                    /\ Holds(d, r.pos, lo, IntBits) /\ Holds(d, r.pos + IntBits, hi, IntBits)
                    => Answered(r, q, to, <<lo, hi>>)
<1> DEFINE a == SerializeBits(r, IntBits)
           b == SerializeBits(a, IntBits)
           q == ReadUint64(r)
<1>1. IntBits \in Width /\ IntBits \in Nat /\ r.pos \in Nat
  BY ByteFacts, Constants DEF InData, ReaderType
<1>2. Stepped(r, a) /\ (a.ok => Len(a.value) = 1 /\ a.value[1] \in 0..(2^IntBits - 1))
  BY <1>1, SerializeBitsOK
<1>3. \A d, v : BeginsLike(r, d) /\ v \in Uint /\ Holds(d, r.pos, v, IntBits)
         => Answered(r, a, r.pos + IntBits, <<v>>)
  BY <1>1, SerializeBitsOK DEF Uint
<1>4. InData(a) /\ a \in ReaderType /\ a.value \in Seq(Int) /\ a.data = r.data
  BY <1>2 DEF Stepped, InData, ReaderType
<1> HIDE DEF a
<1>5. Stepped(a, b)
  BY <1>1, <1>4, SerializeBitsOK
<1>6. \A d, v : BeginsLike(a, d) /\ v \in Uint /\ Holds(d, a.pos, v, IntBits)
         => Answered(a, b, a.pos + IntBits, <<v>>)
  BY <1>1, <1>4, SerializeBitsOK DEF Uint
<1>7. b \in ReaderType /\ b.value \in Seq(Int)
  BY <1>5 DEF Stepped, InData, ReaderType
<1> DEFINE w == a.value \o b.value
<1>8. q = IF a.ok THEN [b EXCEPT !.value = w] ELSE a
  BY DEF ReadUint64, a
<1>9. w \in Seq(Int)
  BY <1>4, <1>7
<1> HIDE DEF b, w, q
<1>10. CASE ~a.ok
  <2>1. q = a
    BY <1>8, <1>10
  <2>2. ASSUME NEW d, NEW to, NEW lo \in Uint, NEW hi \in Uint,
               BeginsLike(r, d), to = r.pos + IntBits + IntBits, Holds(d, r.pos, lo, IntBits)
        PROVE  Answered(r, q, to, <<lo, hi>>)
    <3>1. Answered(r, a, r.pos + IntBits, <<lo>>)
      BY <1>3, <2>2
    <3>2. ~(r.pos + IntBits <= Len(r.data)) /\ Ended(r, a)
      BY <1>10, <3>1 DEF Answered, Gave
    <3>3. Len(r.data) \in Nat
      BY DEF InData, ReaderType
    <3>4. ~(to <= Len(r.data))
      BY <1>1, <2>2, <3>2, <3>3
    <3> QED
      BY <2>1, <3>2, <3>4 DEF Answered
  <2> QED
    BY <1>2, <2>1, <2>2 DEF q
<1>11. CASE a.ok
  <2>1. q = [b EXCEPT !.value = w]
    BY <1>8, <1>11
  <2>2. Stepped(a, q) /\ \A to, v : Answered(a, b, to, v) => Answered(a, q, to, w)
    BY <1>5, <1>9, <2>1, ValueReplaced
  <2>3. Stepped(r, q)
    BY <1>2, <1>11, <2>2 DEF Stepped
  <2>4. ASSUME NEW d, NEW to, NEW lo \in Uint, NEW hi \in Uint,
               BeginsLike(r, d), to = r.pos + IntBits + IntBits, Holds(d, r.pos, lo, IntBits),
               Holds(d, r.pos + IntBits, hi, IntBits)
        PROVE  Answered(r, q, to, <<lo, hi>>)
    <3>1. Answered(r, a, r.pos + IntBits, <<lo>>)
      BY <1>3, <2>4
    <3>2. a.pos = r.pos + IntBits /\ a.value = <<lo>>
      BY <1>11, <3>1 DEF Answered, Gave, Ended
    <3>3. BeginsLike(a, d)
      BY <1>4, <2>4 DEF BeginsLike
    <3>4. Answered(a, b, to, <<hi>>)
      BY <1>6, <2>4, <3>2, <3>3
    <3>5. Answered(a, q, to, w)
      BY <2>2, <3>4
    <3>6. CASE ~(to <= Len(r.data))
      <4>1. Ended(a, q)
        BY <1>4, <3>5, <3>6 DEF Answered
      <4>2. a.threw = r.threw
        BY <1>11, <3>1 DEF Answered, Gave, Ended
      <4> QED
        BY <3>6, <4>1, <4>2 DEF Answered, Ended
    <3>7. CASE to <= Len(r.data)
      <4>1. b.value = <<hi>>
        BY <1>4, <3>4, <3>7 DEF Answered, Gave
      <4>2. w = <<lo, hi>>
        <5>1. w = <<lo>> \o <<hi>>
          BY <3>2, <4>1 DEF w
        <5>2. lo \in Int /\ hi \in Int
          BY <1>1, Powers DEF Uint
        <5>3. <<lo>> \o <<hi>> = <<lo, hi>>
          BY <5>2, Pair
        <5> QED
          BY <5>1, <5>3
      <4>3. r.pos + IntBits \in Nat /\ to \in Nat /\ r.pos + IntBits <= to
        BY <1>1, <2>4
      <4>4. Answered(r, q, to, w)
        BY <1>4, <1>11, <2>2, <3>1, <3>5, <4>3, AnsweredTwice
      <4> QED
        BY <4>2, <4>4
    <3> QED
      BY <3>6, <3>7
  <2> QED
    BY <2>3, <2>4 DEF q
<1> QED
  BY <1>10, <1>11

LEMMA StringMaxRange == /\ BufferSize - 1 \in 0..IntMax /\ BufferSize - 1 \in IntMin..IntMax
                        /\ 0 <= BufferSize - 1
<1>1. /\ IntMax \in Nat \ {0} /\ ByteBits \in Nat \ {0} /\ BufferSize \in Nat \ {0, 1}
      /\ (BufferSize - 1) * ByteBits <= IntMax /\ IntMin <= 0 /\ IntMin \in Int
  BY IntRange, Constants
<1>2. BufferSize - 1 \in Nat /\ BufferSize - 1 <= (BufferSize - 1) * ByteBits
  <2>1. \A n \in Nat : n <= n * ByteBits
    BY <1>1
  <2> QED
    BY <1>1, <2>1
<1>3. (BufferSize - 1) * ByteBits \in Int
  BY <1>1
<1> QED
  BY <1>1, <1>2, <1>3

(* Length and bytes, whichever the stream with the length is. *)
LEMMA LengthThenBytes ==
    ASSUME NEW r, InData(r), NEW a, Stepped(r, a), a.threw = r.threw, NEW max,
           a.ok => a.value[1] \in Nat,
           \A d, v, to : BeginsLike(r, d) /\ v \in 0..max /\ HoldsInt(d, r.pos, v, 0, max, to)
              => Answered(r, a, to, <<v>>),
           NEW q, a.ok => q = SerializeBytes(a, a.value[1]), ~a.ok => q = a
    PROVE  /\ Stepped(r, q)
           /\ \A d : \A bytes \in Seq(Byte), mid \in Nat, to \in Nat :
                 /\ BeginsLike(r, d) /\ Len(bytes) \in 0..max /\ to <= IntMax
                 /\ HoldsInt(d, r.pos, Len(bytes), 0, max, mid) /\ HoldsBytes(d, mid, bytes, to)
                 => Answered(r, q, to, bytes)
<1>1. InData(a) /\ a.data = r.data
  BY DEF Stepped
<1>2. Stepped(a, q)
  <2>1. CASE a.ok
    <3>1. a.value[1] \in Nat /\ q = SerializeBytes(a, a.value[1])
      BY <2>1
    <3> QED
      BY <1>1, <3>1, SerializeBytesOK
  <2>2. CASE ~a.ok
    BY <1>1, <2>2 DEF Stepped
  <2> QED
    BY <2>1, <2>2
<1>3. Stepped(r, q)
  BY <1>1, <1>2 DEF Stepped
<1>4. ASSUME NEW d, NEW bytes \in Seq(Byte), NEW mid \in Nat, NEW to \in Nat,
             BeginsLike(r, d), Len(bytes) \in 0..max, to <= IntMax,
             HoldsInt(d, r.pos, Len(bytes), 0, max, mid), HoldsBytes(d, mid, bytes, to)
      PROVE  Answered(r, q, to, bytes)
  <2> DEFINE n == Len(bytes)
  <2>1. Answered(r, a, mid, <<n>>)
    BY <1>4
  <2>2. mid <= to
    <3>1. AlignBits(mid) \in 0..(ByteBits - 1) /\ ByteBits \in Nat
      BY AlignRange, Constants
    <3>2. n * ByteBits \in Nat
      BY <3>1, Multiples
    <3>3. to = mid + AlignBits(mid) + n * ByteBits
      BY <1>4 DEF HoldsBytes
    <3> DEFINE m == n * ByteBits
    <3> HIDE DEF m
    <3>4. m \in Nat /\ to = mid + AlignBits(mid) + m
      BY <3>2, <3>3 DEF m
    <3> QED
      BY <3>1, <3>4
  <2>3. a.ok => Answered(a, q, to, bytes)
    <3> SUFFICES ASSUME a.ok PROVE Answered(a, q, to, bytes)
      OBVIOUS
    <3>1. a.pos = mid /\ a.value = <<n>>
      BY <2>1 DEF Answered, Gave, Ended
    <3>2. a.value[1] = n /\ n \in Nat
      BY <3>1
    <3>3. q = SerializeBytes(a, n)
      BY <3>2
    <3>4. BeginsLike(a, d)
      BY <1>1, <1>4 DEF BeginsLike
    <3>5. HoldsBytes(d, a.pos, bytes, to)
      BY <1>4, <3>1
    <3> QED
      BY <1>1, <1>4, <3>2, <3>3, <3>4, <3>5, SerializeBytesOK
  <2> QED
    BY <1>1, <1>2, <2>1, <2>2, <2>3, AnsweredTwice
<1> QED
  BY <1>3, <1>4

LEMMA ReadStringOK ==
    ASSUME NEW r, InData(r)
    PROVE  LET q == ReadString(r)
           IN /\ Stepped(r, q)
              /\ \A d : \A bytes \in Seq(Byte), mid \in Nat, to \in Nat :
                    /\ BeginsLike(r, d) /\ Len(bytes) \in 0..(BufferSize - 1)
                    /\ to <= IntMax
                    /\ HoldsInt(d, r.pos, Len(bytes), 0, BufferSize - 1, mid)
                    /\ HoldsBytes(d, mid, bytes, to)
                    => Answered(r, q, to, bytes)
<1> DEFINE a == ReadInt(r, 0, BufferSize - 1)
           q == ReadString(r)
           max == BufferSize - 1
<1>1. 0 \in IntMin..IntMax /\ max \in IntMin..IntMax /\ 0 <= max /\ max \in Nat
  BY RangeZero, StringMaxRange
<1>2. /\ Stepped(r, a) /\ a.threw = r.threw /\ (a.ok => a.value[1] \in 0..max)
      /\ \A d, v, to : BeginsLike(r, d) /\ v \in 0..max /\ HoldsInt(d, r.pos, v, 0, max, to)
              => Answered(r, a, to, <<v>>)
  BY <1>1, ReadIntOK
<1>3. (a.ok => q = SerializeBytes(a, a.value[1])) /\ (~a.ok => q = a)
  BY DEF ReadString
<1>4. a.ok => a.value[1] \in Nat
  BY <1>1, <1>2
<1> HIDE DEF a, q, max
<1>5. Stepped(r, q)
  BY <1>2, <1>3, <1>4, LengthThenBytes
<1>6. \A d : \A bytes \in Seq(Byte), mid \in Nat, to \in Nat :
                 /\ BeginsLike(r, d) /\ Len(bytes) \in 0..max /\ to <= IntMax
                 /\ HoldsInt(d, r.pos, Len(bytes), 0, max, mid) /\ HoldsBytes(d, mid, bytes, to)
                 => Answered(r, q, to, bytes)
  BY <1>2, <1>3, <1>4, LengthThenBytes
<1> QED
  BY <1>5, <1>6 DEF q, max

(* A call of the server on bits a writer in lang has left. *)
LEMMA DecodeCppOK ==
    ASSUME NEW r, InData(r), NEW lang \in Lang, NEW c, Legal(c, lang), c.op = "string" => lang = "cpp"
    PROVE  LET q == DecodeCpp(r, c)
           IN /\ Stepped(r, q)
              /\ \A d : \A to \in Nat :
                    BeginsLike(r, d) /\ Carries(d, r.pos, c, lang, to) /\ to <= IntMax
                    => Answered(r, q, to, IF c.op = "enum" THEN << >> ELSE c.value)
<1> DEFINE q == DecodeCpp(r, c)
<1>1. CASE c.op \in {"int", "enum"}
  <2>1. /\ c.min \in IntMin..IntMax /\ c.max \in IntMin..IntMax /\ c.min < c.max
        /\ c.value[1] \in c.min..c.max /\ c.value = <<c.value[1]>>
    BY <1>1 DEF Legal
  <2>2. c.min <= c.max
    BY <2>1, IntRange
  <2>3. \A d, to : Carries(d, r.pos, c, lang, to) => HoldsInt(d, r.pos, c.value[1], c.min, c.max, to)
    BY <1>1 DEF Carries
  <2>4. CASE c.op = "int"
    <3>1. q = ReadInt(r, c.min, c.max)
      BY <2>4 DEF DecodeCpp
    <3>2. Stepped(r, q)
      BY <2>1, <2>2, <3>1, ReadIntOK
    <3>3. \A d, v, to : BeginsLike(r, d) /\ v \in c.min..c.max /\ HoldsInt(d, r.pos, v, c.min, c.max, to)
                     => Answered(r, q, to, <<v>>)
      BY <2>1, <2>2, <3>1, ReadIntOK
    <3> HIDE DEF q
    <3>4. \A d, to : BeginsLike(r, d) /\ Carries(d, r.pos, c, lang, to)
             => Answered(r, q, to, c.value)
      BY <2>1, <2>3, <3>3
    <3> QED
      BY <2>4, <3>2, <3>4 DEF q
  <2>5. CASE c.op = "enum"
    <3>1. q = ReadEnum(r, c)
      BY <2>5 DEF DecodeCpp
    <3>2. Stepped(r, q)
      BY <2>1, <2>2, <3>1, ReadEnumOK
    <3>3. \A d, v, to : BeginsLike(r, d) /\ v \in c.min..c.max /\ HoldsInt(d, r.pos, v, c.min, c.max, to)
                     => Answered(r, q, to, << >>)
      BY <2>1, <2>2, <3>1, ReadEnumOK
    <3> HIDE DEF q
    <3>4. \A d, to : BeginsLike(r, d) /\ Carries(d, r.pos, c, lang, to)
             => Answered(r, q, to, << >>)
      BY <2>1, <2>3, <3>3
    <3> QED
      BY <2>5, <3>2, <3>4 DEF q
  <2> QED
    BY <1>1, <2>4, <2>5
<1>2. CASE c.op = "bits"
  <2>1. c.size \in 1..IntBits /\ c.value[1] \in 0..(2^c.size - 1) /\ c.value = <<c.value[1]>>
    BY <1>2 DEF Legal
  <2>2. c.size \in Width
    BY <2>1, Constants DEF Width
  <2>3. q = SerializeBits(r, c.size)
    BY <1>2 DEF DecodeCpp
  <2>4. Stepped(r, q)
    BY <2>2, <2>3, SerializeBitsOK
  <2>5. \A d, v : BeginsLike(r, d) /\ v \in 0..(2^c.size - 1) /\ Holds(d, r.pos, v, c.size)
                     => Answered(r, q, r.pos + c.size, <<v>>)
    BY <2>2, <2>3, SerializeBitsOK
  <2>6. \A d, to : Carries(d, r.pos, c, lang, to)
           => to = r.pos + c.size /\ Holds(d, r.pos, c.value[1], c.size)
    BY <1>2 DEF Carries
  <2> HIDE DEF q
  <2>7. ASSUME NEW d, NEW to, BeginsLike(r, d), Carries(d, r.pos, c, lang, to)
        PROVE  Answered(r, q, to, c.value)
    <3>1. to = r.pos + c.size /\ Holds(d, r.pos, c.value[1], c.size)
      BY <2>6, <2>7
    <3>2. Answered(r, q, r.pos + c.size, <<c.value[1]>>)
      BY <2>1, <2>5, <2>7, <3>1
    <3> QED
      BY <2>1, <3>1, <3>2
  <2> QED
    BY <1>2, <2>4, <2>7 DEF q
<1>3. CASE c.op = "uint64"
  <2>1. c.value[1] \in Uint /\ c.value[2] \in Uint /\ c.value = <<c.value[1], c.value[2]>>
    BY <1>3 DEF Legal
  <2>2. q = ReadUint64(r)
    BY <1>3 DEF DecodeCpp
  <2>3. Stepped(r, q)
    BY <2>2, ReadUint64OK
  <2>4. \A d, to : \A lo \in Uint : \A hi \in Uint :
            /\ BeginsLike(r, d) /\ to = r.pos + IntBits + IntBits
            /\ Holds(d, r.pos, lo, IntBits) /\ Holds(d, r.pos + IntBits, hi, IntBits)
            => Answered(r, q, to, <<lo, hi>>)
    BY <2>2, ReadUint64OK
  <2>5. \A d, to : Carries(d, r.pos, c, lang, to)
           => /\ to = r.pos + IntBits + IntBits
              /\ Holds(d, r.pos, c.value[1], IntBits) /\ Holds(d, r.pos + IntBits, c.value[2], IntBits)
    BY <1>3 DEF Carries
  <2> HIDE DEF q
  <2>6. \A d, to : BeginsLike(r, d) /\ Carries(d, r.pos, c, lang, to)
           => Answered(r, q, to, c.value)
    BY <2>1, <2>4, <2>5
  <2> QED
    BY <1>3, <2>3, <2>6 DEF q
<1>4. CASE c.op = "align"
  <2>1. c.value = << >>
    BY <1>4 DEF Legal
  <2>2. q = SerializeAlign(r)
    BY <1>4 DEF DecodeCpp
  <2>3. Stepped(r, q)
    BY <2>2, SerializeAlignOK
  <2>4. \A d : BeginsLike(r, d) /\ Zeros(d, r.pos, AlignBits(r.pos))
                     => Answered(r, q, r.pos + AlignBits(r.pos), << >>)
    BY <2>2, SerializeAlignOK
  <2>5. \A d, to : Carries(d, r.pos, c, lang, to)
           => to = r.pos + AlignBits(r.pos) /\ Zeros(d, r.pos, AlignBits(r.pos))
    BY <1>4 DEF Carries
  <2> HIDE DEF q
  <2>6. \A d, to : BeginsLike(r, d) /\ Carries(d, r.pos, c, lang, to)
           => Answered(r, q, to, c.value)
    BY <2>1, <2>4, <2>5
  <2> QED
    BY <1>4, <2>3, <2>6 DEF q
<1>5. CASE c.op = "bytes"
  <2>1. c.value \in Seq(Byte) /\ Len(c.value) * ByteBits <= IntMax /\ Len(c.value) \in Nat
    BY <1>5 DEF Legal
  <2>2. q = SerializeBytes(r, Len(c.value))
    BY <1>5 DEF DecodeCpp
  <2>3. Stepped(r, q)
    BY <2>1, <2>2, SerializeBytesOK
  <2>4. \A d, to : BeginsLike(r, d) /\ HoldsBytes(d, r.pos, c.value, to) /\ to <= IntMax
           => Answered(r, q, to, c.value)
    BY <2>1, <2>2, SerializeBytesOK
  <2>5. \A d, to : Carries(d, r.pos, c, lang, to) => HoldsBytes(d, r.pos, c.value, to)
    BY <1>5 DEF Carries
  <2> HIDE DEF q
  <2> QED
    BY <1>5, <2>3, <2>4, <2>5 DEF q
<1>6. CASE c.op = "string"
  <2>1. /\ lang = "cpp" /\ c.value \in Seq(Byte) /\ Len(c.value) * ByteBits <= IntMax
        /\ Len(c.value) \in 0..(BufferSize - 1)
    BY <1>6, Constants DEF Legal
  <2>2. SentBytes(c, lang) = c.value /\ StringMax(lang) = BufferSize - 1
    BY <2>1 DEF SentBytes, StringMax
  <2>3. q = ReadString(r)
    BY <1>6 DEF DecodeCpp
  <2>4. Stepped(r, q)
    BY <2>3, ReadStringOK
  <2>5. \A d : \A mid \in Nat, to \in Nat :
             /\ BeginsLike(r, d) /\ HoldsInt(d, r.pos, Len(c.value), 0, BufferSize - 1, mid)
             /\ HoldsBytes(d, mid, c.value, to) /\ to <= IntMax
             => Answered(r, q, to, c.value)
    BY <2>1, <2>3, ReadStringOK
  <2>6. \A d, to : Carries(d, r.pos, c, lang, to)
           => \E mid \in Nat : /\ HoldsInt(d, r.pos, Len(c.value), 0, BufferSize - 1, mid)
                               /\ HoldsBytes(d, mid, c.value, to)
    BY <1>6, <2>2 DEF Carries
  <2> HIDE DEF q
  <2> QED
    BY <1>6, <2>4, <2>5, <2>6 DEF q
<1> QED
  BY <1>1, <1>2, <1>3, <1>4, <1>5, <1>6 DEF Legal

-----------------------------------------------------------------------------
\* The client's calls on a reader.

(* The client goes on after a call that has failed, and has only the error to go by. *)
AnsweredCs(r, q, to, value) == IF to <= Len(r.data) THEN Gave(r, q, to, value) ELSE q.error

LEMMA OrZeroOK ==
    ASSUME NEW r, NEW a, Stepped(r, a), NEW n \in Nat
    PROVE  LET q == OrZero(a, n)
           IN /\ Stepped(r, q) /\ q.threw = a.threw /\ q.ok = a.ok /\ q.error = a.error
              /\ a.ok => q = a
              /\ ~a.ok => \A i \in 1..n : q.value[i] = 0
              /\ \A to, v : Answered(r, a, to, v) => Answered(r, q, to, v)
<1> DEFINE q == OrZero(a, n)
           w == [i \in 1..n |-> 0]
<1>1. CASE a.ok
  BY <1>1 DEF OrZero
<1>2. CASE ~a.ok
  <2>1. q = [a EXCEPT !.value = w] /\ w \in Seq(Int)
    BY <1>2 DEF OrZero
  <2>w. \A i \in 1..n : w[i] = 0
    OBVIOUS
  <2> HIDE DEF q, w
  <2>2. /\ Stepped(r, q) /\ q.ok = a.ok /\ q.threw = a.threw /\ q.error = a.error /\ q.value = w
    BY <2>1, ValueReplaced
  <2>3. \A to, v : Answered(r, a, to, v) => Answered(r, q, to, v)
    BY <1>2, <2>2 DEF Answered, Gave, Ended
  <2>4. ~a.ok => \A i \in 1..n : q.value[i] = 0
    BY <2>2, <2>w
  <2> QED
    BY <1>2, <2>2, <2>3, <2>4 DEF q
<1> QED
  BY <1>1, <1>2

LEMMA AnsweredSo == \A r, q, to, v : Answered(r, q, to, v) => AnsweredCs(r, q, to, v)
BY DEF Answered, AnsweredCs, Ended

LEMMA DeserializeBitsOK ==
    ASSUME NEW r, InData(r), NEW n \in Width
    PROVE  LET q == DeserializeBits(r, n)
           IN /\ Stepped(r, q)
              /\ \A d, v : BeginsLike(r, d) /\ v \in 0..(2^n - 1) /\ Holds(d, r.pos, v, n)
                     => Answered(r, q, r.pos + n, <<v>>)
<1> DEFINE a == SerializeBits(r, n)
           q == DeserializeBits(r, n)
<1>1. Stepped(r, a)
  BY SerializeBitsOK
<1>2. \A d, v : BeginsLike(r, d) /\ v \in 0..(2^n - 1) /\ Holds(d, r.pos, v, n)
                     => Answered(r, a, r.pos + n, <<v>>)
  BY SerializeBitsOK
<1>3. q = OrZero(a, 1)
  BY DEF DeserializeBits
<1> HIDE DEF a, q
<1>4. Stepped(r, q) /\ \A to, v : Answered(r, a, to, v) => Answered(r, q, to, v)
  BY <1>1, <1>3, OrZeroOK
<1> QED
  BY <1>2, <1>4 DEF q

LEMMA DeserializeIntOK ==
    ASSUME NEW r, InData(r), NEW min \in IntMin..IntMax, NEW max \in IntMin..IntMax, min <= max
    PROVE  LET q == DeserializeInt(r, min, max)
           IN /\ Stepped(r, q) /\ q.threw = r.threw
              /\ min = 0 => q.value[1] \in Nat
              /\ \A d, v, to : BeginsLike(r, d) /\ v \in min..max /\ HoldsInt(d, r.pos, v, min, max, to)
                     => Answered(r, q, to, <<v>>)
<1> DEFINE a == SerializeInteger(r, min, max)
           q == DeserializeInt(r, min, max)
<1>1. /\ Stepped(r, a) /\ a.threw = r.threw
      /\ a.ok => (min = 0 => a.value[1] \in Nat)
  BY SerializeIntegerOK
<1>2. \A d, v, to : BeginsLike(r, d) /\ v \in min..max /\ HoldsInt(d, r.pos, v, min, max, to)
                     => Answered(r, a, to, <<v>>)
  BY SerializeIntegerOK
<1>3. q = OrZero(a, 1)
  BY DEF DeserializeInt
<1> HIDE DEF a, q
<1>3a. Stepped(r, q) /\ q.threw = a.threw /\ (a.ok => q = a)
  BY <1>1, <1>3, OrZeroOK
<1>3b. ~a.ok => \A i \in 1..1 : q.value[i] = 0
  BY <1>1, <1>3, OrZeroOK
<1>4. /\ Stepped(r, q) /\ q.threw = a.threw /\ (a.ok => q = a)
      /\ ~a.ok => \A i \in 1..1 : q.value[i] = 0
  BY <1>3a, <1>3b
<1>5. \A to, v : Answered(r, a, to, v) => Answered(r, q, to, v)
  BY <1>1, <1>3, OrZeroOK
<1>6. min = 0 => q.value[1] \in Nat
  <2>1. ~a.ok => q.value[1] = 0
    BY <1>4
  <2> QED
    BY <1>1, <1>4, <2>1
<1> QED
  BY <1>1, <1>2, <1>4, <1>5, <1>6 DEF q

LEMMA DeserializeBytesOK ==
    ASSUME NEW r, InData(r), NEW n \in Nat
    PROVE  LET q == DeserializeBytes(r, n)
           IN /\ Stepped(r, q)
              /\ \A d, to : \A bytes \in Seq(Byte) :
                    /\ BeginsLike(r, d) /\ HoldsBytes(d, r.pos, bytes, to)
                    /\ Len(bytes) = n /\ to <= IntMax
                    => Answered(r, q, to, bytes)
<1> DEFINE a == SerializeBytes(r, n)
           q == DeserializeBytes(r, n)
           Read(x) == \A d, to : \A bytes \in Seq(Byte) :
                    /\ BeginsLike(r, d) /\ HoldsBytes(d, r.pos, bytes, to)
                    /\ Len(bytes) = n /\ to <= IntMax
                    => Answered(r, x, to, bytes)
<1>1. Stepped(r, a)
  BY SerializeBytesOK
<1>2. Read(a)
  BY SerializeBytesOK
<1>3. q = OrZero(a, n)
  BY DEF DeserializeBytes
<1> HIDE DEF a, q
<1>4. Stepped(r, q) /\ \A to, v : Answered(r, a, to, v) => Answered(r, q, to, v)
  BY <1>1, <1>3, OrZeroOK
<1>5. Read(q)
  BY <1>2, <1>4
<1> QED
  BY <1>4, <1>5 DEF q

(* q is b with another answer. *)
Replaced(q, b, ok, value) ==
    /\ q \in ReaderType /\ q.data = b.data /\ q.pos = b.pos /\ q.bitsRead = b.bitsRead
    /\ q.error = b.error /\ q.threw = b.threw /\ (q.ok <=> ok) /\ q.value = value

(* Two calls, of which the second is made whatever became of the first. *)
LEMMA BothCalls ==
    ASSUME NEW r, InData(r), NEW a, Stepped(r, a), NEW b, Stepped(a, b),
           NEW w, NEW q, Replaced(q, b, a.ok /\ b.ok, w)
    PROVE  /\ Stepped(r, q) /\ q.threw = b.threw
           /\ \A mid \in Nat, to \in Nat : \A u, v :
                 mid <= to /\ Answered(r, a, mid, u) /\ (Gave(r, a, mid, u) => Answered(a, b, to, v))
                 => AnsweredCs(r, q, to, w)
<1>1. a \in ReaderType /\ b \in ReaderType /\ a.data = r.data /\ b.data = r.data
  BY DEF Stepped, InData
<1>3. /\ q \in ReaderType /\ q.data = b.data /\ q.pos = b.pos /\ q.bitsRead = b.bitsRead
      /\ q.error = b.error /\ (q.ok <=> a.ok /\ b.ok) /\ q.value = w /\ q.threw = b.threw
  BY DEF Replaced
<1>4. Stepped(r, q)
  BY <1>3 DEF Stepped, InData
<1>5. ASSUME NEW mid \in Nat, NEW to \in Nat, NEW u, NEW v, mid <= to, Answered(r, a, mid, u),
             Gave(r, a, mid, u) => Answered(a, b, to, v)
      PROVE  AnsweredCs(r, q, to, w)
  <2>0. r.pos \in Nat /\ r.bitsRead \in Nat /\ Len(r.data) \in Nat
    BY DEF InData, ReaderType
  <2>1. CASE ~(mid <= Len(r.data))
    <3>1. a.error /\ ~(to <= Len(r.data))
      BY <1>5, <2>0, <2>1 DEF Answered, Ended
    <3>2. q.error
      BY <1>3, <3>1 DEF Stepped
    <3> QED
      BY <3>1, <3>2 DEF AnsweredCs
  <2>2. CASE mid <= Len(r.data) /\ ~(to <= Len(r.data))
    <3>1. Answered(a, b, to, v)
      BY <1>5, <2>2 DEF Answered
    <3>2. b.error
      BY <1>1, <2>2, <3>1 DEF Answered, Ended
    <3> QED
      BY <1>3, <2>2, <3>2 DEF AnsweredCs
  <2>3. CASE mid <= Len(r.data) /\ to <= Len(r.data)
    <3>1. Gave(r, a, mid, u) /\ Answered(a, b, to, v)
      BY <1>5, <2>3 DEF Answered
    <3>2. Gave(a, b, to, v)
      BY <1>1, <2>3, <3>1 DEF Answered
    <3>3. /\ a.ok /\ b.ok /\ b.pos = to /\ b.error = r.error /\ b.threw = r.threw
          /\ a.bitsRead = r.bitsRead + (mid - r.pos) /\ a.pos = mid
          /\ b.bitsRead = a.bitsRead + (to - a.pos)
      BY <3>1, <3>2 DEF Gave
    <3>4. b.bitsRead = r.bitsRead + (to - r.pos)
      BY <2>0, <3>3
    <3>5. Gave(r, q, to, w)
      BY <1>3, <3>3, <3>4 DEF Gave
    <3> QED
      BY <2>3, <3>5 DEF AnsweredCs
  <2> QED
    BY <2>1, <2>2, <2>3
<1> QED
  BY <1>3, <1>4, <1>5

LEMMA DeserializeUInt64OK ==
    ASSUME NEW r, InData(r)
    PROVE  LET q == DeserializeUInt64(r)
           IN /\ Stepped(r, q)
              /\ \A d, to : \A lo \in Uint : \A hi \in Uint :
                    /\ BeginsLike(r, d) /\ to = r.pos + IntBits + IntBits
                    /\ Holds(d, r.pos, lo, IntBits) /\ Holds(d, r.pos + IntBits, hi, IntBits)
                    => AnsweredCs(r, q, to, <<lo, hi>>)
<1> DEFINE a == DeserializeBits(r, IntBits)
           b == DeserializeBits(a, IntBits)
           q == DeserializeUInt64(r)
<1>1. IntBits \in Width /\ IntBits \in Nat /\ r.pos \in Nat /\ Len(r.data) \in Nat
  BY ByteFacts, Constants DEF InData, ReaderType
<1>2. Stepped(r, a)
  BY <1>1, DeserializeBitsOK
<1>3. \A d, v : BeginsLike(r, d) /\ v \in Uint /\ Holds(d, r.pos, v, IntBits)
         => Answered(r, a, r.pos + IntBits, <<v>>)
  BY <1>1, DeserializeBitsOK DEF Uint
<1>4. InData(a) /\ a \in ReaderType /\ a.value \in Seq(Int) /\ a.data = r.data /\ a.ok \in BOOLEAN
  BY <1>2 DEF Stepped, InData, ReaderType
<1> HIDE DEF a
<1>5. Stepped(a, b)
  BY <1>1, <1>4, DeserializeBitsOK
<1>6. \A d, v : BeginsLike(a, d) /\ v \in Uint /\ Holds(d, a.pos, v, IntBits)
         => Answered(a, b, a.pos + IntBits, <<v>>)
  BY <1>1, <1>4, DeserializeBitsOK DEF Uint
<1>7. b \in ReaderType /\ b.value \in Seq(Int)
  BY <1>5 DEF Stepped, InData, ReaderType
<1> DEFINE w == a.value \o b.value
           o == a.ok /\ b.ok
<1>8. q = [b EXCEPT !.ok = o, !.value = w]
  BY DEF DeserializeUInt64, a
<1>9. w \in Seq(Int) /\ o \in BOOLEAN /\ (o <=> a.ok /\ b.ok)
  BY <1>4, <1>7
<1> HIDE DEF b, w, q, o
<1>10. Replaced(q, b, a.ok /\ b.ok, w)
  BY <1>7, <1>8, <1>9 DEF Replaced, ReaderType
<1>11. /\ Stepped(r, q)
       /\ \A mid \in Nat, to \in Nat : \A u, v :
             mid <= to /\ Answered(r, a, mid, u) /\ (Gave(r, a, mid, u) => Answered(a, b, to, v))
             => AnsweredCs(r, q, to, w)
  BY <1>2, <1>5, <1>10, BothCalls
<1>12. ASSUME NEW d, NEW to, NEW lo \in Uint, NEW hi \in Uint,
              BeginsLike(r, d), to = r.pos + IntBits + IntBits, Holds(d, r.pos, lo, IntBits),
              Holds(d, r.pos + IntBits, hi, IntBits)
       PROVE  AnsweredCs(r, q, to, <<lo, hi>>)
  <2> DEFINE mid == r.pos + IntBits
  <2>1. mid \in Nat /\ to \in Nat /\ mid <= to /\ to = mid + IntBits
    BY <1>1, <1>12
  <2>2. Answered(r, a, mid, <<lo>>)
    BY <1>3, <1>12
  <2> HIDE DEF mid
  <2>3. ASSUME Gave(r, a, mid, <<lo>>) PROVE Answered(a, b, to, <<hi>>)
    <3>1. a.pos = mid
      BY <2>3 DEF Gave
    <3>2. BeginsLike(a, d)
      BY <1>4, <1>12 DEF BeginsLike
    <3>3. Holds(d, mid, hi, IntBits)
      BY <1>12 DEF mid
    <3> QED
      BY <1>6, <2>1, <3>1, <3>2, <3>3
  <2>4. AnsweredCs(r, q, to, w)
    BY <1>11, <2>1, <2>2, <2>3
  <2>5. CASE to <= Len(r.data)
    <3>1. mid <= Len(r.data)
      BY <1>1, <2>1, <2>5
    <3>2. Gave(r, a, mid, <<lo>>)
      BY <2>2, <3>1 DEF Answered
    <3>3. Gave(a, b, to, <<hi>>)
      BY <1>4, <2>3, <2>5, <3>2 DEF Answered
    <3>4. w = <<lo>> \o <<hi>>
      BY <3>2, <3>3 DEF Gave, w
    <3>5. lo \in Int /\ hi \in Int
      BY <1>1, Powers DEF Uint
    <3>6. w = <<lo, hi>>
      BY <3>4, <3>5, Pair
    <3> QED
      BY <2>4, <3>6
  <2>6. CASE ~(to <= Len(r.data))
    BY <2>4, <2>6 DEF AnsweredCs
  <2> QED
    BY <2>5, <2>6
<1> QED
  BY <1>11, <1>12 DEF q

LEMMA DeserializeStringOK ==
    ASSUME NEW r, InData(r)
    PROVE  LET q == DeserializeString(r)
           IN /\ Stepped(r, q)
              /\ \A d : \A bytes \in Seq(Byte), mid \in Nat, to \in Nat :
                    /\ BeginsLike(r, d) /\ Len(bytes) \in 0..IntMax
                    /\ to <= IntMax
                    /\ HoldsInt(d, r.pos, Len(bytes), 0, IntMax, mid)
                    /\ HoldsBytes(d, mid, bytes, to)
                    => AnsweredCs(r, q, to, bytes)
<1> DEFINE a == DeserializeInt(r, 0, IntMax)
           n == a.value[1]
           b == DeserializeBytes(a, n)
           q == DeserializeString(r)
<1>1. /\ 0 \in IntMin..IntMax /\ IntMax \in IntMin..IntMax /\ 0 <= IntMax
      /\ r.pos \in Nat /\ Len(r.data) \in Nat
  BY RangeZero DEF InData, ReaderType
<1>2. Stepped(r, a) /\ n \in Nat
  BY <1>1, DeserializeIntOK
<1>3. \A d, v, to : BeginsLike(r, d) /\ v \in 0..IntMax /\ HoldsInt(d, r.pos, v, 0, IntMax, to)
         => Answered(r, a, to, <<v>>)
  BY <1>1, DeserializeIntOK
<1>4. InData(a) /\ a \in ReaderType /\ a.data = r.data /\ a.ok \in BOOLEAN
  BY <1>2 DEF Stepped, InData, ReaderType
<1> HIDE DEF a
<1>5. Stepped(a, b)
  BY <1>2, <1>4, DeserializeBytesOK
<1>6. \A d, to : \A bytes \in Seq(Byte) :
         /\ BeginsLike(a, d) /\ HoldsBytes(d, a.pos, bytes, to)
         /\ Len(bytes) = n /\ to <= IntMax
         => Answered(a, b, to, bytes)
  BY <1>2, <1>4, DeserializeBytesOK
<1>7. b \in ReaderType
  BY <1>5 DEF Stepped, InData
<1> DEFINE o == a.ok /\ b.ok
<1>8. q = [b EXCEPT !.ok = o]
  BY DEF DeserializeString, a
<1>9. o \in BOOLEAN /\ (o <=> a.ok /\ b.ok)
  OBVIOUS
<1> HIDE DEF b, q, o
<1>10. Replaced(q, b, a.ok /\ b.ok, b.value)
  BY <1>7, <1>8, <1>9 DEF Replaced, ReaderType
<1>11. /\ Stepped(r, q)
       /\ \A mid \in Nat, to \in Nat : \A u, v :
             mid <= to /\ Answered(r, a, mid, u) /\ (Gave(r, a, mid, u) => Answered(a, b, to, v))
             => AnsweredCs(r, q, to, b.value)
  BY <1>2, <1>5, <1>10, BothCalls
<1>12. ASSUME NEW d, NEW bytes \in Seq(Byte), NEW mid \in Nat, NEW to \in Nat,
              BeginsLike(r, d), Len(bytes) \in 0..IntMax, to <= IntMax,
              HoldsInt(d, r.pos, Len(bytes), 0, IntMax, mid), HoldsBytes(d, mid, bytes, to)
       PROVE  AnsweredCs(r, q, to, bytes)
  <2>1. Answered(r, a, mid, <<Len(bytes)>>)
    BY <1>3, <1>12
  <2>2. mid <= to
    <3>0. Len(bytes) \in Nat
      OBVIOUS
    <3>1. AlignBits(mid) \in 0..(ByteBits - 1) /\ ByteBits \in Nat
      BY AlignRange, Constants
    <3> DEFINE m == Len(bytes) * ByteBits
    <3>2. m \in Nat
      BY <3>0, <3>1, Multiples
    <3>3. to = mid + AlignBits(mid) + m
      BY <1>12 DEF HoldsBytes
    <3> HIDE DEF m
    <3> QED
      BY <3>1, <3>2, <3>3
  <2>3. ASSUME Gave(r, a, mid, <<Len(bytes)>>) PROVE Answered(a, b, to, bytes)
    <3>1. a.pos = mid /\ a.value = <<Len(bytes)>>
      BY <2>3 DEF Gave
    <3>2. n = Len(bytes)
      BY <3>1
    <3>3. BeginsLike(a, d)
      BY <1>4, <1>12 DEF BeginsLike
    <3>4. HoldsBytes(d, a.pos, bytes, to)
      BY <1>12, <3>1
    <3> HIDE DEF n
    <3> QED
      BY <1>6, <1>12, <3>2, <3>3, <3>4
  <2>4. AnsweredCs(r, q, to, b.value)
    BY <1>11, <1>12, <2>1, <2>2, <2>3
  <2>5. CASE to <= Len(r.data)
    <3>1. Gave(r, a, mid, <<Len(bytes)>>)
      BY <1>1, <2>1, <2>2, <2>5 DEF Answered
    <3>2. b.value = bytes
      BY <1>4, <2>3, <2>5, <3>1 DEF Answered, Gave
    <3> QED
      BY <2>4, <3>2
  <2>6. CASE ~(to <= Len(r.data))
    BY <2>4, <2>6 DEF AnsweredCs
  <2> QED
    BY <2>5, <2>6
<1> QED
  BY <1>11, <1>12 DEF q

LEMMA SentString ==
    ASSUME NEW c, c.op = "string", Legal(c, "cs")
    PROVE  /\ SentBytes(c, "cs") \in Seq(Byte) /\ StringMax("cs") = IntMax
           /\ Len(SentBytes(c, "cs")) \in 0..IntMax
           /\ Len(SentBytes(c, "cs")) * ByteBits <= IntMax
<1> DEFINE s == c.value
           n == c.chars
           t == SubSeq(s, 1, n)
<1>1. s \in Seq(Byte) /\ Len(s) * ByteBits <= IntMax /\ n \in 0..Len(s)
  BY DEF Legal
<1>2. SentBytes(c, "cs") = t /\ StringMax("cs") = IntMax
  BY DEF SentBytes, StringMax
<1> HIDE DEF s, n
<1>3. t \in Seq(Byte) /\ Len(t) = n
  BY <1>1
<1>4. /\ IntMax \in Nat \ {0} /\ ByteBits \in Nat \ {0} /\ Len(s) \in Nat /\ n \in Nat /\ n <= Len(s)
  BY <1>1, IntRange, Constants
<1>5. n <= n * ByteBits /\ n * ByteBits <= Len(s) * ByteBits
  BY <1>4
<1>6. n * ByteBits \in Int /\ Len(s) * ByteBits \in Int
  BY <1>4
<1>7. n * ByteBits <= IntMax /\ n <= IntMax
  BY <1>1, <1>4, <1>5, <1>6
<1> HIDE DEF t
<1> QED
  BY <1>2, <1>3, <1>4, <1>7

(* A call of the client on bits a writer in lang has left. *)
LEMMA DecodeCsOK ==
    ASSUME NEW r, InData(r), NEW lang \in Lang, NEW c, Legal(c, lang), c.op = "string" => lang = "cs"
    PROVE  LET q == DecodeCs(r, c)
           IN /\ Stepped(r, q)
              /\ \A d : \A to \in Nat :
                    BeginsLike(r, d) /\ Carries(d, r.pos, c, lang, to) /\ to <= IntMax
                    => AnsweredCs(r, q, to, IF c.op = "string" THEN SentBytes(c, lang) ELSE c.value)
<1> DEFINE q == DecodeCs(r, c)
<1>1. CASE c.op \in {"int", "enum"}
  <2>1. /\ c.min \in IntMin..IntMax /\ c.max \in IntMin..IntMax /\ c.min < c.max
        /\ c.value[1] \in c.min..c.max /\ c.value = <<c.value[1]>>
    BY <1>1 DEF Legal
  <2>2. c.min <= c.max
    BY <2>1, IntRange
  <2>3. \A d, to : Carries(d, r.pos, c, lang, to) => HoldsInt(d, r.pos, c.value[1], c.min, c.max, to)
    BY <1>1 DEF Carries
  <2>4. q = DeserializeInt(r, c.min, c.max)
    BY <1>1 DEF DecodeCs
  <2>5. Stepped(r, q)
    BY <2>1, <2>2, <2>4, DeserializeIntOK
  <2>6. \A d, v, to : BeginsLike(r, d) /\ v \in c.min..c.max /\ HoldsInt(d, r.pos, v, c.min, c.max, to)
                   => Answered(r, q, to, <<v>>)
    BY <2>1, <2>2, <2>4, DeserializeIntOK
  <2> HIDE DEF q
  <2>7. \A d, to : BeginsLike(r, d) /\ Carries(d, r.pos, c, lang, to) => Answered(r, q, to, c.value)
    BY <2>1, <2>3, <2>6
  <2> QED
    BY <1>1, <2>5, <2>7, AnsweredSo DEF q
<1>2. CASE c.op = "bits"
  <2>1. c.size \in 1..IntBits /\ c.value[1] \in 0..(2^c.size - 1) /\ c.value = <<c.value[1]>>
    BY <1>2 DEF Legal
  <2>2. c.size \in Width
    BY <2>1, Constants DEF Width
  <2>3. q = DeserializeBits(r, c.size)
    BY <1>2 DEF DecodeCs
  <2>4. Stepped(r, q)
    BY <2>2, <2>3, DeserializeBitsOK
  <2>5. \A d, v : BeginsLike(r, d) /\ v \in 0..(2^c.size - 1) /\ Holds(d, r.pos, v, c.size)
                     => Answered(r, q, r.pos + c.size, <<v>>)
    BY <2>2, <2>3, DeserializeBitsOK
  <2>6. \A d, to : Carries(d, r.pos, c, lang, to)
           => to = r.pos + c.size /\ Holds(d, r.pos, c.value[1], c.size)
    BY <1>2 DEF Carries
  <2> HIDE DEF q
  <2>7. ASSUME NEW d, NEW to, BeginsLike(r, d), Carries(d, r.pos, c, lang, to)
        PROVE  Answered(r, q, to, c.value)
    <3>1. to = r.pos + c.size /\ Holds(d, r.pos, c.value[1], c.size)
      BY <2>6, <2>7
    <3>2. Answered(r, q, r.pos + c.size, <<c.value[1]>>)
      BY <2>1, <2>5, <2>7, <3>1
    <3> QED
      BY <2>1, <3>1, <3>2
  <2> QED
    BY <1>2, <2>4, <2>7, AnsweredSo DEF q
<1>3. CASE c.op = "uint64"
  <2>1. c.value[1] \in Uint /\ c.value[2] \in Uint /\ c.value = <<c.value[1], c.value[2]>>
    BY <1>3 DEF Legal
  <2>2. q = DeserializeUInt64(r)
    BY <1>3 DEF DecodeCs
  <2>3. Stepped(r, q)
    BY <2>2, DeserializeUInt64OK
  <2>4. \A d, to : \A lo \in Uint : \A hi \in Uint :
            /\ BeginsLike(r, d) /\ to = r.pos + IntBits + IntBits
            /\ Holds(d, r.pos, lo, IntBits) /\ Holds(d, r.pos + IntBits, hi, IntBits)
            => AnsweredCs(r, q, to, <<lo, hi>>)
    BY <2>2, DeserializeUInt64OK
  <2>5. \A d, to : Carries(d, r.pos, c, lang, to)
           => /\ to = r.pos + IntBits + IntBits
              /\ Holds(d, r.pos, c.value[1], IntBits) /\ Holds(d, r.pos + IntBits, c.value[2], IntBits)
    BY <1>3 DEF Carries
  <2> HIDE DEF q
  <2>6. \A d, to : BeginsLike(r, d) /\ Carries(d, r.pos, c, lang, to)
           => AnsweredCs(r, q, to, c.value)
    BY <2>1, <2>4, <2>5
  <2> QED
    BY <1>3, <2>3, <2>6 DEF q
<1>4. CASE c.op = "align"
  <2> DEFINE a == SerializeAlign(r)
  <2>1. c.value = << >>
    BY <1>4 DEF Legal
  <2>2. q = OrZero(a, 0)
    BY <1>4 DEF DecodeCs
  <2>3. Stepped(r, a)
    BY SerializeAlignOK
  <2>4. \A d : BeginsLike(r, d) /\ Zeros(d, r.pos, AlignBits(r.pos))
                     => Answered(r, a, r.pos + AlignBits(r.pos), << >>)
    BY SerializeAlignOK
  <2>5. \A d, to : Carries(d, r.pos, c, lang, to)
           => to = r.pos + AlignBits(r.pos) /\ Zeros(d, r.pos, AlignBits(r.pos))
    BY <1>4 DEF Carries
  <2> HIDE DEF q, a
  <2>6. Stepped(r, q) /\ \A to, v : Answered(r, a, to, v) => Answered(r, q, to, v)
    BY <2>2, <2>3, OrZeroOK
  <2>7. \A d, to : BeginsLike(r, d) /\ Carries(d, r.pos, c, lang, to)
           => Answered(r, q, to, c.value)
    BY <2>1, <2>4, <2>5, <2>6
  <2> QED
    BY <1>4, <2>6, <2>7, AnsweredSo DEF q
<1>5. CASE c.op = "bytes"
  <2>1. c.value \in Seq(Byte) /\ Len(c.value) * ByteBits <= IntMax /\ Len(c.value) \in Nat
    BY <1>5 DEF Legal
  <2>2. q = DeserializeBytes(r, Len(c.value))
    BY <1>5 DEF DecodeCs
  <2>3. Stepped(r, q)
    BY <2>1, <2>2, DeserializeBytesOK
  <2>4. \A d, to : BeginsLike(r, d) /\ HoldsBytes(d, r.pos, c.value, to) /\ to <= IntMax
           => Answered(r, q, to, c.value)
    BY <2>1, <2>2, DeserializeBytesOK
  <2>5. \A d, to : Carries(d, r.pos, c, lang, to) => HoldsBytes(d, r.pos, c.value, to)
    BY <1>5 DEF Carries
  <2> HIDE DEF q
  <2>6. \A d, to : BeginsLike(r, d) /\ Carries(d, r.pos, c, lang, to) /\ to <= IntMax
           => Answered(r, q, to, c.value)
    BY <2>4, <2>5
  <2> QED
    BY <1>5, <2>3, <2>6, AnsweredSo DEF q
<1>6. CASE c.op = "string"
  <2> DEFINE sent == SentBytes(c, lang)
  <2>1. /\ lang = "cs" /\ sent \in Seq(Byte) /\ Len(sent) * ByteBits <= IntMax
        /\ Len(sent) \in 0..IntMax /\ StringMax(lang) = IntMax
    BY <1>6, SentString
  <2>3. q = DeserializeString(r)
    BY <1>6 DEF DecodeCs
  <2>4. Stepped(r, q)
    BY <2>3, DeserializeStringOK
  <2>5. \A d : \A bytes \in Seq(Byte), mid \in Nat, to \in Nat :
             /\ BeginsLike(r, d) /\ Len(bytes) \in 0..IntMax /\ to <= IntMax
             /\ HoldsInt(d, r.pos, Len(bytes), 0, IntMax, mid)
             /\ HoldsBytes(d, mid, bytes, to)
             => AnsweredCs(r, q, to, bytes)
    BY <2>3, DeserializeStringOK
  <2>6. \A d, to : Carries(d, r.pos, c, lang, to)
           => \E mid \in Nat : /\ HoldsInt(d, r.pos, Len(sent), 0, IntMax, mid)
                               /\ HoldsBytes(d, mid, sent, to)
    BY <1>6, <2>1 DEF Carries
  <2> HIDE DEF q, sent
  <2>7. \A d : \A to \in Nat : BeginsLike(r, d) /\ Carries(d, r.pos, c, lang, to) /\ to <= IntMax
           => AnsweredCs(r, q, to, sent)
    BY <2>1, <2>5, <2>6
  <2> QED
    BY <1>6, <2>4, <2>7 DEF q, sent
<1> QED
  BY <1>1, <1>2, <1>3, <1>4, <1>5, <1>6 DEF Legal

-----------------------------------------------------------------------------
\* A datagram of several calls.

LEMMA BytesStay ==
    ASSUME NEW t \in Seq(Bit), NEW u, NEW k \in Nat, Alike(u, t, k), NEW from \in Nat, k <= from, NEW to,
           NEW bytes \in Seq(Byte), HoldsBytes(t, from, bytes, to)
    PROVE  /\ to \in Nat /\ from <= to
           /\ to = from + AlignBits(from) + Len(bytes) * ByteBits
           /\ to <= Len(t) => HoldsBytes(u, from, bytes, to)
<1> DEFINE start == from + AlignBits(from)
           n == Len(bytes)
<1>1. n \in Nat /\ ByteBits \in Nat /\ n * ByteBits \in Nat /\ Len(t) \in Nat
  <2>1. n \in Nat /\ Len(t) \in Nat
    OBVIOUS
  <2> QED
    BY <2>1, Constants, Multiples
<1>2. AlignBits(from) \in Nat
  <2>1. AlignBits(from) \in 0..(ByteBits - 1)
    BY AlignRange
  <2> QED
    BY <1>1, <2>1
<1>3. /\ to = start + n * ByteBits /\ Zeros(t, from, AlignBits(from))
      /\ \A i \in 0..(n - 1) : Holds(t, start + i * ByteBits, bytes[i + 1], ByteBits)
  BY DEF HoldsBytes
<1>4. start \in Nat /\ from <= start
  BY <1>2
<1> HIDE DEF n
<1>5. to \in Nat /\ start <= to
  <2> DEFINE m == n * ByteBits
  <2>1. m \in Nat /\ to = start + m
    BY <1>1, <1>3
  <2> HIDE DEF m, start
  <2> QED
    BY <1>4, <2>1
<1>6. ASSUME to <= Len(t) PROVE HoldsBytes(u, from, bytes, to)
  <2>1. Zeros(u, from, AlignBits(from))
    <3>1. from + AlignBits(from) <= Len(t)
      BY <1>1, <1>4, <1>5, <1>6
    <3> QED
      BY <1>2, <1>3, <3>1, StillHolds
  <2>2. ASSUME NEW i \in 0..(n - 1) PROVE Holds(u, start + i * ByteBits, bytes[i + 1], ByteBits)
    <3>1. i \in Nat /\ i < n
      BY <1>1
    <3>2. i * ByteBits \in Nat /\ i * ByteBits + ByteBits <= n * ByteBits
      BY <1>1, <3>1, Multiples
    <3> DEFINE j == i * ByteBits
               m == n * ByteBits
    <3>3. j \in Nat /\ m \in Nat /\ j + ByteBits <= m /\ to = start + m
      BY <1>1, <1>3, <3>2
    <3>4. Holds(t, start + j, bytes[i + 1], ByteBits)
      BY <1>3
    <3> HIDE DEF j, m, start
    <3>5. start + j \in Nat /\ start + j + ByteBits <= Len(t) /\ k <= start + j
      BY <1>1, <1>4, <1>6, <3>3
    <3>6. Holds(u, start + j, bytes[i + 1], ByteBits)
      BY <1>1, <3>4, <3>5, StillHolds
    <3> QED
      BY <3>6 DEF j
  <2> QED
    BY <1>3, <2>1, <2>2 DEF HoldsBytes, n
<1> QED
  BY <1>3, <1>4, <1>5, <1>6 DEF n

LEMMA IntStays ==
    ASSUME NEW t \in Seq(Bit), NEW u, NEW k \in Nat, Alike(u, t, k), NEW from \in Nat, k <= from, NEW to, NEW v,
           NEW min \in IntMin..IntMax, NEW max \in IntMin..IntMax, min <= max,
           HoldsInt(t, from, v, min, max, to)
    PROVE  /\ to \in Nat /\ from <= to /\ BitsRequired(min, max) \in Nat
           /\ to = from + BitsRequired(min, max)
           /\ to <= Len(t) => HoldsInt(u, from, v, min, max, to)
<1> DEFINE n == BitsRequired(min, max)
<1>1. n \in Nat
  <2>1. /\ IntMax \in Nat /\ IntMin = -IntMax - 1 /\ 2^IntBits = 2 * IntMax + 2
        /\ IntBits \in Nat
    BY IntRange, Constants
  <2>2. min \in Int /\ max \in Int /\ max - min < 2^IntBits
    BY <2>1
  <2> QED
    BY <2>1, <2>2, BitsRequiredHold
<1>2. to = from + n /\ Holds(t, from, v - min, n)
  BY DEF HoldsInt
<1> HIDE DEF n
<1>3. to \in Nat /\ from <= to
  BY <1>1, <1>2
<1>4. to <= Len(t) => Holds(u, from, v - min, n)
  BY <1>1, <1>2, StillHolds
<1> QED
  BY <1>1, <1>2, <1>3, <1>4 DEF HoldsInt, n

(* What the server writes from one offset to the other is at most what it measures, *)
(* and is less by at most one alignment, and that only where the call aligns.       *)
Measures(c, from, to) ==
    /\ Measure(c) \in Nat /\ to - from <= Measure(c)
    /\ c.op \in {"align", "bytes", "string"} => Measure(c) - MeasureAlign <= to - from
    /\ c.op \notin {"align", "bytes", "string"} => Measure(c) = to - from

(* What a call has left there stays while others write behind it, and is as  *)
(* long as the measure of the call has it, padding apart.                     *)
LEMMA CarriesStays ==
    ASSUME NEW t \in Seq(Bit), NEW u, NEW k \in Nat, Alike(u, t, k), NEW from \in Nat, k <= from, NEW to,
           NEW lang \in Lang, NEW c, Legal(c, lang), Carries(t, from, c, lang, to)
    PROVE  /\ to \in Nat /\ from <= to
           /\ to <= Len(t) => Carries(u, from, c, lang, to)
           /\ lang = "cpp" => Measures(c, from, to)
<1> USE DEF Measures
<1>0. /\ IntBits \in Nat /\ ByteBits \in Nat \ {0} /\ Len(t) \in Nat
      /\ MeasureAlign \in Nat /\ MeasureAlign = ByteBits - 1
  BY Constants DEF MeasureAlign
<1>1. CASE c.op \in {"int", "enum"}
  <2>1. /\ c.min \in IntMin..IntMax /\ c.max \in IntMin..IntMax /\ c.min < c.max
        /\ HoldsInt(t, from, c.value[1], c.min, c.max, to)
    BY <1>1 DEF Legal, Carries
  <2>2. c.min <= c.max
    BY <2>1, IntRange
  <2>3. /\ to \in Nat /\ from <= to /\ BitsRequired(c.min, c.max) \in Nat
        /\ to = from + BitsRequired(c.min, c.max)
        /\ to <= Len(t) => HoldsInt(u, from, c.value[1], c.min, c.max, to)
    BY <2>1, <2>2, IntStays
  <2>4. Measure(c) = BitsRequired(c.min, c.max)
    BY <1>1 DEF Measure
  <2>5. Measure(c) \in Nat /\ to - from = Measure(c)
    BY <2>3, <2>4
  <2>6. to <= Len(t) => Carries(u, from, c, lang, to)
    BY <1>1, <2>3 DEF Carries
  <2> QED
    BY <1>1, <2>3, <2>5, <2>6
<1>2. CASE c.op = "bits"
  <2>1. c.size \in Nat /\ to = from + c.size /\ Holds(t, from, c.value[1], c.size)
    BY <1>0, <1>2 DEF Legal, Carries
  <2>2. Measure(c) = c.size
    BY <1>2 DEF Measure
  <2>3. to <= Len(t) => Carries(u, from, c, lang, to)
    BY <1>2, <2>1, StillHolds DEF Carries
  <2>4. to \in Nat /\ from <= to /\ Measure(c) \in Nat /\ to - from = Measure(c)
    BY <2>1, <2>2
  <2> QED
    BY <1>2, <2>3, <2>4
<1>3. CASE c.op = "uint64"
  <2>1. /\ to = from + IntBits + IntBits
        /\ Holds(t, from, c.value[1], IntBits) /\ Holds(t, from + IntBits, c.value[2], IntBits)
    BY <1>3 DEF Carries
  <2>2. Measure(c) = 2 * IntBits
    BY <1>3 DEF Measure
  <2>3. from + IntBits \in Nat /\ to \in Nat /\ from + IntBits <= to /\ from + IntBits + IntBits = to
    BY <1>0, <2>1
  <2>4. ASSUME to <= Len(t) PROVE Carries(u, from, c, lang, to)
    <3>1. from + IntBits <= Len(t)
      BY <1>0, <2>3, <2>4
    <3>2. Holds(u, from, c.value[1], IntBits)
      BY <1>0, <2>1, <3>1, StillHolds
    <3>3. Holds(u, from + IntBits, c.value[2], IntBits)
      BY <1>0, <2>1, <2>3, <2>4, StillHolds
    <3> QED
      BY <1>3, <2>1, <3>2, <3>3 DEF Carries
  <2> QED
    BY <1>0, <1>3, <2>1, <2>2, <2>3, <2>4
<1>4. CASE c.op = "align"
  <2>1. to = from + AlignBits(from) /\ Zeros(t, from, AlignBits(from))
    BY <1>4 DEF Carries
  <2>2. AlignBits(from) \in 0..(ByteBits - 1)
    BY AlignRange
  <2>3. Measure(c) = MeasureAlign
    BY <1>4 DEF Measure
  <2>4. to \in Nat /\ AlignBits(from) \in Nat
    BY <1>0, <2>1, <2>2
  <2>5. to <= Len(t) => Carries(u, from, c, lang, to)
    BY <1>4, <2>1, <2>4, StillHolds DEF Carries
  <2> QED
    BY <1>0, <1>4, <2>1, <2>2, <2>3, <2>4, <2>5
<1>5. CASE c.op = "bytes"
  <2>1. c.value \in Seq(Byte) /\ HoldsBytes(t, from, c.value, to)
    BY <1>5 DEF Legal, Carries
  <2>2. /\ to \in Nat /\ from <= to
        /\ to = from + AlignBits(from) + Len(c.value) * ByteBits
        /\ to <= Len(t) => HoldsBytes(u, from, c.value, to)
    BY <2>1, BytesStay
  <2>3. Measure(c) = MeasureAlign + Len(c.value) * ByteBits
    BY <1>5 DEF Measure, MeasureBytes
  <2>4. AlignBits(from) \in 0..(ByteBits - 1)
    BY AlignRange
  <2>5. to <= Len(t) => Carries(u, from, c, lang, to)
    BY <1>5, <2>2 DEF Carries
  <2> DEFINE m == Len(c.value) * ByteBits
  <2>6. m \in Nat
    <3>1. Len(c.value) \in Nat
      BY <2>1
    <3> QED
      BY <1>0, <3>1, Multiples
  <2>7. to = from + AlignBits(from) + m /\ Measure(c) = MeasureAlign + m
    BY <2>2, <2>3
  <2> HIDE DEF m
  <2>8. Measure(c) \in Nat /\ to - from <= Measure(c) /\ Measure(c) - MeasureAlign <= to - from
    BY <1>0, <2>2, <2>4, <2>6, <2>7
  <2> QED
    BY <1>5, <2>2, <2>5, <2>8
<1>6. CASE c.op = "string"
  <2> DEFINE sent == SentBytes(c, lang)
             max == StringMax(lang)
  <2>1. PICK mid \in Nat : /\ HoldsInt(t, from, Len(sent), 0, max, mid)
                           /\ HoldsBytes(t, mid, sent, to)
    BY <1>6 DEF Carries
  <2>2. /\ sent \in Seq(Byte) /\ max \in IntMin..IntMax /\ 0 <= max /\ 0 \in IntMin..IntMax
        /\ lang = "cpp" => sent = c.value /\ max = BufferSize - 1
    <3>1. CASE lang = "cpp"
      <4>1. sent = c.value /\ max = BufferSize - 1
        BY <3>1 DEF SentBytes, StringMax
      <4>2. c.value \in Seq(Byte)
        BY <1>6 DEF Legal
      <4> QED
        BY <4>1, <4>2, StringMaxRange, RangeZero
    <3>2. CASE lang = "cs"
      <4>1. sent \in Seq(Byte) /\ max = IntMax
        BY <1>6, <3>2, SentString
      <4> QED
        BY <3>2, <4>1, RangeZero
    <3> QED
      BY <3>1, <3>2 DEF Lang
  <2> HIDE DEF sent, max
  <2>3. /\ from <= mid /\ BitsRequired(0, max) \in Nat /\ mid = from + BitsRequired(0, max)
        /\ mid <= Len(t) => HoldsInt(u, from, Len(sent), 0, max, mid)
    BY <2>1, <2>2, IntStays
  <2>k. k <= mid
    BY <2>3
  <2>4. /\ to \in Nat /\ mid <= to
        /\ to = mid + AlignBits(mid) + Len(sent) * ByteBits
        /\ to <= Len(t) => HoldsBytes(u, mid, sent, to)
    BY <2>1, <2>2, <2>k, BytesStay
  <2>5. from <= to
    BY <2>3, <2>4
  <2>6. ASSUME to <= Len(t) PROVE Carries(u, from, c, lang, to)
    <3>1. mid <= Len(t)
      BY <1>0, <2>4, <2>6
    <3>2. HoldsInt(u, from, Len(sent), 0, max, mid) /\ HoldsBytes(u, mid, sent, to)
      BY <2>3, <2>4, <2>6, <3>1
    <3> QED
      BY <1>6, <3>2 DEF Carries, sent, max
  <2>7. ASSUME lang = "cpp"
        PROVE  Measure(c) \in Nat /\ to - from <= Measure(c) /\ Measure(c) - MeasureAlign <= to - from
    <3> DEFINE n == BitsRequired(0, max)
               m == Len(sent) * ByteBits
    <3>1. Measure(c) = n + (MeasureAlign + m)
      BY <1>6, <2>2, <2>7 DEF Measure, MeasureBytes
    <3>2. m \in Nat
      <4>1. Len(sent) \in Nat
        BY <2>2
      <4> QED
        BY <1>0, <4>1, Multiples
    <3>3. n \in Nat /\ mid = from + n /\ to = mid + AlignBits(mid) + m
      BY <2>3, <2>4
    <3>4. AlignBits(mid) \in 0..(ByteBits - 1)
      BY AlignRange
    <3> HIDE DEF n, m
    <3> QED
      BY <1>0, <3>1, <3>2, <3>3, <3>4
  <2> QED
    BY <1>6, <2>4, <2>5, <2>6, <2>7
<1> QED
  BY <1>1, <1>2, <1>3, <1>4, <1>5, <1>6 DEF Legal

LEMMA NewReaderOK ==
    ASSUME NEW d \in Seq(Bit)
    PROVE  LET r == NewReader(d)
           IN /\ InData(r) /\ r.data = d /\ r.pos = 0 /\ r.bitsRead = 0
              /\ ~r.error /\ ~r.threw
<1> DEFINE r == NewReader(d)
           e == << >>
<1>1. e \in Seq(Int) /\ Len(d) \in Nat
  OBVIOUS
<1>2. r = [data |-> d, pos |-> 0, bitsRead |-> 0, error |-> FALSE, ok |-> TRUE,
           value |-> e, threw |-> FALSE]
  BY DEF NewReader
<1> HIDE DEF e, r
<1>3. /\ r \in ReaderType /\ r.data = d /\ r.pos = 0 /\ r.bitsRead = 0
      /\ ~r.error /\ ~r.threw
  BY <1>1, <1>2 DEF ReaderType
<1>4. InData(r)
  BY <1>1, <1>3, InDataOK
<1> QED
  BY <1>3, <1>4 DEF r

-----------------------------------------------------------------------------
\* Sequence numbers that wrap around, and the zig-zag code: the rest of NetworkUtil.

(* The numbers apart by which the two comparisons of NetworkUtil.h disagree.  *)
Misjudged(d) == 32768 < d /\ d < 32786

(* A sequence number is a uint16_t: what the other proofs know of it.         *)
LEMMA SequenceRange ==
    ASSUME NEW s \in Sequence
    PROVE  s \in Int /\ 0 <= s /\ s <= 65535
BY SMT DEF Sequence

(* Of two different sequence numbers exactly one is the greater, also at the  *)
(* distance 32768 where neither is ahead (NetworkUtil.h:179).                 *)
THEOREM OneIsGreater ==
    ASSUME NEW s1 \in Sequence, NEW s2 \in Sequence, s1 # s2
    PROVE  sequence_greater_than(s1, s2) <=> ~sequence_less_than(s1, s2)
BY SequenceRange, SMT DEF sequence_greater_than, sequence_less_than

(* A sequence number is greater than the ones before it, as far back as half  *)
(* the circle, whether or not the numbers have wrapped in between.            *)
THEOREM LaterIsGreater ==
    ASSUME NEW s \in Sequence, NEW d \in Int, 0 < d, d < 32768
    PROVE  sequence_greater_than((s + d) % 65536, s)
<1>1. CASE s + d < 65536
  <2>1. (s + d) % 65536 = s + d
    BY <1>1, SequenceRange, SMT
  <2> QED
    BY <2>1, SequenceRange, SMT DEF sequence_greater_than
<1>2. CASE s + d >= 65536
  <2>1. (s + d) % 65536 = s + d - 65536
    BY <1>2, SequenceRange, SMT
  <2> QED
    BY <1>2, <2>1, SequenceRange, SMT DEF sequence_greater_than
<1> QED
  BY <1>1, <1>2, SequenceRange, SMT

(* The difference has the sign sequence_greater_than says, but for numbers    *)
(* 32769 to 32785 apart, where it always has the other: NetworkUtil.h:194     *)
(* compares with 32786.                                                       *)
THEOREM DifferenceAgrees ==
    ASSUME NEW s1 \in Sequence, NEW s2 \in Sequence, s1 # s2
    PROVE  (sequence_greater_than(s1, s2) <=> sequence_difference(s1, s2) > 0)
           <=> ~(Misjudged(s1 - s2) \/ Misjudged(s2 - s1))
BY SequenceRange, SMT DEF sequence_greater_than, sequence_difference, Misjudged

(* The difference leads from one sequence number to the other, and back.      *)
THEOREM DifferenceIsDistance ==
    ASSUME NEW s1 \in Sequence, NEW s2 \in Sequence
    PROVE  /\ (s2 + sequence_difference(s1, s2)) % 65536 = s1
           /\ sequence_difference(s2, s1) = -sequence_difference(s1, s2)
<1>1. s1 % 65536 = s1 /\ (s1 - 65536) % 65536 = s1 /\ (s1 + 65536) % 65536 = s1
  BY SequenceRange, SMT
<1>2. \/ s2 + sequence_difference(s1, s2) = s1
      \/ s2 + sequence_difference(s1, s2) = s1 - 65536
      \/ s2 + sequence_difference(s1, s2) = s1 + 65536
  BY SequenceRange, SMT DEF sequence_difference
<1>3. (s2 + sequence_difference(s1, s2)) % 65536 = s1
  BY <1>1, <1>2, SMT
<1>4. sequence_difference(s2, s1) = -sequence_difference(s1, s2)
  BY SequenceRange, SMT DEF sequence_difference
<1> QED
  BY <1>3, <1>4, SMT

(* unsigned_to_signed undoes signed_to_unsigned for every int, and no code    *)
(* takes more than 32 bits.                                                   *)
THEOREM ZigZagRoundTrip ==
    ASSUME NEW n \in Int, -2147483648 <= n, n <= 2147483647
    PROVE  /\ 0 <= signed_to_unsigned(n) /\ signed_to_unsigned(n) <= 4294967295
           /\ unsigned_to_signed(signed_to_unsigned(n)) = n
BY SMT DEF signed_to_unsigned, unsigned_to_signed
=============================================================================
