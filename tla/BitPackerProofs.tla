--------------------------- MODULE BitPackerProofs ----------------------------
(* Proofs about the bit packer, for bytes of any size and a buffer of any     *)
(* length: what is written in whatever portions is read back in whatever      *)
(* portions, and no assertion of either side fails on the way.                *)
EXTENDS BitPacker, SequenceTheorems, TLAPS

-----------------------------------------------------------------------------
\* Words and bytes.

LEMMA WordFacts == ByteBits \in Nat \ {0} /\ NumWords \in Nat \ {0} /\ WordBits \in Nat \ {0}
  BY PackerAssumption DEF WordBits

LEMMA Multiples ==
    ASSUME NEW b \in Nat, NEW j \in Nat, NEW k \in Nat
    PROVE  /\ j * b \in Nat /\ (j + 1) * b = j * b + b /\ (j + k) * b = j * b + k * b
           /\ j < k => j * b + b <= k * b
           /\ j <= k => j * b <= k * b
  OBVIOUS

(* How many whole b's are in a, when the product is known. *)
LEMMA Quotient ==
    ASSUME NEW a \in Nat, NEW b \in Nat \ {0}
    PROVE  /\ a \div b \in Nat /\ a % b \in 0 .. b - 1
           /\ a = ((a \div b) * b) + (a % b)
  <1>1. /\ a = (b * (a \div b)) + (a % b)
        /\ a % b \in 0 .. b - 1
        /\ a \div b \in Int
    OBVIOUS
  <1>2. a \div b >= 0
    BY <1>1
  <1>3. b * (a \div b) = (a \div b) * b
    BY <1>1
  <1> QED
    BY <1>1, <1>2, <1>3

LEMMA SameMultiple ==
    ASSUME NEW b \in Nat \ {0}, NEW j \in Nat, NEW k \in Nat, NEW x \in 0 .. b - 1, NEW y \in 0 .. b - 1,
           j * b + x = k * b + y
    PROVE  j = k /\ x = y
  <1>1. /\ j * b \in Nat /\ k * b \in Nat
        /\ j < k => j * b + b <= k * b
        /\ k < j => k * b + b <= j * b
    BY Multiples
  <1> QED
    BY <1>1

(* The word a position is in, and its place there. *)
LEMMA WordOf ==
    ASSUME NEW p \in Nat, NEW k \in Nat
    PROVE  /\ p \div WordBits = k <=> k * WordBits <= p /\ p < k * WordBits + WordBits
           /\ p \div WordBits = k => p % WordBits = p - k * WordBits
  <1> DEFINE q == p \div WordBits
             r == p % WordBits
  <1>1. q \in Nat /\ r \in 0 .. WordBits - 1 /\ p = q * WordBits + r /\ WordBits \in Nat \ {0}
    BY Quotient, WordFacts
  <1>2. k * WordBits \in Nat /\ q * WordBits \in Nat
    BY <1>1, Multiples
  <1>3. ASSUME k * WordBits <= p, p < k * WordBits + WordBits PROVE q = k
    <2>1. p - k * WordBits \in 0 .. WordBits - 1 /\ q * WordBits + r = k * WordBits + (p - k * WordBits)
      BY <1>1, <1>2, <1>3
    <2> HIDE DEF q, r
    <2> QED
      BY <1>1, <2>1, SameMultiple
  <1> HIDE DEF q, r
  <1>4. (q = k <=> k * WordBits <= p /\ p < k * WordBits + WordBits) /\ (q = k => r = p - k * WordBits)
    BY <1>1, <1>2, <1>3
  <1> QED
    BY <1>4 DEF q, r

LEMMA BufferFacts ==
    /\ NumWords * WordBits \in Nat
    /\ \A p \in Int : p \in Buffer <=> 0 <= p /\ p < NumWords * WordBits
    /\ \A i \in Int : i \in Register <=> 0 <= i /\ i < 2 * WordBits
    /\ Buffer \subseteq Nat /\ Register \subseteq Nat
    /\ Zero \in Bit /\ Buffer \subseteq Bit
  BY WordFacts, Multiples DEF Buffer, Register, Bit

(* WriteAlign and ReadAlign stay in a buffer of whole bytes. *)
LEMMA AlignStays ==
    ASSUME NEW a \in Nat, NEW m \in Nat, a <= m * ByteBits
    PROVE  /\ AlignBits(a) \in 0 .. ByteBits - 1
           /\ a + AlignBits(a) <= m * ByteBits
           /\ AlignBits(a) = 0 => a % ByteBits = 0
  <1> DEFINE q == a \div ByteBits
             r == a % ByteBits
  <1>1. /\ q \in Nat /\ r \in 0 .. ByteBits - 1 /\ a = q * ByteBits + r /\ ByteBits \in Nat \ {0}
    BY Quotient, WordFacts
  <1>2. /\ q * ByteBits \in Nat /\ m * ByteBits \in Nat
        /\ q < m => q * ByteBits + ByteBits <= m * ByteBits
        /\ m <= q => m * ByteBits <= q * ByteBits
    BY <1>1, Multiples
  <1>3. AlignBits(a) = IF r = 0 THEN 0 ELSE ByteBits - r
    <2>1. CASE r = 0
      <3>1. AlignBits(a) = ByteBits % ByteBits
        BY <1>1, <2>1 DEF AlignBits
      <3>2. ByteBits % ByteBits = 0
        BY <1>1
      <3> QED
        BY <2>1, <3>1, <3>2
    <2>2. CASE r # 0
      <3>1. ByteBits - r \in 0 .. ByteBits - 1
        BY <1>1, <2>2
      <3>2. \A x \in 0 .. ByteBits - 1 : x % ByteBits = x
        BY <1>1
      <3> QED
        BY <2>2, <3>1, <3>2 DEF AlignBits
    <2> QED
      BY <2>1, <2>2
  <1> HIDE DEF q, r
  <1>4. AlignBits(a) = 0 => r = 0
    BY <1>1, <1>3
  <1>5. r # 0 => q < m
    BY <1>1, <1>2
  <1>6. AlignBits(a) \in 0 .. ByteBits - 1 /\ a + AlignBits(a) <= m * ByteBits
    BY <1>1, <1>2, <1>3, <1>5
  <1> QED
    BY <1>4, <1>6 DEF r

-----------------------------------------------------------------------------
\* The writer.

WriterType == [data : [Buffer -> Bit], scratch : [Register -> Bit], scratchBits : Int,
               wordIndex : Nat, bitsWritten : Nat, asserts : BOOLEAN]

(* What a reader should find at position p, when the bits of ps are zeros. *)
BitAt(p, ps) == IF p \in ps THEN Zero ELSE p

(* The words stored and the bits in the register are those written so far. *)
WriterOK(w, ps) ==
    /\ w \in WriterType /\ w.asserts
    /\ w.scratchBits \in 0 .. WordBits - 1
    /\ w.wordIndex * WordBits + w.scratchBits = w.bitsWritten
    /\ w.bitsWritten <= NumWords * WordBits
    /\ ps \subseteq 0 .. w.bitsWritten - 1
    /\ \A p \in Buffer : p < w.wordIndex * WordBits => w.data[p] = BitAt(p, ps)
    /\ \A i \in Register :
          w.scratch[i] = IF i < w.scratchBits THEN BitAt(w.wordIndex * WordBits + i, ps) ELSE Zero

(* A word that is full, or is the last. *)
LEMMA StoreWordEffect ==
    ASSUME NEW w \in WriterType
    PROVE  LET x == StoreWord(w) IN
           /\ x \in WriterType
           /\ x.asserts = (w.asserts /\ w.wordIndex < NumWords)
           /\ x.scratchBits = w.scratchBits - WordBits /\ x.wordIndex = w.wordIndex + 1
           /\ x.bitsWritten = w.bitsWritten
           /\ \A p \in Buffer :
                 x.data[p] = IF /\ w.wordIndex * WordBits <= p
                                /\ p < w.wordIndex * WordBits + WordBits
                             THEN w.scratch[p - w.wordIndex * WordBits] ELSE w.data[p]
           /\ \A i \in Register :
                 x.scratch[i] = IF i + WordBits \in Register THEN w.scratch[i + WordBits] ELSE Zero
  <1> DEFINE k == w.wordIndex
             d == [p \in Buffer |-> IF p \div WordBits = k THEN w.scratch[p % WordBits] ELSE w.data[p]]
             s == ShiftRight(w.scratch, WordBits)
             x == StoreWord(w)
  <1>1. /\ w.data \in [Buffer -> Bit] /\ w.scratch \in [Register -> Bit] /\ w.scratchBits \in Int
        /\ k \in Nat /\ w.bitsWritten \in Nat /\ w.asserts \in BOOLEAN
        /\ WordBits \in Nat \ {0}
    BY WordFacts DEF WriterType
  <1>2. x = [w EXCEPT !.asserts = @ /\ k < NumWords, !.data = d, !.scratch = s,
                      !.scratchBits = @ - WordBits, !.wordIndex = @ + 1]
    BY DEF StoreWord
  <1>3. \A p \in Buffer : p \in Nat
    BY BufferFacts
  <1>4. \A p \in Buffer : d[p] = IF k * WordBits <= p /\ p < k * WordBits + WordBits
                                 THEN w.scratch[p - k * WordBits] ELSE w.data[p]
    BY <1>1, <1>3, WordOf
  <1>5. ASSUME NEW p \in Buffer, k * WordBits <= p, p < k * WordBits + WordBits
        PROVE  p - k * WordBits \in Register
    <2>1. k * WordBits \in Nat /\ WordBits \in Nat /\ p \in Nat
      BY <1>1, <1>3, Multiples
    <2> QED
      BY <1>5, <2>1, BufferFacts
  <1>6. d \in [Buffer -> Bit]
    BY <1>1, <1>4, <1>5
  <1>7. /\ \A i \in Register : s[i] = IF i + WordBits \in Register THEN w.scratch[i + WordBits] ELSE Zero
        /\ s \in [Register -> Bit]
    BY <1>1, BufferFacts DEF ShiftRight
  <1> HIDE DEF d, s, k, x
  <1>8. /\ x.data = d /\ x.scratch = s /\ x.bitsWritten = w.bitsWritten
        /\ x.scratchBits = w.scratchBits - WordBits
    BY <1>2 DEF WriterType
  <1>9. x.asserts = (w.asserts /\ k < NumWords)
    BY <1>2 DEF WriterType
  <1>10. x.wordIndex = k + 1
    BY <1>2 DEF WriterType, k
  <1>11. x = [data |-> d, scratch |-> s, scratchBits |-> x.scratchBits, wordIndex |-> x.wordIndex,
              bitsWritten |-> x.bitsWritten, asserts |-> x.asserts]
    BY <1>2, <1>8 DEF WriterType
  <1>12. /\ x.scratchBits \in Int /\ x.wordIndex \in Nat /\ x.bitsWritten \in Nat
         /\ x.asserts \in BOOLEAN
    BY <1>1, <1>8, <1>9, <1>10 DEF k
  <1>13. x \in WriterType
    BY <1>6, <1>7, <1>11, <1>12 DEF WriterType
  <1> QED
    BY <1>4, <1>7, <1>8, <1>9, <1>10, <1>13 DEF k, x

(* The bits or-ed into the register are those of the caller. *)
Filled(w, value, n) == [w EXCEPT !.scratch = OrInto(@, value, n, w.scratchBits),
                                 !.scratchBits = @ + n,
                                 !.bitsWritten = @ + n]

LEMMA FillEffect ==
    ASSUME NEW w, NEW ps, WriterOK(w, ps), NEW qs, NEW n \in 1 .. WordBits, NEW value,
           w.bitsWritten + n <= NumWords * WordBits,
           \A i \in 0 .. n - 1 : value[i] = BitAt(w.bitsWritten + i, qs),
           qs \subseteq w.bitsWritten .. w.bitsWritten + n - 1
    PROVE  LET f == Filled(w, value, n) IN
           /\ f \in WriterType
           /\ f.asserts /\ f.data = w.data /\ f.wordIndex = w.wordIndex
           /\ f.scratchBits = w.scratchBits + n /\ f.bitsWritten = w.bitsWritten + n
           /\ \A i \in Register :
                 f.scratch[i] = IF i < w.scratchBits + n
                                THEN BitAt(w.wordIndex * WordBits + i, ps \cup qs) ELSE Zero
  <1> DEFINE b == w.scratchBits
             a == w.bitsWritten
             base == w.wordIndex * WordBits
             s == OrInto(w.scratch, value, n, b)
             f == Filled(w, value, n)
  <1>1. /\ w.data \in [Buffer -> Bit] /\ w.scratch \in [Register -> Bit]
        /\ w.wordIndex \in Nat /\ a \in Nat /\ w.asserts \in BOOLEAN /\ w.asserts
        /\ b \in 0 .. WordBits - 1 /\ base + b = a /\ ps \subseteq 0 .. a - 1
        /\ a <= NumWords * WordBits
        /\ \A i \in Register : w.scratch[i] = IF i < b THEN BitAt(base + i, ps) ELSE Zero
    BY DEF WriterOK, WriterType
  <1>2. WordBits \in Nat \ {0} /\ base \in Nat /\ NumWords * WordBits \in Nat /\ n \in Nat
    <2>1. WordBits \in Nat \ {0} /\ NumWords * WordBits \in Nat
      BY WordFacts, BufferFacts
    <2>2. base \in Nat
      BY <1>1, <2>1, Multiples
    <2> QED
      BY <2>1, <2>2
  <1>3. f = [w EXCEPT !.scratch = s, !.scratchBits = b + n, !.bitsWritten = a + n]
    BY DEF Filled
  <1>4. \A i \in Register : i \in Nat
    BY BufferFacts
  <1> HIDE DEF b, a, base, f
  <1>5. \A i \in Register :
           s[i] = IF b <= i /\ i <= b + n - 1 THEN OrBit(w.scratch[i], value[i - b]) ELSE w.scratch[i]
    BY <1>1, <1>2, <1>4 DEF OrInto
  <1>6. ASSUME NEW i \in Register
        PROVE  s[i] = IF i < b + n THEN BitAt(base + i, ps \cup qs) ELSE Zero
    <2>1. CASE i < b
      BY <1>1, <1>2, <1>4, <1>5, <2>1 DEF BitAt, a
    <2>2. CASE b <= i /\ i < b + n
      <3>1. i - b \in 0 .. n - 1 /\ a + (i - b) = base + i /\ base + i \notin ps
        BY <1>1, <1>2, <1>4, <2>2
      <3>2. w.scratch[i] = Zero
        BY <1>1, <1>2, <1>4, <2>2
      <3>3. value[i - b] = BitAt(base + i, qs)
        BY <3>1 DEF a
      <3>4. s[i] = OrBit(w.scratch[i], value[i - b])
        BY <1>1, <1>2, <1>4, <1>5, <2>2
      <3> QED
        BY <1>4, <2>2, <3>1, <3>2, <3>3, <3>4 DEF OrBit, BitAt
    <2>3. CASE b + n <= i
      BY <1>1, <1>2, <1>4, <1>5, <2>3
    <2> QED
      BY <1>1, <1>2, <1>4, <2>1, <2>2, <2>3
  <1>7. s \in [Register -> Bit]
    <2>1. \A i \in Register : i < b + n => base + i \in Buffer
      BY <1>1, <1>2, <1>4, BufferFacts DEF a
    <2>2. \A i \in Register : s[i] \in Bit
      BY <1>6, <2>1, BufferFacts DEF BitAt
    <2> QED
      BY <2>2 DEF OrInto
  <1> HIDE DEF s
  <1>8. /\ f.scratch = s /\ f.scratchBits = b + n /\ f.bitsWritten = a + n
        /\ f.data = w.data /\ f.wordIndex = w.wordIndex /\ f.asserts = w.asserts
    BY <1>3 DEF WriterOK, WriterType
  <1>9. f = [data |-> f.data, scratch |-> f.scratch, scratchBits |-> f.scratchBits,
             wordIndex |-> f.wordIndex, bitsWritten |-> f.bitsWritten, asserts |-> f.asserts]
    BY <1>3 DEF WriterOK, WriterType
  <1>10. f \in WriterType
    <2>1. /\ f.data \in [Buffer -> Bit] /\ f.scratch \in [Register -> Bit]
          /\ f.scratchBits \in Int /\ f.wordIndex \in Nat /\ f.bitsWritten \in Nat
      BY <1>1, <1>2, <1>7, <1>8
    <2>2. f.asserts \in BOOLEAN
      BY <1>1, <1>8, Zenon
    <2> QED
      BY <1>9, <2>1, <2>2 DEF WriterType
  <1> QED
    BY <1>1, <1>6, <1>8, <1>10 DEF a, b, base, f

(* The writer x is w when n more bits are written, and those of ps are zeros. *)
Wrote(w, x, ps, n) == WriterOK(x, ps) /\ x.bitsWritten = w.bitsWritten + n

LEMMA PutBitsOK ==
    ASSUME NEW w, NEW ps, WriterOK(w, ps), NEW qs, NEW n \in 1 .. WordBits, NEW value,
           w.bitsWritten + n <= NumWords * WordBits,
           \A i \in 0 .. n - 1 : value[i] = BitAt(w.bitsWritten + i, qs),
           qs \subseteq w.bitsWritten .. w.bitsWritten + n - 1
    PROVE  Wrote(w, PutBits(w, value, n), ps \cup qs, n)
  <1> DEFINE f == Filled(w, value, n)
             b == w.scratchBits
             a == w.bitsWritten
             k == w.wordIndex
             base == k * WordBits
             rs == ps \cup qs
  <1>1. PutBits(w, value, n) = IF f.scratchBits >= WordBits THEN StoreWord(f) ELSE f
    BY DEF PutBits, Filled
  <1>2. /\ k \in Nat /\ a \in Nat /\ b \in 0 .. WordBits - 1 /\ base + b = a /\ ps \subseteq 0 .. a - 1
        /\ \A p \in Buffer : p < base => w.data[p] = BitAt(p, ps)
    BY DEF WriterOK, WriterType
  <1>3. /\ f \in WriterType
        /\ f.asserts /\ f.data = w.data /\ f.wordIndex = k
        /\ f.scratchBits = b + n /\ f.bitsWritten = a + n
        /\ \A i \in Register : f.scratch[i] = IF i < b + n THEN BitAt(base + i, rs) ELSE Zero
    BY <1>2, FillEffect
  <1>4. WordBits \in Nat \ {0} /\ NumWords \in Nat /\ n \in Nat
    BY WordFacts
  <1>5. base \in Nat /\ (k + 1) * WordBits = base + WordBits
    BY <1>2, <1>4, Multiples
  <1>6. (\A p \in Buffer : p \in Nat) /\ (\A i \in Register : i \in Nat)
    BY BufferFacts
  <1>a. a + n <= NumWords * WordBits /\ qs \subseteq a .. a + n - 1
    OBVIOUS
  <1>b. \A p \in Nat : p < a => BitAt(p, rs) = BitAt(p, ps)
    BY <1>2, <1>4, <1>a DEF BitAt
  <1> HIDE DEF f, b, a, k, base, rs
  <1>7. rs \subseteq 0 .. a + n - 1
    BY <1>2, <1>4, <1>a DEF rs
  <1>8. CASE f.scratchBits < WordBits
    <2>1. PutBits(w, value, n) = f
      BY <1>1, <1>3, <1>2, <1>4, <1>8
    <2>2. \A p \in Buffer : p < base => f.data[p] = BitAt(p, rs)
      BY <1>2, <1>3, <1>b, <1>4, <1>5, <1>6
    <2>3. b + n \in 0 .. WordBits - 1 /\ base + (b + n) = a + n
      BY <1>2, <1>3, <1>4, <1>5, <1>8
    <2>4. f.wordIndex * WordBits = base
      BY <1>3 DEF base
    <2>5. WriterOK(f, rs)
      <3>1. f \in WriterType /\ f.asserts
        BY <1>3
      <3>2. f.scratchBits \in 0 .. WordBits - 1
        BY <1>3, <2>3
      <3>3. f.wordIndex * WordBits + f.scratchBits = f.bitsWritten
        BY <1>3, <2>3, <2>4
      <3>4. f.bitsWritten <= NumWords * WordBits /\ rs \subseteq 0 .. f.bitsWritten - 1
        BY <1>2, <1>3, <1>4, <1>7, <1>a
      <3>5. \A p \in Buffer : p < f.wordIndex * WordBits => f.data[p] = BitAt(p, rs)
        BY <2>2, <2>4
      <3>6. \A i \in Register : f.scratch[i] = IF i < f.scratchBits
                                              THEN BitAt(f.wordIndex * WordBits + i, rs) ELSE Zero
        BY <1>3, <2>4
      <3> QED
        BY <3>1, <3>2, <3>3, <3>4, <3>5, <3>6 DEF WriterOK
    <2> QED
      BY <1>3, <2>1, <2>5 DEF Wrote, a, rs
  <1>9. CASE f.scratchBits >= WordBits
    <2> DEFINE x == StoreWord(f)
    <2>1. PutBits(w, value, n) = x
      BY <1>1, <1>9
    <2>2. /\ x \in WriterType
          /\ x.asserts = (f.asserts /\ k < NumWords)
          /\ x.scratchBits = b + n - WordBits /\ x.wordIndex = k + 1 /\ x.bitsWritten = a + n
          /\ \A p \in Buffer : x.data[p] = IF base <= p /\ p < base + WordBits
                                           THEN f.scratch[p - base] ELSE w.data[p]
          /\ \A i \in Register :
                x.scratch[i] = IF i + WordBits \in Register THEN f.scratch[i + WordBits] ELSE Zero
      <3>1. f.wordIndex * WordBits = base /\ f.wordIndex \in Nat /\ f.scratchBits \in Int
        BY <1>2, <1>3, <1>4 DEF base
      <3>2. /\ x \in WriterType
            /\ x.asserts = (f.asserts /\ f.wordIndex < NumWords)
            /\ x.scratchBits = f.scratchBits - WordBits /\ x.wordIndex = f.wordIndex + 1
            /\ x.bitsWritten = f.bitsWritten
        BY <1>3, <1>4, <3>1, StoreWordEffect
      <3>3. \A p \in Buffer :
                 x.data[p] = IF /\ f.wordIndex * WordBits <= p
                                /\ p < f.wordIndex * WordBits + WordBits
                             THEN f.scratch[p - f.wordIndex * WordBits] ELSE f.data[p]
        BY <1>3, <1>4, <3>1, StoreWordEffect
      <3>4. \A i \in Register :
                 x.scratch[i] = IF i + WordBits \in Register THEN f.scratch[i + WordBits] ELSE Zero
        BY <1>3, <1>4, <3>1, StoreWordEffect
      <3> HIDE DEF x
      <3>5. x.asserts = (f.asserts /\ k < NumWords)
        BY <1>3, <3>2
      <3>6. x.scratchBits = b + n - WordBits /\ x.wordIndex = k + 1 /\ x.bitsWritten = a + n
        BY <1>2, <1>3, <1>4, <3>2
      <3>7. \A p \in Buffer : x.data[p] = IF base <= p /\ p < base + WordBits
                                          THEN f.scratch[p - base] ELSE w.data[p]
        BY <1>3, <3>1, <3>3
      <3> QED
        BY <3>2, <3>4, <3>5, <3>6, <3>7
    <2> HIDE DEF x
    <2>3. k < NumWords
      <3>1. NumWords <= k => NumWords * WordBits <= base
        BY <1>2, <1>4, Multiples DEF base
      <3>2. base < NumWords * WordBits
        BY <1>2, <1>3, <1>4, <1>5, <1>9, <1>a, BufferFacts
      <3> QED
        BY <1>2, <1>4, <1>5, <3>1, <3>2, BufferFacts
    <2>4. x.asserts
      BY <1>3, <2>2, <2>3
    <2>5. ASSUME NEW p \in Buffer, p < base + WordBits PROVE x.data[p] = BitAt(p, rs)
      <3>1. CASE p < base
        BY <1>2, <1>3, <1>b, <1>4, <1>5, <1>6, <2>2, <3>1
      <3>2. CASE base <= p
        <4>1. p - base \in Register /\ p - base < b + n /\ base + (p - base) = p
          BY <1>2, <1>3, <1>4, <1>5, <1>6, <1>9, <2>5, <3>2, BufferFacts
        <4> QED
          BY <1>3, <2>2, <2>5, <3>2, <4>1
      <3> QED
        BY <1>5, <1>6, <3>1, <3>2
    <2>6. ASSUME NEW i \in Register
          PROVE  x.scratch[i] = IF i < b + n - WordBits THEN BitAt(base + WordBits + i, rs) ELSE Zero
      <3>1. i + WordBits \in Register <=> i + WordBits < 2 * WordBits
        BY <1>4, <1>6, BufferFacts
      <3>2. CASE i + WordBits \in Register
        <4>1. base + (i + WordBits) = base + WordBits + i
          BY <1>4, <1>5, <1>6
        <4>2. i + WordBits < b + n <=> i < b + n - WordBits
          BY <1>2, <1>4, <1>6
        <4> QED
          BY <1>3, <2>2, <3>2, <4>1, <4>2
      <3>3. CASE i + WordBits \notin Register
        <4>1. ~ (i < b + n - WordBits)
          BY <1>2, <1>4, <1>6, <3>1, <3>3
        <4> QED
          BY <2>2, <3>3, <4>1
      <3> QED
        BY <3>2, <3>3
    <2>7. b + n - WordBits \in 0 .. WordBits - 1 /\ base + WordBits + (b + n - WordBits) = a + n
      BY <1>2, <1>3, <1>4, <1>5, <1>9
    <2>8. x.wordIndex * WordBits = base + WordBits
      BY <1>5, <2>2
    <2>9. WriterOK(x, rs)
      <3>1. x \in WriterType /\ x.asserts
        BY <2>2, <2>4
      <3>2. x.scratchBits \in 0 .. WordBits - 1
        BY <2>2, <2>7
      <3>3. x.wordIndex * WordBits + x.scratchBits = x.bitsWritten
        BY <2>2, <2>7, <2>8
      <3>4. x.bitsWritten <= NumWords * WordBits /\ rs \subseteq 0 .. x.bitsWritten - 1
        BY <1>2, <1>4, <1>7, <1>a, <2>2
      <3>5. \A p \in Buffer : p < x.wordIndex * WordBits => x.data[p] = BitAt(p, rs)
        BY <2>5, <2>8
      <3>6. \A i \in Register : x.scratch[i] = IF i < x.scratchBits
                                              THEN BitAt(x.wordIndex * WordBits + i, rs) ELSE Zero
        BY <2>2, <2>6, <2>8
      <3> QED
        BY <3>1, <3>2, <3>3, <3>4, <3>5, <3>6 DEF WriterOK
    <2> QED
      BY <2>1, <2>2, <2>9 DEF Wrote, a, rs
  <1>10. f.scratchBits \in Int /\ WordBits \in Int
    BY <1>2, <1>3, <1>4
  <1> QED
    BY <1>8, <1>9, <1>10 DEF a, rs

LEMMA WriterNumbers ==
    ASSUME NEW w, NEW ps, WriterOK(w, ps)
    PROVE  /\ w.wordIndex \in Nat /\ w.bitsWritten \in Nat /\ w.scratchBits \in 0 .. WordBits - 1
           /\ w.wordIndex * WordBits \in Nat /\ NumWords * WordBits \in Nat
           /\ w.wordIndex * WordBits + w.scratchBits = w.bitsWritten
           /\ w.bitsWritten <= NumWords * WordBits
           /\ ps \subseteq Buffer
  <1>1. w.wordIndex \in Nat /\ WordBits \in Nat /\ NumWords * WordBits \in Nat
    BY WordFacts, BufferFacts DEF WriterOK, WriterType
  <1>2. w.wordIndex * WordBits \in Nat
    BY <1>1, Multiples
  <1>3. /\ w.bitsWritten \in Nat /\ w.scratchBits \in 0 .. WordBits - 1
        /\ w.wordIndex * WordBits + w.scratchBits = w.bitsWritten
        /\ w.bitsWritten <= NumWords * WordBits
        /\ ps \subseteq 0 .. w.bitsWritten - 1
    BY DEF WriterOK, WriterType
  <1>4. ps \subseteq Buffer
    BY <1>1, <1>3, BufferFacts
  <1> QED
    BY <1>1, <1>2, <1>3, <1>4

(* The caller's next bits are their own positions. *)
LEMMA PutFreshOK ==
    ASSUME NEW w, NEW ps, WriterOK(w, ps), NEW n \in 1 .. WordBits,
           w.bitsWritten + n <= NumWords * WordBits
    PROVE  Wrote(w, PutBits(w, Fresh(w, n), n), ps, n)
  <1>1. PICK qs, value : qs = {} /\ value = Fresh(w, n)
    OBVIOUS
  <1>2. /\ n \in Nat /\ w.bitsWritten \in Nat
        /\ qs \subseteq w.bitsWritten .. w.bitsWritten + n - 1 /\ ps \cup qs = ps
    BY <1>1, WriterNumbers, WordFacts
  <1>3. \A i \in 0 .. n - 1 : value[i] = BitAt(w.bitsWritten + i, qs)
    BY <1>1 DEF Fresh, BitAt
  <1>4. Wrote(w, PutBits(w, value, n), ps \cup qs, n)
    BY <1>2, <1>3, PutBitsOK
  <1> QED
    BY <1>1, <1>2, <1>4

LEMMA PutByteOK ==
    ASSUME NEW w, NEW ps, WriterOK(w, ps), w.bitsWritten + ByteBits <= NumWords * WordBits
    PROVE  Wrote(w, PutByte(w), ps, ByteBits)
  <1>1. ByteBits \in 1 .. WordBits
    BY PackerAssumption DEF WordBits
  <1> QED
    BY <1>1, PutFreshOK DEF PutByte

LEMMA PutBytesOK ==
    ASSUME NEW w, NEW ps, WriterOK(w, ps), NEW n \in 0 .. 3,
           w.bitsWritten + n * ByteBits <= NumWords * WordBits
    PROVE  Wrote(w, PutBytes(w, n), ps, n * ByteBits)
  <1> DEFINE x1 == PutByte(w)
             x2 == PutByte(x1)
             x3 == PutByte(x2)
  <1>1. /\ ByteBits \in Nat /\ NumWords * WordBits \in Nat /\ w.bitsWritten \in Nat
    BY WordFacts, WriterNumbers
  <1>2. CASE n = 0
    BY <1>1, <1>2 DEF PutBytes, Wrote
  <1>a. /\ n >= 1 => w.bitsWritten + ByteBits <= NumWords * WordBits
        /\ n >= 2 => w.bitsWritten + ByteBits + ByteBits <= NumWords * WordBits
        /\ n = 3 => w.bitsWritten + ByteBits + ByteBits + ByteBits <= NumWords * WordBits
    <2>1. n \in {0, 1, 2, 3}
      OBVIOUS
    <2> QED
      BY <1>1, <2>1
  <1>3. n >= 1 => WriterOK(x1, ps) /\ x1.bitsWritten = w.bitsWritten + ByteBits
    BY <1>1, <1>a, PutByteOK DEF Wrote
  <1> HIDE DEF x1
  <1>4. n >= 2 => WriterOK(x2, ps) /\ x2.bitsWritten = w.bitsWritten + ByteBits + ByteBits
    BY <1>1, <1>3, <1>a, PutByteOK DEF Wrote
  <1> HIDE DEF x2
  <1>5. n = 3 => WriterOK(x3, ps) /\ x3.bitsWritten = w.bitsWritten + ByteBits + ByteBits + ByteBits
    BY <1>1, <1>4, <1>a, PutByteOK DEF Wrote
  <1>6. CASE n = 1
    BY <1>1, <1>3, <1>6 DEF PutBytes, Wrote, x1
  <1>7. CASE n = 2
    BY <1>1, <1>4, <1>7 DEF PutBytes, Wrote, x1, x2
  <1>8. CASE n = 3
    BY <1>1, <1>5, <1>8 DEF PutBytes, Wrote, x1, x2
  <1> QED
    BY <1>2, <1>6, <1>7, <1>8

(* Whole words go behind those stored, when nothing is in the register. *)
LEMMA CopyWordsOK ==
    ASSUME NEW w, NEW ps, WriterOK(w, ps), w.scratchBits = 0, NEW words \in Nat,
           w.bitsWritten + words * WordBits <= NumWords * WordBits
    PROVE  Wrote(w, CopyWords(w, words), ps, words * WordBits)
  <1> DEFINE x    == CopyWords(w, words)
             base == w.wordIndex * WordBits
             size == words * WordBits
             d    == [p \in Buffer |-> IF p - base \in 0 .. size - 1
                                       THEN w.bitsWritten + (p - base) ELSE w.data[p]]
  <1>1. /\ w.wordIndex \in Nat /\ base \in Nat /\ w.bitsWritten = base /\ NumWords * WordBits \in Nat
        /\ size \in Nat /\ (w.wordIndex + words) * WordBits = base + size
        /\ base + size <= NumWords * WordBits /\ ps \subseteq 0 .. base - 1
    <2>1. /\ w.wordIndex \in Nat /\ base \in Nat /\ w.bitsWritten = base
          /\ NumWords * WordBits \in Nat /\ WordBits \in Nat /\ ps \subseteq 0 .. w.bitsWritten - 1
      <3>1. ps \subseteq 0 .. w.bitsWritten - 1
        BY DEF WriterOK
      <3>2. w.wordIndex \in Nat /\ base \in Nat /\ w.bitsWritten = base /\ NumWords * WordBits \in Nat
        BY WriterNumbers
      <3> QED
        BY <3>1, <3>2, WordFacts
    <2>2. size \in Nat /\ (w.wordIndex + words) * WordBits = base + size
      BY <2>1, Multiples
    <2> QED
      BY <2>1, <2>2
  <1>2. CASE words = 0
    BY <1>1, <1>2 DEF CopyWords, Wrote
  <1>3. CASE words # 0
    <2>1. x = [w EXCEPT !.asserts = @ /\ w.bitsWritten % WordBits = 0, !.data = d,
                        !.bitsWritten = @ + size, !.wordIndex = @ + words, !.scratch = Empty]
      BY <1>3 DEF CopyWords
    <2>2. base % WordBits = 0
      <3>1. base \div WordBits = w.wordIndex => base % WordBits = base - base
        BY <1>1, WordOf
      <3>2. base \div WordBits = w.wordIndex
        BY <1>1, WordOf, WordFacts
      <3> QED
        BY <1>1, <3>1, <3>2
    <2>3. \A p \in Buffer : d[p] = IF base <= p /\ p < base + size THEN p ELSE w.data[p]
      BY <1>1, BufferFacts
    <2>4. w.data \in [Buffer -> Bit] /\ w.asserts
      BY DEF WriterOK, WriterType
    <2>5. d \in [Buffer -> Bit]
      BY <2>3, <2>4, BufferFacts
    <2>6. Empty \in [Register -> Bit] /\ \A i \in Register : Empty[i] = Zero
      BY BufferFacts DEF Empty
    <2> HIDE DEF x, d, base, size
    <2>7. /\ x.data = d /\ x.scratch = Empty /\ x.scratchBits = w.scratchBits
          /\ x.asserts = (w.asserts /\ w.bitsWritten % WordBits = 0)
      BY <2>1 DEF WriterOK, WriterType
    <2>8. x.bitsWritten = w.bitsWritten + size /\ x.wordIndex = w.wordIndex + words
      BY <2>1 DEF WriterOK, WriterType
    <2>9. x.asserts
      BY <1>1, <2>2, <2>4, <2>7
    <2>10. x = [data |-> x.data, scratch |-> x.scratch, scratchBits |-> x.scratchBits,
                wordIndex |-> x.wordIndex, bitsWritten |-> x.bitsWritten, asserts |-> x.asserts]
      BY <2>1 DEF WriterOK, WriterType
    <2>11. x \in WriterType
      <3>1. /\ x.data \in [Buffer -> Bit] /\ x.scratch \in [Register -> Bit] /\ x.scratchBits \in Int
            /\ x.wordIndex \in Nat /\ x.bitsWritten \in Nat
        BY <1>1, <2>5, <2>6, <2>7, <2>8
      <3>2. x.asserts \in BOOLEAN
        BY <2>7, Zenon
      <3> QED
        BY <2>10, <3>1, <3>2 DEF WriterType
    <2>12. x.wordIndex * WordBits = base + size /\ x.bitsWritten = base + size
      BY <1>1, <2>8
    <2>13. \A p \in Buffer : p < base + size => x.data[p] = BitAt(p, ps)
      <3>1. \A p \in Buffer : p < base => w.data[p] = BitAt(p, ps)
        BY DEF WriterOK, base
      <3> QED
        BY <1>1, <2>3, <2>7, <3>1, BufferFacts DEF BitAt
    <2>14. WriterOK(x, ps)
      <3>1. x.scratchBits = 0 /\ 0 \in 0 .. WordBits - 1
        BY <2>7, WordFacts
      <3>2. ps \subseteq 0 .. x.bitsWritten - 1 /\ x.bitsWritten <= NumWords * WordBits
        BY <1>1, <2>12
      <3>3. x.wordIndex * WordBits + x.scratchBits = x.bitsWritten
        BY <1>1, <2>12, <3>1
      <3>4. \A i \in Register : ~ (i < 0)
        BY BufferFacts
      <3> QED
        BY <2>6, <2>7, <2>9, <2>11, <2>12, <2>13, <3>1, <3>2, <3>3, <3>4 DEF WriterOK
    <2> QED
      BY <2>8, <2>14 DEF Wrote, x, size
  <1> QED
    BY <1>2, <1>3

(* How WriteBytes and ReadBytes divide n bytes: up to three to the end of a   *)
(* word, whole words, up to three more.                                       *)
LEMMA Portions ==
    ASSUME NEW a \in Nat, a % ByteBits = 0, NEW n \in Nat, NEW head, head = HeadBytes(a, n)
    PROVE  /\ head \in 0 .. 3 /\ head <= n
           /\ head # n => \E k \in Nat : a + head * ByteBits = k * WordBits
           /\ (n - head) \div 4 \in Nat
           /\ n - head - 4 * ((n - head) \div 4) \in 0 .. 3
           /\ head * ByteBits + ((n - head) \div 4) * WordBits
                + (n - head - 4 * ((n - head) \div 4)) * ByteBits = n * ByteBits
  <1> DEFINE m == a \div ByteBits
             q == a \div WordBits
             r == a % WordBits
             j == m - 4 * q
             toWord == (4 - r \div ByteBits) % 4
             words == (n - head) \div 4
             tail == n - head - 4 * words
  <1>1. ByteBits \in Nat \ {0} /\ WordBits \in Nat \ {0} /\ WordBits = 4 * ByteBits
    BY WordFacts DEF WordBits
  <1>2. m \in Nat /\ a = m * ByteBits
    <2>1. m \in Nat /\ a = (m * ByteBits) + (a % ByteBits)
      BY <1>1, Quotient
    <2>2. m * ByteBits \in Nat
      BY <1>1, <2>1, Multiples
    <2> QED
      BY <2>1, <2>2
  <1>3. q \in Nat /\ r \in 0 .. WordBits - 1 /\ a = (q * WordBits) + r
    BY WordFacts, Quotient
  <1> HIDE DEF m, q, r
  <1>4. q * WordBits = (4 * q) * ByteBits
    BY <1>1, <1>3
  <1>5. /\ (4 * q) * ByteBits \in Nat /\ m * ByteBits \in Nat /\ 4 * q \in Nat
        /\ m < 4 * q => m * ByteBits + ByteBits <= (4 * q) * ByteBits
    BY <1>1, <1>2, <1>3, Multiples
  <1>6. j \in Nat /\ m = 4 * q + j
    BY <1>1, <1>2, <1>3, <1>4, <1>5
  <1> HIDE DEF j
  <1>7. (4 * q + j) * ByteBits = (4 * q) * ByteBits + j * ByteBits /\ j * ByteBits \in Nat
    BY <1>1, <1>5, <1>6, Multiples
  <1>8. r = j * ByteBits
    BY <1>2, <1>3, <1>4, <1>5, <1>6, <1>7
  <1>9. j \in {0, 1, 2, 3}
    <2>1. 4 <= j => 4 * ByteBits <= j * ByteBits
      BY <1>1, <1>6, Multiples
    <2> QED
      BY <1>1, <1>3, <1>6, <1>7, <1>8, <2>1
  <1>10. r \div ByteBits = j
    <2>1. r \div ByteBits \in Nat /\ r % ByteBits \in 0 .. ByteBits - 1
          /\ r = ((r \div ByteBits) * ByteBits) + (r % ByteBits)
      <3>1. r \in Nat
        BY <1>3, WordFacts
      <3> QED
        BY <3>1, WordFacts, Quotient
    <2>2. 0 \in 0 .. ByteBits - 1 /\ j * ByteBits + 0 = r
      BY <1>1, <1>7, <1>8
    <2> QED
      BY <1>1, <1>6, <2>1, <2>2, SameMultiple
  <1>11. toWord = IF j = 0 THEN 0 ELSE 4 - j
    BY <1>9, <1>10
  <1>12. head = IF toWord > n THEN n ELSE toWord
    BY DEF HeadBytes, r
  <1> HIDE DEF toWord
  <1>13. head \in 0 .. 3 /\ head <= n
    BY <1>9, <1>11, <1>12
  <1>14. ASSUME head # n PROVE \E k \in Nat : a + head * ByteBits = k * WordBits
    <2>1. head = toWord
      BY <1>12, <1>14
    <2>2. (q + 1) * WordBits = q * WordBits + WordBits
      BY <1>1, <1>3, Multiples
    <2>3. a + head * ByteBits = q * WordBits \/ a + head * ByteBits = (q + 1) * WordBits
      <3>1. CASE j = 0
        BY <1>1, <1>3, <1>8, <1>11, <2>1, <3>1
      <3>2. CASE j # 0
        <4>1. head = 4 - j
          BY <1>11, <2>1, <3>2
        <4>2. r + head * ByteBits = WordBits /\ head * ByteBits \in Nat
          BY <1>1, <1>8, <1>9, <3>2, <4>1
        <4>3. q * WordBits \in Nat
          BY <1>1, <1>3, Multiples
        <4> QED
          BY <1>3, <2>2, <4>2, <4>3, WordFacts
      <3> QED
        BY <3>1, <3>2
    <2> QED
      BY <1>3, <2>3
  <1>15. words \in Nat /\ tail \in 0 .. 3
    <2>1. n - head \in Nat
      BY <1>13
    <2>2. /\ words \in Nat /\ (n - head) % 4 \in 0 .. 3
          /\ n - head = (words * 4) + ((n - head) % 4)
      BY <2>1
    <2> HIDE DEF words
    <2> QED
      BY <2>1, <2>2
  <1> HIDE DEF words
  <1>16. n = head + 4 * words + tail /\ head \in Nat /\ tail \in Nat
    <2>1. head \in Nat
      BY <1>13
    <2>2. tail \in Nat
      BY <1>15
    <2> QED
      BY <1>15, <2>1, <2>2
  <1> HIDE DEF tail
  <1>17. head * ByteBits + words * WordBits + tail * ByteBits = n * ByteBits
    <2>1. words * WordBits = (4 * words) * ByteBits
      BY <1>1, <1>15
    <2>2. (head + 4 * words) * ByteBits = head * ByteBits + (4 * words) * ByteBits
      BY <1>1, <1>15, <1>16, Multiples
    <2>3. (head + 4 * words + tail) * ByteBits = (head + 4 * words) * ByteBits + tail * ByteBits
      BY <1>1, <1>15, <1>16, Multiples
    <2> QED
      BY <1>16, <2>1, <2>2, <2>3
  <1> QED
    BY <1>13, <1>14, <1>15, <1>17 DEF words, tail

LEMMA PutArrayOK ==
    ASSUME NEW w, NEW ps, WriterOK(w, ps), NEW n \in Nat, NEW l,
           AlignBits(w.bitsWritten) = 0,
           w.bitsWritten + n * ByteBits <= NumWords * WordBits
    PROVE  Wrote(w, PutArray(w, l, n), ps, n * ByteBits)
  <1> DEFINE head  == HeadBytes(w.bitsWritten, n)
             words == (n - head) \div 4
             tail  == n - head - 4 * words
             x1 == PutBytes(w, head)
             x2 == FlushBits(x1, l)
             x3 == CopyWords(x2, words)
             x4 == PutBytes(x3, tail)
             total == NumWords * WordBits
  <1>1. PutArray(w, l, n) = IF head = n THEN PutBytes(w, n) ELSE x4
    BY DEF PutArray
  <1>2. w.bitsWritten \in Nat /\ w.bitsWritten <= total /\ total \in Nat /\ ByteBits \in Nat
    BY WriterNumbers, WordFacts
  <1>3. w.bitsWritten % ByteBits = 0
    <2>1. total = (4 * NumWords) * ByteBits /\ 4 * NumWords \in Nat
      BY PackerAssumption DEF WordBits
    <2> HIDE DEF total
    <2> QED
      BY <1>2, <2>1, AlignStays
  <1>4. /\ head \in 0 .. 3 /\ head <= n
        /\ head # n => \E k \in Nat : w.bitsWritten + head * ByteBits = k * WordBits
        /\ words \in Nat /\ tail \in 0 .. 3
        /\ head * ByteBits + words * WordBits + tail * ByteBits = n * ByteBits
    <2>1. head = HeadBytes(w.bitsWritten, n)
      OBVIOUS
    <2> HIDE DEF head
    <2>2. head \in 0 .. 3 /\ head <= n
      BY <1>2, <1>3, <2>1, Portions
    <2>3. head # n => \E k \in Nat : w.bitsWritten + head * ByteBits = k * WordBits
      BY <1>2, <1>3, <2>1, Portions
    <2>4. words \in Nat /\ tail \in 0 .. 3
      BY <1>2, <1>3, <2>1, Portions
    <2>5. head * ByteBits + words * WordBits + tail * ByteBits = n * ByteBits
      BY <1>2, <1>3, <2>1, Portions
    <2> QED
      BY <2>2, <2>3, <2>4, <2>5
  <1>5. /\ head * ByteBits \in Nat /\ words * WordBits \in Nat /\ tail * ByteBits \in Nat
        /\ n * ByteBits \in Nat
    <2> HIDE DEF head, words, tail
    <2>1. head \in Nat /\ tail \in Nat /\ WordBits \in Nat
      BY <1>4, WordFacts
    <2> QED
      BY <1>2, <1>4, <2>1, Multiples
  <1> HIDE DEF head, words, tail, x2, x3, x4, total
  <1>6. Wrote(w, x1, ps, head * ByteBits)
    BY <1>2, <1>4, <1>5, PutBytesOK DEF total
  <1> HIDE DEF x1
  <1>7. CASE head = n
    BY <1>1, <1>6, <1>7 DEF x1
  <1>8. CASE head # n
    <2>1. WriterOK(x1, ps) /\ x1.bitsWritten = w.bitsWritten + head * ByteBits
      BY <1>6 DEF Wrote
    <2>2. x1.scratchBits = 0
      <3>1. PICK k \in Nat : x1.bitsWritten = k * WordBits
        BY <1>4, <1>8, <2>1
      <3>2. /\ x1.wordIndex \in Nat /\ x1.scratchBits \in 0 .. WordBits - 1
            /\ x1.wordIndex * WordBits + x1.scratchBits = x1.bitsWritten
        BY <2>1, WriterNumbers
      <3>3. 0 \in 0 .. WordBits - 1 /\ WordBits \in Nat \ {0} /\ k * WordBits + 0 = k * WordBits
        BY WordFacts, Multiples
      <3>4. x1.wordIndex * WordBits + x1.scratchBits = k * WordBits + 0
        BY <3>1, <3>2, <3>3
      <3> QED
        BY <3>2, <3>3, <3>4, SameMultiple
    <2>3. x2 = x1
      BY <2>2 DEF x2, FlushBits
    <2>4. Wrote(x1, x3, ps, words * WordBits)
      BY <1>2, <1>4, <1>5, <2>1, <2>2, <2>3, CopyWordsOK DEF x3, total
    <2>5. WriterOK(x3, ps) /\ x3.bitsWritten = x1.bitsWritten + words * WordBits
      BY <2>4 DEF Wrote
    <2>6. Wrote(x3, x4, ps, tail * ByteBits)
      BY <1>2, <1>4, <1>5, <2>1, <2>5, PutBytesOK DEF x4, total
    <2>7. Wrote(w, x4, ps, n * ByteBits)
      BY <1>2, <1>4, <1>5, <2>1, <2>5, <2>6 DEF Wrote
    <2> QED
      BY <1>1, <1>8, <2>7
  <1> QED
    BY <1>7, <1>8

(* The zeros of WriteAlign. *)
LEMMA PutAlignOK ==
    ASSUME NEW w, NEW ps, WriterOK(w, ps), NEW n, n = AlignBits(w.bitsWritten), n # 0,
           NEW qs, qs = {w.bitsWritten + i : i \in 0 .. n - 1}
    PROVE  Wrote(w, PutBits(w, ZeroBits(n), n), ps \cup qs, n)
  <1>1. w.bitsWritten \in Nat /\ w.bitsWritten <= NumWords * WordBits
    BY WriterNumbers
  <1>2. /\ NumWords * WordBits = (4 * NumWords) * ByteBits /\ 4 * NumWords \in Nat
        /\ ByteBits \in Nat \ {0} /\ WordBits = 4 * ByteBits
    BY PackerAssumption DEF WordBits
  <1>3. n \in 0 .. ByteBits - 1 /\ w.bitsWritten + n <= NumWords * WordBits
    BY <1>1, <1>2, AlignStays
  <1>4. n \in 1 .. WordBits /\ n \in Nat
    BY <1>2, <1>3
  <1>5. PICK value : value = ZeroBits(n)
    OBVIOUS
  <1>6. \A i \in 0 .. n - 1 : value[i] = BitAt(w.bitsWritten + i, qs)
    BY <1>5 DEF ZeroBits, BitAt
  <1>7. qs \subseteq w.bitsWritten .. w.bitsWritten + n - 1
    BY <1>1, <1>4
  <1>8. Wrote(w, PutBits(w, value, n), ps \cup qs, n)
    BY <1>1, <1>3, <1>4, <1>6, <1>7, PutBitsOK
  <1> QED
    BY <1>5, <1>8

-----------------------------------------------------------------------------
\* What is sent.

(* The bytes of a bits, and the words of those bytes.                         *)
LEMMA WordsSent ==
    ASSUME NEW a \in Nat, NEW k \in Nat, NEW b \in 0 .. WordBits - 1, a = k * WordBits + b,
           NEW m, m = (a + ByteBits - 1) \div ByteBits, NEW r, r = (m + 3) \div 4
    PROVE  /\ m \in Nat /\ r \in Nat /\ r = IF b = 0 THEN k ELSE k + 1
           /\ a <= m * ByteBits /\ m * ByteBits <= r * WordBits
  <1>1. ByteBits \in Nat \ {0} /\ WordBits \in Nat \ {0} /\ WordBits = 4 * ByteBits
    BY WordFacts DEF WordBits
  <1>2. /\ m \in Nat /\ m * ByteBits \in Nat
        /\ a <= m * ByteBits /\ m * ByteBits <= a + ByteBits - 1
    <2> DEFINE c == a + ByteBits - 1
    <2>1. c \in Nat
      BY <1>1
    <2> HIDE DEF c
    <2>2. /\ c \div ByteBits \in Nat /\ c % ByteBits \in 0 .. ByteBits - 1
          /\ c = ((c \div ByteBits) * ByteBits) + (c % ByteBits)
      BY <2>1, WordFacts, Quotient
    <2>3. m = c \div ByteBits
      BY DEF c
    <2>4. m \in Nat /\ m * ByteBits \in Nat
      BY <2>2, <2>3, WordFacts, Multiples
    <2> QED
      BY <1>1, <2>2, <2>3, <2>4 DEF c
  <1>3. r \in Nat /\ m <= 4 * r /\ 4 * r <= m + 3
    BY <1>2
  <1>4. r * WordBits = (4 * r) * ByteBits
    BY <1>1, <1>3
  <1>5. m * ByteBits <= (4 * r) * ByteBits /\ (4 * r) * ByteBits <= (m + 3) * ByteBits
    <2>1. 4 * r \in Nat /\ m + 3 \in Nat
      BY <1>2, <1>3
    <2> QED
      BY <1>1, <1>2, <1>3, <2>1, Multiples
  <1>6. (m + 3) * ByteBits = m * ByteBits + 3 * ByteBits
    BY <1>1, <1>2
  <1>7. a <= r * WordBits /\ r * WordBits < a + WordBits
    BY <1>1, <1>2, <1>4, <1>5, <1>6
  <1>8. /\ r * WordBits \in Nat /\ k * WordBits \in Nat
        /\ r < k => r * WordBits + WordBits <= k * WordBits
        /\ k < r => k * WordBits + WordBits <= r * WordBits
    BY <1>1, <1>3, Multiples
  <1>9. k + 1 < r => k * WordBits + 2 * WordBits <= r * WordBits
    <2>1. (k + 1) * WordBits = k * WordBits + WordBits
      BY <1>1, Multiples
    <2>2. k + 1 < r => (k + 1) * WordBits + WordBits <= r * WordBits
      BY <1>1, <1>3, Multiples
    <2> QED
      BY <1>1, <1>8, <2>1, <2>2
  <1>10. r = IF b = 0 THEN k ELSE k + 1
    <2> HIDE <1>4
    <2>1. WordBits \in Nat \ {0} /\ b \in 0 .. WordBits - 1 /\ k \in Nat /\ r \in Nat
      BY <1>1, <1>3
    <2> QED
      BY <1>7, <1>8, <1>9, <2>1
  <1> QED
    BY <1>2, <1>3, <1>4, <1>5, <1>10

(* The words that are sent hold what was written, and zeros behind it.        *)
Readable ==
    /\ writer \in WriterType /\ writer.asserts
    /\ pads \subseteq Buffer /\ writer.bitsWritten <= NumWords * WordBits
    /\ writer.wordIndex = ReadWords
    /\ NumBytes \in Nat /\ ReadWords \in 0 .. NumWords
    /\ NumBytes * ByteBits <= ReadWords * WordBits
    /\ \A p \in Buffer : p < ReadWords * WordBits => writer.data[p] = Written(p)

LEMMA FlushOK ==
    ASSUME WriterOK(writer, pads), writer' = FlushBits(writer, lang), pads' = pads
    PROVE  Readable'
  <1> DEFINE a == writer.bitsWritten
             b == writer.scratchBits
             k == writer.wordIndex
             base == k * WordBits
             x == FlushBits(writer, lang)
             m == (a + ByteBits - 1) \div ByteBits
             r == (m + 3) \div 4
             total == NumWords * WordBits
  <1>1. /\ k \in Nat /\ a \in Nat /\ b \in 0 .. WordBits - 1 /\ base \in Nat /\ total \in Nat
        /\ base + b = a /\ a <= total /\ pads \subseteq Buffer
    BY WriterNumbers
  <1>2. /\ writer \in WriterType /\ writer.asserts
        /\ pads \subseteq 0 .. a - 1
        /\ \A p \in Buffer : p < base => writer.data[p] = BitAt(p, pads)
        /\ \A i \in Register : writer.scratch[i] = IF i < b THEN BitAt(base + i, pads) ELSE Zero
    BY DEF WriterOK
  <1>3. /\ m \in Nat /\ r \in Nat /\ r = (IF b = 0 THEN k ELSE k + 1)
        /\ a <= m * ByteBits /\ m * ByteBits <= r * WordBits
    <2>1. m = (a + ByteBits - 1) \div ByteBits /\ r = (m + 3) \div 4
      OBVIOUS
    <2> HIDE DEF a, b, k, m, r
    <2> QED
      BY <1>1, <2>1, WordsSent
  <1>4. \A p \in Buffer : BitAt(p, pads) = IF p \in pads THEN Zero ELSE p
    BY DEF BitAt
  <1>5. WordBits \in Nat \ {0} /\ NumWords \in Nat /\ (k + 1) * WordBits = base + WordBits
    BY <1>1, WordFacts, Multiples
  <1> HIDE DEF a, b, k, base, x, m, r, total
  <1>6. /\ x \in WriterType /\ x.asserts /\ x.bitsWritten = a /\ x.wordIndex = r /\ r <= NumWords
        /\ \A p \in Buffer :
              p < r * WordBits => x.data[p] = IF p \in pads \/ p >= a THEN Zero ELSE p
    <2>1. CASE b = 0
      <3>1. x = writer
        BY <2>1 DEF x, b, FlushBits
      <3>2. k <= NumWords
        <4>1. NumWords < k => total + WordBits <= base
          BY <1>1, <1>5, Multiples DEF base, total
        <4> QED
          BY <1>1, <1>5, <4>1
      <3>3. r * WordBits = a /\ r = k
        BY <1>1, <1>3, <2>1 DEF base
      <3>4. \A p \in Buffer : p < a => x.data[p] = BitAt(p, pads)
        BY <1>1, <1>2, <2>1, <3>1
      <3> QED
        BY <1>1, <1>2, <1>4, <3>1, <3>2, <3>3, <3>4, BufferFacts DEF a, k
    <2>2. CASE b # 0
      <3> DEFINE y == StoreWord(writer)
      <3>1. r = k + 1 /\ r * WordBits = base + WordBits
        BY <1>3, <1>5, <2>2
      <3>2. k < NumWords
        <4>1. NumWords <= k => total <= base
          BY <1>1, <1>5, Multiples DEF base, total
        <4> QED
          BY <1>1, <1>5, <2>2, <4>1
      <3>3. /\ y \in WriterType
            /\ y.asserts = (writer.asserts /\ writer.wordIndex < NumWords)
            /\ y.wordIndex = writer.wordIndex + 1
            /\ y.bitsWritten = writer.bitsWritten
        BY <1>2, StoreWordEffect
      <3>4. \A p \in Buffer : y.data[p] = IF base <= p /\ p < base + WordBits
                                          THEN writer.scratch[p - base] ELSE writer.data[p]
        BY <1>2, StoreWordEffect DEF base, k
      <3> HIDE DEF y
      <3>5. y.asserts
        BY <1>2, <3>2, <3>3 DEF k
      <3>6. ASSUME NEW p \in Buffer, p < base + WordBits
            PROVE  y.data[p] = IF p \in pads \/ p >= a THEN Zero ELSE p
        <4>1. p \in Nat
          BY BufferFacts
        <4>2. CASE p < base
          <5>1. y.data[p] = BitAt(p, pads) /\ ~ (p >= a)
            BY <1>1, <1>2, <3>4, <4>1, <4>2
          <5> QED
            BY <5>1 DEF BitAt
        <4>3. CASE base <= p
          <5>1. p - base \in Register /\ (p - base < b <=> p < a) /\ base + (p - base) = p
            BY <1>1, <1>5, <3>6, <4>1, <4>3, BufferFacts
          <5>2. y.data[p] = IF p < a THEN BitAt(p, pads) ELSE Zero
            BY <1>2, <3>4, <3>6, <4>3, <5>1
          <5> QED
            BY <1>1, <4>1, <5>2 DEF BitAt
        <4> QED
          BY <1>1, <4>1, <4>2, <4>3
      <3>7. /\ x \in WriterType /\ x.asserts /\ x.data = y.data
            /\ x.wordIndex = y.wordIndex /\ x.bitsWritten = y.bitsWritten
        <4>1. CASE lang # "cs"
          <5>1. x = y
            BY <2>2, <4>1 DEF x, y, b, FlushBits
          <5> QED
            BY <3>3, <3>5, <5>1
        <4>2. CASE lang = "cs"
          <5>1. x = [y EXCEPT !.scratchBits = 0]
            BY <2>2, <4>2 DEF x, y, b, FlushBits
          <5>2. /\ x.data = y.data /\ x.scratch = y.scratch /\ x.scratchBits = 0
                /\ x.wordIndex = y.wordIndex /\ x.bitsWritten = y.bitsWritten /\ x.asserts = y.asserts
            BY <3>3, <5>1 DEF WriterType
          <5>3. x \in WriterType
            BY <3>3, <5>1 DEF WriterType
          <5> QED
            BY <3>5, <5>2, <5>3
        <4> QED
          BY <4>1, <4>2
      <3> QED
        BY <1>1, <1>5, <3>1, <3>2, <3>3, <3>6, <3>7 DEF a, k
    <2> QED
      BY <2>1, <2>2
  <1>7. writer' = x
    BY DEF x
  <1>8. NumBytes' = m /\ ReadWords' = r
    BY <1>6, <1>7 DEF NumBytes, ReadWords, m, r
  <1>9. \A p \in Buffer : Written(p)' = IF p \in pads \/ p >= a THEN Zero ELSE p
    BY <1>6, <1>7 DEF Written
  <1> QED
    BY <1>1, <1>3, <1>5, <1>6, <1>7, <1>8, <1>9 DEF Readable, total

LEMMA SentFacts ==
    ASSUME Readable
    PROVE  /\ ReadWords \in Nat /\ ReadWords * WordBits \in Nat /\ NumBytes * ByteBits \in Nat
           /\ NumBytes * ByteBits <= ReadWords * WordBits
           /\ ReadWords * WordBits <= NumWords * WordBits
           /\ \A p \in Nat : p < ReadWords * WordBits =>
                 p \in Buffer /\ writer.data[p] = Written(p) /\ Written(p) \in Bit
  <1>1. /\ ReadWords \in Nat /\ ReadWords <= NumWords /\ NumBytes \in Nat
        /\ NumBytes * ByteBits <= ReadWords * WordBits
        /\ \A p \in Buffer : p < ReadWords * WordBits => writer.data[p] = Written(p)
    BY DEF Readable
  <1>2. /\ WordBits \in Nat /\ NumWords \in Nat /\ ByteBits \in Nat
        /\ NumWords * WordBits \in Nat
    BY WordFacts, BufferFacts
  <1>3. /\ ReadWords * WordBits \in Nat /\ NumBytes * ByteBits \in Nat
        /\ ReadWords * WordBits <= NumWords * WordBits
    BY <1>1, <1>2, Multiples
  <1>4. ASSUME NEW p \in Nat, p < ReadWords * WordBits PROVE p \in Buffer
    BY <1>2, <1>3, <1>4, BufferFacts
  <1>5. \A p \in Buffer : Written(p) \in Bit
    BY BufferFacts DEF Written
  <1> QED
    BY <1>1, <1>3, <1>4, <1>5

-----------------------------------------------------------------------------
\* The reader.

ReaderType == [scratch : [Register -> Bit], scratchBits : Int, wordIndex : Nat,
               bitsRead : Nat, asserts : BOOLEAN, output : Seq(Bit)]

(* The bits returned and those in the register are the bits of the words     *)
(* fetched.                                                                  *)
Loaded(r) ==
    /\ r \in ReaderType /\ r.asserts
    /\ r.scratchBits \in 0 .. 2 * WordBits - 1
    /\ r.bitsRead + r.scratchBits = r.wordIndex * WordBits
    /\ r.wordIndex <= ReadWords /\ r.bitsRead <= NumBytes * ByteBits
    /\ \A i \in Register :
          r.scratch[i] = IF i < r.scratchBits THEN Written(r.bitsRead + i) ELSE Zero
    /\ Len(r.output) = r.bitsRead
    /\ \A i \in 1 .. r.bitsRead : r.output[i] = Written(i - 1)

(* Between two calls less than a word is in the register. *)
ReaderOK(r) == Loaded(r) /\ r.scratchBits < WordBits

LEMMA FetchOK ==
    ASSUME Readable, NEW r, ReaderOK(r), NEW n \in 1 .. WordBits, r.scratchBits < n,
           r.bitsRead + n <= NumBytes * ByteBits
    PROVE  LET x == Fetch(r) IN
           /\ Loaded(x) /\ x.bitsRead = r.bitsRead /\ x.scratchBits = r.scratchBits + WordBits
  <1> DEFINE x == Fetch(r)
             b == r.scratchBits
             k == r.wordIndex
             base == k * WordBits
             s == OrInto(r.scratch, Word(k), WordBits, b)
  <1>1. /\ r \in ReaderType /\ r.asserts
        /\ b \in 0 .. WordBits - 1 /\ b < n
        /\ r.bitsRead + b = base /\ r.bitsRead <= NumBytes * ByteBits
        /\ \A i \in Register :
              r.scratch[i] = IF i < b THEN Written(r.bitsRead + i) ELSE Zero
        /\ Len(r.output) = r.bitsRead
        /\ \A i \in 1 .. r.bitsRead : r.output[i] = Written(i - 1)
    BY WordFacts DEF ReaderOK, Loaded
  <1>2. /\ k \in Nat /\ r.bitsRead \in Nat /\ b \in Int /\ r.output \in Seq(Bit)
        /\ r.scratch \in [Register -> Bit] /\ WordBits \in Nat \ {0} /\ n \in Nat
    BY <1>1, WordFacts DEF ReaderType
  <1>a. b \in 0 .. WordBits - 1 /\ r.bitsRead + b = base
    BY <1>1
  <1>3. base \in Nat /\ (k + 1) * WordBits = base + WordBits
    BY <1>2, Multiples
  <1> HIDE DEF b, k, base
  <1>4. k < ReadWords
    <2>1. /\ ReadWords \in Nat /\ ReadWords * WordBits \in Nat /\ NumBytes * ByteBits \in Nat
          /\ NumBytes * ByteBits <= ReadWords * WordBits
      BY SentFacts
    <2>2. ReadWords <= k => ReadWords * WordBits <= base
      BY <1>2, <2>1, Multiples DEF base
    <2> QED
      BY <1>1, <1>2, <1>3, <2>1, <2>2
  <1>5. ASSUME NEW i \in 0 .. WordBits - 1
        PROVE  Word(k)[i] = Written(base + i) /\ Written(base + i) \in Bit
    <2>1. ReadWords \in Nat /\ ReadWords * WordBits \in Nat
      BY SentFacts
    <2>2. base + WordBits <= ReadWords * WordBits
      BY <1>2, <1>4, <2>1, Multiples DEF base
    <2>3. base + i \in Nat /\ base + i < ReadWords * WordBits
      BY <1>2, <1>3, <2>1, <2>2
    <2>4. /\ base + i \in Buffer
          /\ writer.data[base + i] = Written(base + i)
          /\ Written(base + i) \in Bit
      BY <2>3, SentFacts
    <2> QED
      BY <2>4 DEF Word, base
  <1>6. \A i \in Register : i \in Nat
    BY BufferFacts
  <1>7. \A i \in Register :
           s[i] = IF b <= i /\ i <= b + WordBits - 1 THEN OrBit(r.scratch[i], Word(k)[i - b])
                                                     ELSE r.scratch[i]
    BY <1>2, <1>6 DEF OrInto
  <1>8. ASSUME NEW i \in Register
        PROVE  /\ s[i] = IF i < b + WordBits THEN Written(r.bitsRead + i) ELSE Zero
               /\ s[i] \in Bit
    <2>1. CASE i < b
      BY <1>1, <1>2, <1>6, <1>7, <2>1
    <2>2. CASE b <= i /\ i < b + WordBits
      <3>1. i - b \in 0 .. WordBits - 1 /\ base + (i - b) = r.bitsRead + i
        <4>1. i \in Int /\ b \in Int /\ WordBits \in Int /\ r.bitsRead \in Int /\ base \in Int
          BY <1>2, <1>3, <1>6
        <4>2. i - b \in 0 .. WordBits - 1
          BY <2>2, <4>1
        <4>3. base + (i - b) = r.bitsRead + i
          BY <1>a, <4>1
        <4> QED
          BY <4>2, <4>3
      <3>2. r.scratch[i] = Zero
        BY <1>1, <1>2, <1>6, <2>2
      <3>3. Word(k)[i - b] = Written(r.bitsRead + i) /\ Written(r.bitsRead + i) \in Bit
        BY <1>5, <3>1
      <3>4. s[i] = OrBit(r.scratch[i], Word(k)[i - b])
        BY <1>2, <1>6, <1>7, <2>2
      <3> QED
        BY <1>2, <1>6, <2>2, <3>2, <3>3, <3>4 DEF OrBit
    <2>3. CASE b + WordBits <= i
      BY <1>1, <1>2, <1>6, <1>7, <2>3
    <2> QED
      BY <1>2, <1>6, <2>1, <2>2, <2>3
  <1>9. s \in [Register -> Bit]
    BY <1>8 DEF OrInto
  <1>10. x = [r EXCEPT !.asserts = @ /\ k < ReadWords, !.scratch = s,
                       !.scratchBits = @ + WordBits, !.wordIndex = @ + 1]
    BY DEF Fetch, k, b, s
  <1> HIDE DEF x, s
  <1>11. /\ x.scratch = s /\ x.scratchBits = b + WordBits
         /\ x.bitsRead = r.bitsRead /\ x.output = r.output
         /\ x.asserts = (r.asserts /\ k < ReadWords)
    BY <1>1, <1>10 DEF ReaderType, b
  <1>12. x.wordIndex = k + 1
    BY <1>1, <1>10 DEF ReaderType, k
  <1>13. x = [scratch |-> x.scratch, scratchBits |-> x.scratchBits, wordIndex |-> x.wordIndex,
              bitsRead |-> x.bitsRead, asserts |-> x.asserts, output |-> x.output]
    BY <1>1, <1>10 DEF ReaderType
  <1>14. x \in ReaderType
    <2>1. /\ x.scratch \in [Register -> Bit] /\ x.scratchBits \in Int /\ x.wordIndex \in Nat
          /\ x.bitsRead \in Nat /\ x.output \in Seq(Bit)
      BY <1>2, <1>9, <1>11, <1>12
    <2>2. x.asserts \in BOOLEAN
      BY <1>11, Zenon
    <2> QED
      BY <1>13, <2>1, <2>2 DEF ReaderType
  <1>15. x.asserts
    BY <1>1, <1>4, <1>11
  <1>16. /\ x.scratchBits \in 0 .. 2 * WordBits - 1
         /\ x.bitsRead + x.scratchBits = x.wordIndex * WordBits
    <2>1. x.wordIndex * WordBits = base + WordBits
      BY <1>3, <1>12
    <2>2. b \in Int /\ WordBits \in Int /\ r.bitsRead \in Int /\ base \in Int
      BY <1>2, <1>3
    <2>3. b + WordBits \in 0 .. 2 * WordBits - 1
      BY <1>a, <2>2
    <2>4. r.bitsRead + (b + WordBits) = base + WordBits
      BY <1>a, <2>2
    <2> QED
      BY <1>11, <2>1, <2>3, <2>4
  <1>17. x.wordIndex <= ReadWords
    BY <1>2, <1>4, <1>12, SentFacts
  <1>18. /\ x.bitsRead <= NumBytes * ByteBits
         /\ \A i \in Register :
               x.scratch[i] = IF i < x.scratchBits THEN Written(x.bitsRead + i) ELSE Zero
         /\ Len(x.output) = x.bitsRead
         /\ \A i \in 1 .. x.bitsRead : x.output[i] = Written(i - 1)
    BY <1>1, <1>8, <1>11
  <1>19. Loaded(x)
    BY <1>14, <1>15, <1>16, <1>17, <1>18 DEF Loaded
  <1> QED
    BY <1>11, <1>19 DEF x, b

LEMMA FunctionIsSeq ==
    ASSUME NEW S, NEW n \in Nat, NEW t \in [1 .. n -> S]
    PROVE  t \in Seq(S) /\ Len(t) = n
  <1>1. t \in Seq(S)
    BY SeqDef
  <1>2. Len(t) \in Nat /\ DOMAIN t = 1 .. Len(t)
    BY <1>1, LenProperties
  <1>3. 1 .. Len(t) = 1 .. n
    BY <1>2
  <1>4. Len(t) = n
    <2>1. Len(t) > n => Len(t) \in 1 .. n
      BY <1>2, <1>3
    <2>2. Len(t) < n => n \in 1 .. Len(t)
      BY <1>2, <1>3
    <2> QED
      BY <1>2, <2>1, <2>2
  <1> QED
    BY <1>1, <1>4

(* Bits returned behind those returned before. *)
Returned(output, a) == /\ output \in Seq(Bit) /\ Len(output) = a
                       /\ \A i \in 1 .. a : output[i] = Written(i - 1)

LEMMA Appended ==
    ASSUME NEW output, NEW a \in Nat, Returned(output, a),
           NEW n \in Nat, NEW t \in [1 .. n -> Bit],
           \A i \in 1 .. n : t[i] = Written(a + (i - 1))
    PROVE  Returned(output \o t, a + n)
  <1>1. t \in Seq(Bit) /\ Len(t) = n
    BY FunctionIsSeq
  <1>2. output \in Seq(Bit) /\ Len(output) = a /\ \A i \in 1 .. a : output[i] = Written(i - 1)
    BY DEF Returned
  <1>3. /\ output \o t \in Seq(Bit) /\ Len(output \o t) = a + n
        /\ \A i \in 1 .. a + n : (output \o t)[i] = IF i <= a THEN output[i] ELSE t[i - a]
    BY <1>1, <1>2, ConcatProperties
  <1>4. ASSUME NEW i \in 1 .. a + n PROVE (output \o t)[i] = Written(i - 1)
    <2>1. CASE i <= a
      BY <1>2, <1>3, <2>1
    <2>2. CASE i > a
      <3>1. i - a \in 1 .. n /\ a + ((i - a) - 1) = i - 1
        BY <2>2
      <3>2. (output \o t)[i] = t[i - a] /\ t[i - a] = Written(a + ((i - a) - 1))
        BY <1>3, <2>2, <3>1
      <3> QED
        BY <3>1, <3>2
    <2>3. i <= a \/ i > a
      OBVIOUS
    <2> QED
      BY <2>1, <2>2, <2>3, Zenon
  <1> QED
    BY <1>3, <1>4 DEF Returned

LEMMA TakeOK ==
    ASSUME Readable, NEW r, Loaded(r), NEW n \in 1 .. WordBits, n <= r.scratchBits,
           r.scratchBits - n < WordBits, r.bitsRead + n <= NumBytes * ByteBits
    PROVE  LET x == Take(r, n) IN ReaderOK(x) /\ x.bitsRead = r.bitsRead + n
  <1> DEFINE x == Take(r, n)
             a == r.bitsRead
             b == r.scratchBits
             s == ShiftRight(r.scratch, n)
             t == [i \in 1 .. n |-> r.scratch[i - 1]]
             o == r.output \o t
  <1>1. /\ r \in ReaderType /\ r.asserts /\ b \in 0 .. 2 * WordBits - 1
        /\ a + b = r.wordIndex * WordBits /\ r.wordIndex <= ReadWords
        /\ \A i \in Register : r.scratch[i] = IF i < b THEN Written(a + i) ELSE Zero
        /\ Returned(r.output, a)
    BY DEF Loaded, ReaderType, Returned
  <1>2. /\ r.wordIndex \in Nat /\ a \in Nat /\ b \in Int /\ r.scratch \in [Register -> Bit]
        /\ WordBits \in Nat \ {0} /\ n \in Nat
    BY <1>1, WordFacts DEF ReaderType
  <1>3. \A i \in Register : i \in Nat
    BY BufferFacts
  <1>4. ASSUME NEW i \in 1 .. n PROVE t[i] = Written(a + (i - 1)) /\ t[i] \in Bit
    <2>1. i - 1 \in Register /\ i - 1 < b
      BY <1>2, BufferFacts
    <2> QED
      BY <1>1, <1>2, <2>1
  <1>5. t \in [1 .. n -> Bit]
    BY <1>4
  <1>6. ASSUME NEW i \in Register
        PROVE  /\ s[i] = IF i < b - n THEN Written((a + n) + i) ELSE Zero
               /\ s[i] \in Bit
    <2>1. s[i] = IF i + n \in Register THEN r.scratch[i + n] ELSE Zero
      BY DEF ShiftRight
    <2>2. CASE i + n \in Register
      <3>1. (i + n < b <=> i < b - n) /\ a + (i + n) = (a + n) + i
        BY <1>2, <1>3
      <3>2. r.scratch[i + n] = (IF i + n < b THEN Written(a + (i + n)) ELSE Zero)
        BY <1>1, <2>2
      <3>3. r.scratch[i + n] \in Bit
        BY <1>2, <2>2
      <3> QED
        BY <2>1, <2>2, <3>1, <3>2, <3>3
    <2>3. CASE i + n \notin Register
      <3>1. ~ (i < b - n)
        <4>1. i + n >= 2 * WordBits
          BY <1>2, <1>3, <2>3, BufferFacts
        <4>2. b <= 2 * WordBits - 1
          BY <1>1
        <4> QED
          BY <1>2, <1>3, <4>1, <4>2
      <3> QED
        BY <2>1, <2>3, <3>1, BufferFacts
    <2> QED
      BY <2>2, <2>3
  <1>7. s \in [Register -> Bit]
    BY <1>6 DEF ShiftRight
  <1> HIDE DEF s, t
  <1>8. Returned(o, a + n)
    BY <1>1, <1>2, <1>4, <1>5, Appended
  <1>9. x = [r EXCEPT !.asserts = @ /\ r.scratchBits >= n, !.scratch = s,
                      !.scratchBits = @ - n, !.bitsRead = @ + n, !.output = o]
    BY DEF Take, s, t
  <1> HIDE DEF x, o
  <1>10. /\ x.scratch = s /\ x.scratchBits = b - n /\ x.wordIndex = r.wordIndex /\ x.output = o
         /\ x.asserts = (r.asserts /\ r.scratchBits >= n)
    BY <1>1, <1>9 DEF ReaderType
  <1>11. x.bitsRead = a + n
    BY <1>1, <1>9 DEF ReaderType
  <1>12. x = [scratch |-> x.scratch, scratchBits |-> x.scratchBits, wordIndex |-> x.wordIndex,
              bitsRead |-> x.bitsRead, asserts |-> x.asserts, output |-> x.output]
    BY <1>1, <1>9 DEF ReaderType
  <1> HIDE DEF a, b
  <1>13. b >= n /\ b - n < WordBits /\ a + n <= NumBytes * ByteBits
    BY <1>2 DEF a, b
  <1>14. x \in ReaderType
    <2>1. /\ x.scratch \in [Register -> Bit] /\ x.scratchBits \in Int /\ x.wordIndex \in Nat
          /\ x.bitsRead \in Nat /\ x.output \in Seq(Bit)
      BY <1>2, <1>7, <1>8, <1>10, <1>11 DEF Returned
    <2>2. x.asserts \in BOOLEAN
      BY <1>10, Zenon
    <2> QED
      BY <1>12, <2>1, <2>2 DEF ReaderType
  <1>15. x.asserts
    BY <1>1, <1>10, <1>13 DEF b
  <1>16. /\ x.scratchBits \in 0 .. 2 * WordBits - 1 /\ x.scratchBits < WordBits
         /\ x.bitsRead + x.scratchBits = x.wordIndex * WordBits
    <2>1. b - n \in 0 .. 2 * WordBits - 1 /\ b - n < WordBits
      BY <1>2, <1>13
    <2>2. (a + n) + (b - n) = a + b
      BY <1>2
    <2> QED
      BY <1>1, <1>10, <1>11, <2>1, <2>2
  <1>17. \A i \in Register :
            x.scratch[i] = IF i < x.scratchBits THEN Written(x.bitsRead + i) ELSE Zero
    BY <1>6, <1>10, <1>11
  <1>18. /\ Len(x.output) = x.bitsRead
         /\ \A i \in 1 .. x.bitsRead : x.output[i] = Written(i - 1)
    BY <1>8, <1>10, <1>11 DEF Returned
  <1>19. x.wordIndex <= ReadWords /\ x.bitsRead <= NumBytes * ByteBits
    BY <1>1, <1>10, <1>11, <1>13
  <1>20. Loaded(x)
    BY <1>14, <1>15, <1>16, <1>17, <1>18, <1>19 DEF Loaded
  <1> QED
    BY <1>11, <1>16, <1>20 DEF ReaderOK, x, a

(* The reader x is r when n more bits are read. *)
Gave(r, x, n) == ReaderOK(x) /\ x.bitsRead = r.bitsRead + n

LEMMA GetBitsOK ==
    ASSUME Readable, NEW r, ReaderOK(r), NEW n \in 1 .. WordBits,
           r.bitsRead + n <= NumBytes * ByteBits
    PROVE  Gave(r, GetBits(r, n), n)
  <1>1. /\ Loaded(r) /\ r.scratchBits \in Int /\ WordBits \in Nat /\ n \in Nat
        /\ r.scratchBits >= 0 /\ r.scratchBits < WordBits
    <2>1. Loaded(r) /\ r.scratchBits < WordBits /\ r.scratchBits \in 0 .. 2 * WordBits - 1
      BY DEF ReaderOK, Loaded
    <2> QED
      BY <2>1, WordFacts
  <1>2. CASE r.scratchBits < n
    <2> DEFINE y == Fetch(r)
    <2>1. Loaded(y) /\ y.bitsRead = r.bitsRead /\ y.scratchBits = r.scratchBits + WordBits
      BY <1>2, FetchOK
    <2>2. GetBits(r, n) = Take(y, n)
      BY <1>2 DEF GetBits
    <2> HIDE DEF y
    <2>3. n <= y.scratchBits /\ y.scratchBits - n < WordBits
      BY <1>1, <1>2, <2>1
    <2>4. y.bitsRead + n <= NumBytes * ByteBits
      BY <2>1
    <2>5. Gave(y, Take(y, n), n)
      BY <2>1, <2>3, <2>4, TakeOK DEF Gave
    <2> QED
      BY <2>1, <2>2, <2>5 DEF Gave
  <1>3. CASE r.scratchBits >= n
    <2>1. GetBits(r, n) = Take(r, n)
      BY <1>1, <1>3 DEF GetBits
    <2>2. n <= r.scratchBits /\ r.scratchBits - n < WordBits
      BY <1>1, <1>3
    <2>3. Gave(r, Take(r, n), n)
      BY <1>1, <2>2, TakeOK DEF Gave
    <2> QED
      BY <2>1, <2>3
  <1> QED
    BY <1>1, <1>2, <1>3

LEMMA GetByteOK ==
    ASSUME Readable, NEW r, ReaderOK(r), r.bitsRead + ByteBits <= NumBytes * ByteBits
    PROVE  Gave(r, GetByte(r), ByteBits)
  <1>1. ByteBits \in 1 .. WordBits
    BY PackerAssumption DEF WordBits
  <1> QED
    BY <1>1, GetBitsOK DEF GetByte

LEMMA ReaderNumbers ==
    ASSUME NEW r, ReaderOK(r)
    PROVE  /\ r.bitsRead \in Nat /\ r.wordIndex \in Nat /\ r.scratchBits \in 0 .. WordBits - 1
           /\ r.wordIndex * WordBits \in Nat
           /\ r.bitsRead + r.scratchBits = r.wordIndex * WordBits
           /\ r.bitsRead <= NumBytes * ByteBits
  <1>1. /\ r.bitsRead \in Nat /\ r.wordIndex \in Nat /\ WordBits \in Nat
        /\ r.scratchBits \in 0 .. 2 * WordBits - 1 /\ r.scratchBits < WordBits
        /\ r.bitsRead + r.scratchBits = r.wordIndex * WordBits
        /\ r.bitsRead <= NumBytes * ByteBits
    BY WordFacts DEF ReaderOK, Loaded, ReaderType
  <1>2. r.wordIndex * WordBits \in Nat
    BY <1>1, Multiples
  <1>3. r.scratchBits \in 0 .. WordBits - 1
    BY <1>1
  <1> QED
    BY <1>1, <1>2, <1>3

LEMMA GetBytesOK ==
    ASSUME Readable, NEW r, ReaderOK(r), NEW n \in 0 .. 3,
           r.bitsRead + n * ByteBits <= NumBytes * ByteBits
    PROVE  Gave(r, GetBytes(r, n), n * ByteBits)
  <1> DEFINE x1 == GetByte(r)
             x2 == GetByte(x1)
             x3 == GetByte(x2)
  <1>1. ByteBits \in Nat /\ NumBytes * ByteBits \in Nat /\ r.bitsRead \in Nat
    BY WordFacts, SentFacts, ReaderNumbers
  <1>2. CASE n = 0
    BY <1>1, <1>2 DEF GetBytes, Gave
  <1>3. /\ n >= 1 => r.bitsRead + ByteBits <= NumBytes * ByteBits
        /\ n >= 2 => r.bitsRead + ByteBits + ByteBits <= NumBytes * ByteBits
        /\ n = 3 => r.bitsRead + ByteBits + ByteBits + ByteBits <= NumBytes * ByteBits
    <2>1. n \in {0, 1, 2, 3}
      OBVIOUS
    <2>2. PICK total : total = NumBytes * ByteBits
      OBVIOUS
    <2> QED
      BY <1>1, <2>1, <2>2
  <1>4. n >= 1 => ReaderOK(x1) /\ x1.bitsRead = r.bitsRead + ByteBits
    BY <1>1, <1>3, GetByteOK DEF Gave
  <1> HIDE DEF x1
  <1>5. n >= 2 => ReaderOK(x2) /\ x2.bitsRead = r.bitsRead + ByteBits + ByteBits
    BY <1>1, <1>3, <1>4, GetByteOK DEF Gave
  <1> HIDE DEF x2
  <1>6. n = 3 => ReaderOK(x3) /\ x3.bitsRead = r.bitsRead + ByteBits + ByteBits + ByteBits
    BY <1>1, <1>3, <1>5, GetByteOK DEF Gave
  <1>7. CASE n = 1
    BY <1>1, <1>4, <1>7 DEF GetBytes, Gave, x1
  <1>8. CASE n = 2
    BY <1>1, <1>5, <1>8 DEF GetBytes, Gave, x1, x2
  <1>9. CASE n = 3
    BY <1>1, <1>6, <1>9 DEF GetBytes, Gave, x1, x2
  <1> QED
    BY <1>2, <1>7, <1>8, <1>9

(* Whole words come from the buffer, when none of their bits is in the        *)
(* register.                                                                  *)
LEMMA FetchWordsOK ==
    ASSUME Readable, NEW r, ReaderOK(r), r.scratchBits = 0, NEW words \in Nat,
           r.bitsRead + words * WordBits <= NumBytes * ByteBits
    PROVE  Gave(r, FetchWords(r, words), words * WordBits)
  <1> DEFINE x == FetchWords(r, words)
             k == r.wordIndex
             a == r.bitsRead
             size == words * WordBits
             total == ReadWords * WordBits
             t == [i \in 1 .. size |-> Word(k + (i - 1) \div WordBits)[(i - 1) % WordBits]]
             o == r.output \o t
  <1>1. CASE words = 0
    <2>1. r.bitsRead + 0 * WordBits = r.bitsRead
      BY WordFacts, ReaderNumbers
    <2> QED
      BY <1>1, <2>1 DEF FetchWords, Gave
  <1>2. CASE words # 0
    <2>1. /\ r \in ReaderType /\ r.asserts /\ r.scratchBits = 0
          /\ a + 0 = k * WordBits /\ Returned(r.output, a)
          /\ r.scratch \in [Register -> Bit] /\ \A i \in Register : r.scratch[i] = Zero
      <3>1. \A i \in Register : ~ (i < 0)
        BY BufferFacts
      <3> QED
        BY <3>1 DEF ReaderOK, Loaded, ReaderType, Returned
    <2>2. k \in Nat /\ a \in Nat /\ WordBits \in Nat \ {0}
      BY WordFacts, ReaderNumbers
    <2>3. /\ size \in Nat /\ a = k * WordBits /\ (k + words) * WordBits = a + size
          /\ a + size <= NumBytes * ByteBits
      BY <2>1, <2>2, Multiples
    <2>4. /\ ReadWords \in Nat /\ total \in Nat /\ NumBytes * ByteBits \in Nat
          /\ NumBytes * ByteBits <= total
      BY SentFacts
    <2> HIDE DEF size, total, a, k
    <2>5. a + size <= total
      BY <2>2, <2>3, <2>4
    <2>6. ASSUME NEW i \in 1 .. size PROVE t[i] = Written(a + (i - 1)) /\ t[i] \in Bit
      <3> DEFINE q == (i - 1) \div WordBits
                 m == (i - 1) % WordBits
                 p == (k + q) * WordBits + m
      <3>1. i - 1 \in Nat /\ i - 1 < size
        BY <2>3
      <3>2. q \in Nat /\ m \in 0 .. WordBits - 1 /\ i - 1 = (q * WordBits) + m
        BY <2>2, <3>1, Quotient
      <3>3. t[i] = Word(k + q)[m]
        OBVIOUS
      <3> HIDE DEF q, m, t
      <3>4. p = a + (i - 1)
        <4>1. (k + q) * WordBits = k * WordBits + q * WordBits
          BY <2>2, <3>2, Multiples
        <4>2. q * WordBits \in Nat
          BY <2>2, <3>2, Multiples
        <4>3. (k + q) * WordBits = a + q * WordBits
          BY <2>3, <4>1
        <4> HIDE DEF p
        <4>4. p = (a + q * WordBits) + m
          BY <4>3 DEF p
        <4> QED
          BY <2>2, <3>2, <4>2, <4>4
      <3>5. p \in Nat /\ p < total
        BY <2>2, <2>3, <2>4, <2>5, <3>1, <3>4
      <3>6. p \in Buffer /\ writer.data[p] = Written(p) /\ Written(p) \in Bit
        BY <3>5, SentFacts DEF total
      <3>7. Word(k + q)[m] = Written(p)
        BY <3>2, <3>6 DEF Word
      <3> QED
        BY <3>3, <3>4, <3>6, <3>7
    <2>7. t \in [1 .. size -> Bit]
      BY <2>6
    <2> HIDE DEF t
    <2>8. Returned(o, a + size)
      BY <2>1, <2>2, <2>3, <2>6, <2>7, Appended
    <2>9. x = [r EXCEPT !.asserts = @ /\ r.bitsRead % WordBits = 0, !.output = o,
                        !.bitsRead = @ + size, !.wordIndex = @ + words, !.scratchBits = 0]
      BY <1>2 DEF FetchWords, size, t, k
    <2>10. r.bitsRead % WordBits = 0
      <3>1. a \div WordBits = k => a % WordBits = a - k * WordBits
        BY <2>2, WordOf
      <3>2. a \div WordBits = k
        BY <2>2, <2>3, WordOf
      <3> QED
        BY <2>2, <2>3, <3>1, <3>2 DEF a
    <2> HIDE DEF x, o
    <2>11. /\ x.scratch = r.scratch /\ x.scratchBits = 0 /\ x.output = o
           /\ x.asserts = (r.asserts /\ r.bitsRead % WordBits = 0)
      BY <2>1, <2>9 DEF ReaderType
    <2>12. x.bitsRead = a + size /\ x.wordIndex = k + words
      BY <2>1, <2>9 DEF ReaderType, a, k
    <2>13. x = [scratch |-> x.scratch, scratchBits |-> x.scratchBits, wordIndex |-> x.wordIndex,
                bitsRead |-> x.bitsRead, asserts |-> x.asserts, output |-> x.output]
      BY <2>1, <2>9 DEF ReaderType
    <2>14. x \in ReaderType
      <3>1. /\ x.scratch \in [Register -> Bit] /\ x.scratchBits \in Int /\ x.wordIndex \in Nat
            /\ x.bitsRead \in Nat /\ x.output \in Seq(Bit)
        BY <2>1, <2>2, <2>3, <2>8, <2>11, <2>12 DEF Returned
      <3>2. x.asserts \in BOOLEAN
        BY <2>11, Zenon
      <3> QED
        BY <2>13, <3>1, <3>2 DEF ReaderType
    <2>15. x.asserts
      BY <2>1, <2>10, <2>11
    <2>16. /\ x.scratchBits \in 0 .. 2 * WordBits - 1 /\ x.scratchBits < WordBits
           /\ x.bitsRead + x.scratchBits = x.wordIndex * WordBits
      <3>1. x.wordIndex * WordBits = a + size
        BY <2>3, <2>12
      <3> QED
        BY <2>2, <2>3, <2>11, <2>12, <3>1
    <2>17. x.wordIndex <= ReadWords /\ x.bitsRead <= NumBytes * ByteBits
      <3>1. ReadWords < k + words => total + WordBits <= (k + words) * WordBits
        <4>1. k + words \in Nat
          BY <2>2
        <4> QED
          BY <2>2, <2>4, <4>1, Multiples DEF total
      <3>2. ~ (ReadWords < k + words)
        BY <2>2, <2>3, <2>4, <2>5, <3>1
      <3> QED
        BY <2>2, <2>3, <2>4, <2>12, <3>2
    <2>18. \A i \in Register :
              x.scratch[i] = IF i < x.scratchBits THEN Written(x.bitsRead + i) ELSE Zero
      <3>1. \A i \in Register : ~ (i < 0)
        BY BufferFacts
      <3> QED
        BY <2>1, <2>11, <3>1
    <2>19. /\ Len(x.output) = x.bitsRead
           /\ \A i \in 1 .. x.bitsRead : x.output[i] = Written(i - 1)
      BY <2>8, <2>11, <2>12 DEF Returned
    <2>20. ReaderOK(x)
      BY <2>14, <2>15, <2>16, <2>17, <2>18, <2>19 DEF ReaderOK, Loaded
    <2> QED
      BY <2>12, <2>20 DEF Gave, x, a, size
  <1> QED
    BY <1>1, <1>2

LEMMA GetArrayOK ==
    ASSUME Readable, NEW r, ReaderOK(r), NEW n \in Nat, r.bitsRead % ByteBits = 0,
           r.bitsRead + n * ByteBits <= NumBytes * ByteBits
    PROVE  Gave(r, GetArray(r, n), n * ByteBits)
  <1> DEFINE head  == HeadBytes(r.bitsRead, n)
             words == (n - head) \div 4
             tail  == n - head - 4 * words
             x1 == GetBytes(r, head)
             x2 == FetchWords(x1, words)
             x3 == GetBytes(x2, tail)
             total == NumBytes * ByteBits
  <1>1. GetArray(r, n) = IF head = n THEN GetBytes(r, n) ELSE x3
    BY DEF GetArray
  <1>2. r.bitsRead \in Nat /\ total \in Nat /\ ByteBits \in Nat
    BY WordFacts, SentFacts, ReaderNumbers
  <1>3. /\ head \in 0 .. 3 /\ head <= n
        /\ head # n => \E k \in Nat : r.bitsRead + head * ByteBits = k * WordBits
        /\ words \in Nat /\ tail \in 0 .. 3
        /\ head * ByteBits + words * WordBits + tail * ByteBits = n * ByteBits
    <2>1. head = HeadBytes(r.bitsRead, n)
      OBVIOUS
    <2> HIDE DEF head
    <2>2. head \in 0 .. 3 /\ head <= n
      BY <1>2, <2>1, Portions
    <2>3. head # n => \E k \in Nat : r.bitsRead + head * ByteBits = k * WordBits
      BY <1>2, <2>1, Portions
    <2>4. words \in Nat /\ tail \in 0 .. 3
      BY <1>2, <2>1, Portions
    <2>5. head * ByteBits + words * WordBits + tail * ByteBits = n * ByteBits
      BY <1>2, <2>1, Portions
    <2> QED
      BY <2>2, <2>3, <2>4, <2>5
  <1>4. /\ head * ByteBits \in Nat /\ words * WordBits \in Nat /\ tail * ByteBits \in Nat
        /\ n * ByteBits \in Nat
    <2> HIDE DEF head, words, tail
    <2>1. head \in Nat /\ tail \in Nat /\ WordBits \in Nat
      BY <1>3, WordFacts
    <2> QED
      BY <1>2, <1>3, <2>1, Multiples
  <1> HIDE DEF head, words, tail, x2, x3, total
  <1>a. /\ r.bitsRead + head * ByteBits <= NumBytes * ByteBits
        /\ (r.bitsRead + head * ByteBits) + words * WordBits <= NumBytes * ByteBits
        /\ ((r.bitsRead + head * ByteBits) + words * WordBits) + tail * ByteBits <= NumBytes * ByteBits
    <2>1. r.bitsRead + n * ByteBits <= total
      BY DEF total
    <2>2. PICK h, s, t : h = head * ByteBits /\ s = words * WordBits /\ t = tail * ByteBits
      OBVIOUS
    <2>3. /\ r.bitsRead + h <= total /\ (r.bitsRead + h) + s <= total
          /\ ((r.bitsRead + h) + s) + t <= total
      BY <1>2, <1>3, <1>4, <2>1, <2>2
    <2> QED
      BY <2>2, <2>3 DEF total
  <1>5. Gave(r, x1, head * ByteBits)
    BY <1>3, <1>a, GetBytesOK
  <1> HIDE DEF x1
  <1>6. CASE head = n
    BY <1>1, <1>5, <1>6 DEF x1
  <1>7. CASE head # n
    <2>1. ReaderOK(x1) /\ x1.bitsRead = r.bitsRead + head * ByteBits
      BY <1>5 DEF Gave
    <2>2. x1.scratchBits = 0
      <3>1. PICK k \in Nat : x1.bitsRead = k * WordBits
        BY <1>3, <1>7, <2>1
      <3> DEFINE b == x1.scratchBits
                 i == x1.wordIndex
      <3>2. /\ i \in Nat /\ b \in 0 .. WordBits - 1 /\ x1.bitsRead \in Nat
            /\ x1.bitsRead + b = i * WordBits
        BY <2>1, ReaderNumbers
      <3>3. 0 \in 0 .. WordBits - 1 /\ WordBits \in Nat \ {0}
        BY WordFacts
      <3> HIDE DEF b, i
      <3>4. k * WordBits + b = i * WordBits + 0
        <4>1. i * WordBits \in Nat
          BY <3>2, <3>3, Multiples
        <4> QED
          BY <3>1, <3>2, <4>1
      <3>5. b = 0
        BY <3>1, <3>2, <3>3, <3>4, SameMultiple
      <3> QED
        BY <3>5 DEF b
    <2>3. Gave(x1, x2, words * WordBits)
      BY <1>3, <1>a, <2>1, <2>2, FetchWordsOK DEF x2
    <2>4. ReaderOK(x2) /\ x2.bitsRead = x1.bitsRead + words * WordBits
      BY <2>3 DEF Gave
    <2>5. Gave(x2, x3, tail * ByteBits)
      BY <1>3, <1>a, <2>1, <2>4, GetBytesOK DEF x3
    <2>6. Gave(r, x3, n * ByteBits)
      BY <1>2, <1>3, <1>4, <2>1, <2>4, <2>5 DEF Gave
    <2> QED
      BY <1>1, <1>7, <2>6
  <1> QED
    BY <1>6, <1>7

(* ReadAlign ends inside the last byte that was sent. *)
LEMMA GetAlignOK ==
    ASSUME Readable, NEW r, ReaderOK(r), NEW n, n = AlignBits(r.bitsRead), n # 0
    PROVE  Gave(r, GetBits(r, n), n)
  <1>1. r.bitsRead \in Nat /\ r.bitsRead <= NumBytes * ByteBits /\ NumBytes \in Nat
    BY ReaderNumbers DEF Readable
  <1>2. n \in 0 .. ByteBits - 1 /\ r.bitsRead + n <= NumBytes * ByteBits
    BY <1>1, AlignStays
  <1>3. n \in 1 .. WordBits
    BY <1>2, PackerAssumption DEF WordBits
  <1> QED
    BY <1>2, <1>3, GetBitsOK

-----------------------------------------------------------------------------
\* The invariant: a writer is right until it is flushed, and what is sent can
\* be read from then on.

PackerInv == /\ lang \in Lang
             /\ \/ phase = "write" /\ WriterOK(writer, pads) /\ reader = NewReader
                \/ phase = "read" /\ Readable /\ ReaderOK(reader)

LEMMA NewWriterOK == WriterOK(NewWriter, {})
  <1> DEFINE d == [p \in Buffer |-> Stale]
             x == NewWriter
  <1>1. d \in [Buffer -> Bit] /\ Empty \in [Register -> Bit]
    BY BufferFacts DEF Bit, Empty
  <1>2. \A i \in Register : Empty[i] = Zero /\ ~ (i < 0)
    BY BufferFacts DEF Empty
  <1>3. x = [data |-> d, scratch |-> Empty, scratchBits |-> 0, wordIndex |-> 0,
             bitsWritten |-> 0, asserts |-> TRUE]
    BY DEF NewWriter
  <1> HIDE DEF d
  <1>4. x \in WriterType /\ x.asserts
    BY <1>1, <1>3 DEF WriterType
  <1>5. x.scratch = Empty /\ x.scratchBits = 0 /\ x.wordIndex = 0 /\ x.bitsWritten = 0
    BY <1>3
  <1> HIDE DEF x
  <1>6. WordBits \in Nat \ {0} /\ NumWords * WordBits \in Nat /\ 0 * WordBits = 0
    BY WordFacts, BufferFacts
  <1>7. \A p \in Buffer : ~ (p < 0)
    BY BufferFacts
  <1>8. /\ x.scratchBits \in 0 .. WordBits - 1
        /\ x.wordIndex * WordBits + x.scratchBits = x.bitsWritten
        /\ x.bitsWritten <= NumWords * WordBits
    BY <1>5, <1>6
  <1>9. \A p \in Buffer : p < x.wordIndex * WordBits => x.data[p] = BitAt(p, {})
    BY <1>5, <1>6, <1>7
  <1>10. \A i \in Register :
          x.scratch[i] = IF i < x.scratchBits THEN BitAt(x.wordIndex * WordBits + i, {}) ELSE Zero
    BY <1>2, <1>5
  <1>11. WriterOK(x, {})
    BY <1>4, <1>8, <1>9, <1>10 DEF WriterOK
  <1> QED
    BY <1>11 DEF x

LEMMA NewReaderOK == ASSUME Readable PROVE ReaderOK(NewReader)
  <1> DEFINE x == NewReader
  <1>1. Empty \in [Register -> Bit] /\ << >> \in Seq(Bit) /\ Len(<< >>) = 0
    BY BufferFacts, EmptySeq DEF Empty
  <1>2. \A i \in Register : Empty[i] = Zero /\ ~ (i < 0)
    BY BufferFacts DEF Empty
  <1>3. x = [scratch |-> Empty, scratchBits |-> 0, wordIndex |-> 0, bitsRead |-> 0,
             asserts |-> TRUE, output |-> << >>]
    BY DEF NewReader
  <1>4. x \in ReaderType /\ x.asserts
    BY <1>1, <1>3 DEF ReaderType
  <1>5. /\ x.scratch = Empty /\ x.scratchBits = 0 /\ x.wordIndex = 0 /\ x.bitsRead = 0
        /\ x.output = << >>
    BY <1>3
  <1> HIDE DEF x
  <1>6. WordBits \in Nat \ {0} /\ 0 * WordBits = 0 /\ ReadWords \in Nat /\ NumBytes * ByteBits \in Nat
    BY WordFacts, SentFacts
  <1>7. /\ x.scratchBits \in 0 .. 2 * WordBits - 1 /\ x.scratchBits < WordBits
        /\ x.bitsRead + x.scratchBits = x.wordIndex * WordBits
        /\ x.wordIndex <= ReadWords /\ x.bitsRead <= NumBytes * ByteBits
    BY <1>5, <1>6
  <1>8. /\ \A i \in Register :
              x.scratch[i] = IF i < x.scratchBits THEN Written(x.bitsRead + i) ELSE Zero
        /\ Len(x.output) = x.bitsRead
        /\ \A i \in 1 .. x.bitsRead : x.output[i] = Written(i - 1)
    BY <1>1, <1>2, <1>5
  <1>9. ReaderOK(x)
    BY <1>4, <1>7, <1>8 DEF ReaderOK, Loaded
  <1> QED
    BY <1>9 DEF x

(* The reader and the writer of a step that the other takes no part in. *)
LEMMA ReadStep ==
    ASSUME Readable, NEW r, ReaderOK(r), reader' = r, UNCHANGED <<writer, pads>>
    PROVE  Readable' /\ ReaderOK(reader)'
  <1>1. UNCHANGED <<NumBytes, ReadWords>>
    BY DEF NumBytes, ReadWords
  <1>2. \A p : Written(p)' = Written(p)
    BY DEF Written
  <1>3. Readable'
    BY <1>1, <1>2 DEF Readable
  <1>4. ReaderOK(reader)'
    BY <1>1, <1>2 DEF ReaderOK, Loaded
  <1> QED
    BY <1>3, <1>4

LEMMA PackerInitially == Init => PackerInv
  BY NewWriterOK DEF Init, PackerInv

LEMMA WritesKeepInv ==
    ASSUME PackerInv, phase = "write", phase' = "write", UNCHANGED <<lang, reader>>,
           NEW n, Wrote(writer, writer', pads', n)
    PROVE  PackerInv'
  <1>1. WriterOK(writer', pads') /\ lang \in Lang /\ reader = NewReader
    BY DEF PackerInv, Wrote
  <1>2. reader' = NewReader /\ NewReader' = NewReader
    BY <1>1 DEF NewReader, Empty
  <1>3. WriterOK(writer, pads)'
    BY <1>1
  <1> QED
    BY <1>1, <1>2, <1>3 DEF PackerInv

LEMMA ReadsKeepInv ==
    ASSUME PackerInv, phase = "read", phase' = "read", UNCHANGED <<lang, writer, pads>>,
           NEW n, Gave(reader, reader', n)
    PROVE  PackerInv'
  <1>1. Readable /\ ReaderOK(reader') /\ lang \in Lang
    BY DEF PackerInv, Gave
  <1>2. PICK r : r = reader'
    OBVIOUS
  <1>3. Readable' /\ ReaderOK(reader)'
    BY <1>1, <1>2, ReadStep
  <1> QED
    BY <1>1, <1>3 DEF PackerInv

LEMMA PackerStep == PackerInv /\ [Next]_packerVars => PackerInv'
  <1> SUFFICES ASSUME PackerInv, [Next]_packerVars PROVE PackerInv'
    OBVIOUS
  <1>w. phase = "write" => WriterOK(writer, pads) /\ reader = NewReader
    BY DEF PackerInv
  <1>r. phase = "read" => Readable /\ ReaderOK(reader)
    BY DEF PackerInv
  <1>1. ASSUME NEW n \in 1 .. WordBits, WriteBits(n) PROVE PackerInv'
    <2>1. /\ phase = "write" /\ phase' = "write" /\ pads' = pads /\ UNCHANGED <<lang, reader>>
          /\ writer.bitsWritten + n <= NumWords * WordBits
          /\ writer' = PutBits(writer, Fresh(writer, n), n)
      BY <1>1 DEF WriteBits
    <2>2. Wrote(writer, PutBits(writer, Fresh(writer, n), n), pads, n)
      BY <1>w, <2>1, PutFreshOK
    <2> QED
      BY <2>1, <2>2, WritesKeepInv
  <1>2. ASSUME NEW n \in 1 .. 4 * NumWords, WriteBytes(n) PROVE PackerInv'
    <2>1. /\ phase = "write" /\ phase' = "write" /\ pads' = pads /\ UNCHANGED <<lang, reader>>
          /\ AlignBits(writer.bitsWritten) = 0
          /\ writer.bitsWritten + n * ByteBits <= NumWords * WordBits
          /\ writer' = PutArray(writer, lang, n)
      BY <1>2 DEF WriteBytes
    <2>2. n \in Nat
      BY WordFacts
    <2>3. Wrote(writer, PutArray(writer, lang, n), pads, n * ByteBits)
      BY <1>w, <2>1, <2>2, PutArrayOK
    <2> QED
      BY <2>1, <2>3, WritesKeepInv
  <1>3. ASSUME WriteAlign PROVE PackerInv'
    <2>1. PICK n, qs : n = AlignBits(writer.bitsWritten) /\ qs = {writer.bitsWritten + i : i \in 0 .. n - 1}
      OBVIOUS
    <2>2. /\ phase = "write" /\ phase' = "write" /\ n # 0 /\ UNCHANGED <<lang, reader>>
          /\ writer' = PutBits(writer, ZeroBits(n), n)
          /\ pads' = pads \cup qs
      BY <1>3, <2>1 DEF WriteAlign
    <2>3. Wrote(writer, PutBits(writer, ZeroBits(n), n), pads \cup qs, n)
      BY <1>w, <2>1, <2>2, PutAlignOK
    <2> QED
      BY <2>2, <2>3, WritesKeepInv
  <1>4. ASSUME Flush PROVE PackerInv'
    <2>1. /\ phase = "write" /\ phase' = "read" /\ lang' = lang /\ pads' = pads /\ reader' = reader
          /\ writer' = FlushBits(writer, lang)
      BY <1>4 DEF Flush
    <2>2. Readable'
      BY <1>w, <2>1, FlushOK
    <2>3. (Readable => ReaderOK(NewReader))'
      BY NewReaderOK, PTL
    <2>4. ReaderOK(reader)'
      <3>1. reader' = NewReader'
        BY <1>w, <2>1 DEF NewReader, Empty
      <3> QED
        BY <2>2, <2>3, <3>1
    <2> QED
      BY <2>1, <2>2, <2>4 DEF PackerInv
  <1>5. ASSUME NEW n \in 1 .. WordBits, ReadBits(n) PROVE PackerInv'
    <2>1. /\ phase = "read" /\ phase' = "read" /\ UNCHANGED <<lang, writer, pads>>
          /\ reader.bitsRead + n <= NumBytes * ByteBits
          /\ reader' = GetBits(reader, n)
      BY <1>5 DEF ReadBits
    <2>2. Gave(reader, GetBits(reader, n), n)
      BY <1>r, <2>1, GetBitsOK
    <2> QED
      BY <2>1, <2>2, ReadsKeepInv
  <1>6. ASSUME NEW n \in 1 .. 4 * NumWords, ReadBytes(n) PROVE PackerInv'
    <2>1. /\ phase = "read" /\ phase' = "read" /\ UNCHANGED <<lang, writer, pads>>
          /\ AlignBits(reader.bitsRead) = 0
          /\ reader.bitsRead + n * ByteBits <= NumBytes * ByteBits
          /\ reader' = GetArray(reader, n)
      BY <1>6 DEF ReadBytes
    <2>2. n \in Nat
      BY WordFacts
    <2>3. reader.bitsRead % ByteBits = 0
      <3>1. /\ reader.bitsRead \in Nat /\ reader.bitsRead <= NumBytes * ByteBits
            /\ NumBytes \in Nat
        BY <1>r, <2>1, ReaderNumbers DEF Readable
      <3> QED
        BY <2>1, <3>1, AlignStays
    <2>4. Gave(reader, GetArray(reader, n), n * ByteBits)
      BY <1>r, <2>1, <2>2, <2>3, GetArrayOK
    <2> QED
      BY <2>1, <2>4, ReadsKeepInv
  <1>7. ASSUME ReadAlign PROVE PackerInv'
    <2>1. PICK n : n = AlignBits(reader.bitsRead)
      OBVIOUS
    <2>2. /\ phase = "read" /\ phase' = "read" /\ UNCHANGED <<lang, writer, pads>>
          /\ n # 0 /\ reader' = GetBits(reader, n)
      BY <1>7, <2>1 DEF ReadAlign
    <2>3. Gave(reader, GetBits(reader, n), n)
      BY <1>r, <2>1, <2>2, GetAlignOK
    <2> QED
      BY <2>2, <2>3, ReadsKeepInv
  <1>8. CASE UNCHANGED packerVars
    <2>1. UNCHANGED <<lang, phase, writer, pads, reader>>
      BY <1>8 DEF packerVars
    <2>2. CASE phase = "write"
      <3>1. WriterOK(writer, pads)' /\ NewReader' = NewReader
        BY <1>w, <2>1, <2>2 DEF NewReader, Empty
      <3> QED
        BY <1>w, <2>1, <2>2, <3>1 DEF PackerInv
    <2>3. CASE phase = "read"
      <3>1. Readable' /\ ReaderOK(reader)'
        <4>1. PICK r : r = reader
          OBVIOUS
        <4> QED
          BY <1>r, <2>1, <2>3, <4>1, ReadStep
      <3> QED
        BY <2>1, <2>3, <3>1 DEF PackerInv
    <2> QED
      BY <2>2, <2>3 DEF PackerInv
  <1> QED
    BY <1>1, <1>2, <1>3, <1>4, <1>5, <1>6, <1>7, <1>8 DEF Next

LEMMA PackerAlways == Spec => []PackerInv
  BY PackerInitially, PackerStep, PTL DEF Spec

-----------------------------------------------------------------------------
\* Theorems.

(* The buffer, the register and the indices of BitWriter and BitReader keep  *)
(* their ranges, at any mix of their calls.                                  *)
THEOREM PackerTypeCorrect == Spec => []TypeOK
  <1>1. ASSUME PackerInv PROVE TypeOK
    <2>1. lang \in Lang /\ phase \in {"write", "read"}
      BY <1>1 DEF PackerInv
    <2>2. NumWords * WordBits \in Nat /\ WordBits \in Nat \ {0} /\ NumWords \in Nat
      BY WordFacts, BufferFacts
    <2>3. CASE phase = "write"
      <3>1. WriterOK(writer, pads) /\ reader = NewReader
        BY <1>1, <2>3 DEF PackerInv
      <3>2. /\ writer.wordIndex \in Nat /\ writer.bitsWritten \in Nat
            /\ writer.scratchBits \in 0 .. WordBits - 1
            /\ writer.wordIndex * WordBits \in Nat
            /\ writer.wordIndex * WordBits + writer.scratchBits = writer.bitsWritten
            /\ writer.bitsWritten <= NumWords * WordBits /\ pads \subseteq Buffer
        BY <3>1, WriterNumbers
      <3>3. writer.wordIndex <= NumWords
        <4>1. NumWords < writer.wordIndex =>
                 NumWords * WordBits + WordBits <= writer.wordIndex * WordBits
          BY <2>2, <3>2, Multiples
        <4> QED
          BY <2>2, <3>2, <4>1
      <3>4. writer.data \in [Buffer -> Bit] /\ writer.scratch \in [Register -> Bit]
        BY <3>1 DEF WriterOK, WriterType
      <3>5. /\ reader.scratch \in [Register -> Bit] /\ reader.scratchBits = 0
            /\ reader.bitsRead = 0 /\ reader.wordIndex = 0 /\ reader.output \in Seq(Bit)
        BY <3>1, BufferFacts, EmptySeq DEF NewReader, Empty
      <3>6. 0 \in Register
        BY <2>2, BufferFacts
      <3> QED
        BY <2>1, <2>2, <3>2, <3>3, <3>4, <3>5, <3>6 DEF TypeOK
    <2>4. CASE phase = "read"
      <3>1. Readable /\ ReaderOK(reader)
        BY <1>1, <2>4 DEF PackerInv
      <3>2. /\ writer \in WriterType /\ pads \subseteq Buffer /\ writer.wordIndex \in 0 .. NumWords
            /\ writer.bitsWritten <= NumWords * WordBits
        BY <3>1 DEF Readable
      <3>3. /\ writer.data \in [Buffer -> Bit] /\ writer.scratch \in [Register -> Bit]
            /\ writer.scratchBits \in Int /\ writer.bitsWritten \in 0 .. NumWords * WordBits
        BY <2>2, <3>2 DEF WriterType
      <3>4. /\ reader.bitsRead \in Nat /\ reader.wordIndex \in Nat
            /\ reader.scratchBits \in 0 .. WordBits - 1 /\ reader.bitsRead <= NumBytes * ByteBits
        BY <3>1, ReaderNumbers
      <3>5. /\ reader.scratch \in [Register -> Bit] /\ reader.output \in Seq(Bit)
            /\ reader.wordIndex <= ReadWords /\ ReadWords \in 0 .. NumWords
        BY <3>1 DEF ReaderOK, Loaded, ReaderType, Readable
      <3>6. /\ NumBytes * ByteBits \in Nat /\ ReadWords * WordBits \in Nat
            /\ NumBytes * ByteBits <= ReadWords * WordBits
            /\ ReadWords * WordBits <= NumWords * WordBits
        BY <3>1, SentFacts
      <3>7. reader.scratchBits \in Register /\ reader.wordIndex \in 0 .. NumWords
        BY <2>2, <3>4, <3>5, BufferFacts
      <3>8. reader.bitsRead \in 0 .. NumWords * WordBits
        BY <2>2, <3>4, <3>6
      <3> QED
        BY <2>1, <3>2, <3>3, <3>5, <3>7, <3>8 DEF TypeOK
    <2> QED
      BY <2>1, <2>3, <2>4
  <1> QED
    BY <1>1, PackerAlways, PTL

(* m_wordIndex, m_scratchBits and m_bitsWritten of BitWriter agree after     *)
(* every call of WriteBits, WriteAlign and WriteBytes.                       *)
THEOREM WriterAlwaysBalanced == Spec => []WriterBalanced
  <1>1. PackerInv => WriterBalanced
    BY DEF PackerInv, WriterBalanced, WriterOK
  <1> QED
    BY <1>1, PackerAlways, PTL

(* No assertion of BitWriter.h or BitReader.h fails while their callers stay *)
(* in the buffer, whatever mix of bits, bytes and alignment they ask for.    *)
THEOREM AssertsAlwaysHold == Spec => []AssertsHold
  <1>1. ASSUME PackerInv PROVE AssertsHold
    <2>1. CASE phase = "write"
      BY <1>1, <2>1 DEF PackerInv, WriterOK, NewReader, AssertsHold
    <2>2. CASE phase = "read"
      BY <1>1, <2>2 DEF PackerInv, Readable, ReaderOK, Loaded, AssertsHold
    <2> QED
      BY <1>1, <2>1, <2>2 DEF PackerInv
  <1> QED
    BY <1>1, PackerAlways, PTL

(* ReadBits, ReadAlign and ReadBytes return the bits that WriteBits,         *)
(* WriteAlign and WriteBytes were given, in their order, however the two     *)
(* sides divide them.                                                        *)
THEOREM AlwaysReadBack == Spec => []ReadBack
  <1>1. ASSUME PackerInv PROVE ReadBack
    <2>1. CASE phase = "write"
      BY <1>1, <2>1 DEF PackerInv, NewReader, ReadBack
    <2>2. CASE phase = "read"
      <3>1. /\ reader.output \in Seq(Bit) /\ Len(reader.output) = reader.bitsRead
            /\ \A i \in 1 .. reader.bitsRead : reader.output[i] = Written(i - 1)
        BY <1>1, <2>2 DEF PackerInv, ReaderOK, Loaded, ReaderType
      <3>2. DOMAIN reader.output = 1 .. reader.bitsRead
        BY <3>1, LenProperties
      <3> QED
        BY <3>1, <3>2 DEF ReadBack
    <2> QED
      BY <1>1, <2>1, <2>2 DEF PackerInv
  <1> QED
    BY <1>1, PackerAlways, PTL
=============================================================================
