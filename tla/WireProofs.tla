------------------------------- MODULE WireProofs -------------------------------
(***************************************************************************)
(* From the bytes between the parties to the slots of a buffer, to what    *)
(* the circuits verify and what settlement pays.  First, commitments and   *)
(* their records have one encoding each: what is written is read back,     *)
(* whatever is read was written, and the program's decoder and the         *)
(* client's are the same function, for every base, word size, number of    *)
(* allocations and length of the data.  Then, the properties of Transit    *)
(* and of StagingLayout, for every message, delivery, alteration and size  *)
(* of batch.                                                               *)
(***************************************************************************)
EXTENDS Wire, PayoutProofs


-----------------------------------------------------------------------------
(* Sizes and powers of the base.                                           *)

\* Multiplication is monotone.
LEMMA TimesMonotone ==
    ASSUME NEW a \in Nat, NEW b \in Nat, NEW n \in Nat, a <= b
    PROVE  a * n <= b * n
<1>1. PICK d \in Nat : b = a + d
  <2>1. b - a \in Nat /\ b = a + (b - a)
    OBVIOUS
  <2> QED BY <2>1
<1>2. b * n = a * n + d * n /\ d * n \in Nat
  BY <1>1
<1> QED BY <1>2

\* The sizes, as the provers need them.
LEMMA SizeFacts ==
  /\ Base \in Nat /\ Base >= 3 /\ WordBytes \in Nat /\ WordBytes >= 1
  /\ MaxAllocations \in Nat /\ MaxAllocations >= 1 /\ MaxAllocations < Base
  /\ BytesPerSlot \in Nat /\ BytesPerSlot >= 1 /\ SlotBytes \in Nat
  /\ BytesPerSlot <= SlotBytes /\ 2 * WordBytes <= SlotBytes
  /\ KeyBytes \in Nat /\ KeyBytes <= KeySlots * BytesPerSlot
  /\ SigBytes \in Nat /\ SigBytes <= SigSlots * BytesPerSlot
BY ByteSizes DEF MaxRouteAllocations, KeySlots, SigSlots

\* f holds the powers of the base up to the n-th.
IsPowers(f, n) ==
    f = [d \in 0 .. n |-> IF d = 0 THEN 1 ELSE Base * f[d - 1]]

\* There is such a function, so Powers is one.
LEMMA PowersExist == \A n \in Nat : \E f : IsPowers(f, n)
<1> SUFFICES ASSUME NEW n \in Nat PROVE \E f : IsPowers(f, n)
  OBVIOUS
<1> DEFINE step == [i \in 1 .. n |-> [x \in Nat |-> Base * x]]
<1>1. step \in [1 .. n -> [Nat -> Nat]]
  BY SizeFacts
<1>2. PICK f : Unfolds(f, Nat, n, 1, step)
  <2> HIDE DEF step
  <2> QED BY <1>1, Recursion
<1>3. f \in [0 .. n -> Nat] /\ f[0] = 1 /\ \A i \in 1 .. n : f[i] = step[i][f[i - 1]]
  BY <1>2 DEF Unfolds
<1>4. ASSUME NEW d \in 0 .. n PROVE f[d] = IF d = 0 THEN 1 ELSE Base * f[d - 1]
  <2>1. CASE d = 0
    BY <1>3, <2>1
  <2>2. CASE d # 0
    <3>1. d \in 1 .. n /\ d - 1 \in 0 .. n
      BY <2>2
    <3>2. f[d] = step[d][f[d - 1]] /\ f[d - 1] \in Nat
      BY <1>3, <3>1
    <3> QED BY <2>2, <3>1, <3>2
  <2> QED BY <2>1, <2>2
<1> QED BY <1>3, <1>4 DEF IsPowers

\* Powers is what its recursion says.
LEMMA PowersFacts ==
  /\ \A d \in 0 .. 2 * WordBytes : Powers[d] \in Nat \ {0}
  /\ Powers[0] = 1
  /\ \A d \in 0 .. 2 * WordBytes - 1 : Powers[d + 1] = Base * Powers[d]
<1> DEFINE n == 2 * WordBytes
<1>1. n \in Nat
  BY SizeFacts
<1>2. IsPowers(Powers, n)
  <2>1. \E f : f = [d \in 0 .. n |-> IF d = 0 THEN 1 ELSE Base * f[d - 1]]
    BY <1>1, PowersExist DEF IsPowers
  <2> QED BY <2>1 DEF Powers, IsPowers
<1> HIDE DEF n
<1>3. \A d \in 0 .. n : Powers[d] = IF d = 0 THEN 1 ELSE Base * Powers[d - 1]
  BY <1>2 DEF IsPowers
<1>4. Powers[0] = 1
  BY <1>1, <1>3
<1>5. \A d \in 0 .. n - 1 : Powers[d + 1] = Base * Powers[d]
  BY <1>1, <1>3
<1> DEFINE A == {d \in 0 .. n : Powers[d] \in Nat \ {0}}
<1>6. \A d \in 0 .. n - 1 : d \in A => d + 1 \in A
  BY <1>1, <1>5, SizeFacts
<1>7. 0 .. n \subseteq A
  <2>1. 0 \in A
    BY <1>1, <1>4
  <2> HIDE DEF A
  <2> QED BY <1>1, <1>6, <2>1, Induction
<1> QED BY <1>4, <1>5, <1>7 DEF n

\* The power of a sum of exponents is the product of the powers.
LEMMA PowersAdd ==
  ASSUME NEW d \in Nat, NEW e \in Nat, d + e <= 2 * WordBytes
  PROVE  Powers[d + e] = Powers[d] * Powers[e]
<1> DEFINE A == {j \in 0 .. e : Powers[d + j] = Powers[d] * Powers[j]}
<1>1. 0 \in A
  BY PowersFacts, SizeFacts
<1>2. ASSUME NEW j \in 0 .. e - 1, j \in A PROVE j + 1 \in A
  <2>1. /\ Powers[d + j + 1] = Base * Powers[d + j] /\ Powers[j + 1] = Base * Powers[j]
        /\ Powers[d] \in Nat /\ Powers[j] \in Nat /\ Powers[d + j] = Powers[d] * Powers[j]
    BY <1>2, PowersFacts, SizeFacts
  <2>2. d + (j + 1) = d + j + 1
    OBVIOUS
  <2> DEFINE p == Powers[d]
             q == Powers[j]
  <2>3. Base * (p * q) = p * (Base * q)
    <3> HIDE DEF p, q
    <3> QED BY <2>1, SizeFacts DEF p, q
  <2> QED BY <2>1, <2>2, <2>3
<1>3. 0 .. e \subseteq A
  <2> HIDE DEF A
  <2> QED BY <1>1, <1>2, Induction
<1> QED BY <1>3

-----------------------------------------------------------------------------
(* Little-endian numbers read back.                                        *)

\* LE writes n bytes, the d-th one the d-th digit of the number.
LEMMA LETypes ==
  ASSUME NEW v \in Nat, NEW n \in 0 .. 2 * WordBytes
  PROVE  /\ LE(v, n) \in [1 .. n -> Byte] /\ LE(v, n) \in Seq(Byte) /\ Len(LE(v, n)) = n
         /\ \A d \in 1 .. n : LE(v, n)[d] = (v \div Powers[d - 1]) % Base
<1>1. n \in Nat
  BY SizeFacts
<1>2. ASSUME NEW d \in 1 .. n PROVE (v \div Powers[d - 1]) % Base \in Byte
  <2>1. Powers[d - 1] \in Nat \ {0}
    BY PowersFacts, SizeFacts
  <2>2. v \div Powers[d - 1] \in Nat
    BY <2>1, Quotient
  <2> DEFINE q == v \div Powers[d - 1]
  <2> HIDE DEF q
  <2>3. q \in Nat /\ Base \in Nat \ {0}
    BY <2>2, SizeFacts DEF q
  <2>4. q % Base \in 0 .. Base - 1
    BY <2>3, Quotient
  <2> QED BY <2>4 DEF Byte, q
<1>3. LE(v, n) \in [1 .. n -> Byte]
  BY <1>2 DEF LE
<1> QED BY <1>1, <1>3 DEF LE

\* The terms that LEValue adds, and their running total.
Terms(data) == [d \in 1 .. Len(data) |-> data[d] * Powers[d - 1]]
Upto(data) == RunningTotal(0, Terms(data))

\* The running total of LEValue, term by term; it stays below the next power.
LEMMA ValueUpto ==
  ASSUME NEW n \in 0 .. 2 * WordBytes, NEW data \in Seq(Byte), Len(data) = n
  PROVE  /\ LEValue(data) = Upto(data)[n] /\ Upto(data)[0] = 0
         /\ \A i \in 0 .. n : Upto(data)[i] \in Nat /\ Upto(data)[i] < Powers[i]
         /\ \A i \in 0 .. n - 1 : /\ Upto(data)[i + 1] = Upto(data)[i] + data[i + 1] * Powers[i]
                                  /\ data[i + 1] \in Byte
<1> DEFINE f == Upto(data)
           g == Terms(data)
<1>1. n \in Nat
  BY SizeFacts
<1>2. \A d \in 1 .. n : data[d] \in Byte /\ data[d] \in Nat /\ Powers[d - 1] \in Nat
  BY PowersFacts, SizeFacts DEF Byte
<1>3. g \in [1 .. n -> Int]
  BY <1>2 DEF Terms
<1>4. SumFacts(f, n, 0, g)
  BY <1>1, <1>3, RunningTotalIs DEF Upto
<1>5. /\ f[0] = 0
      /\ \A i \in 1 .. n : f[i] = f[i - 1] + g[i]
  BY <1>4 DEF SumFacts
<1>6. \A i \in 1 .. n : g[i] = data[i] * Powers[i - 1]
  BY DEF Terms
<1>7. LEValue(data) = f[n]
  BY DEF LEValue, Upto, Terms
<1> HIDE DEF f, g
<1>8. \A i \in 0 .. n - 1 : f[i + 1] = f[i] + data[i + 1] * Powers[i]
  BY <1>1, <1>5, <1>6
<1> DEFINE A == {i \in 0 .. n : f[i] \in Nat /\ f[i] < Powers[i]}
<1>9. 0 \in A
  BY <1>1, <1>5, PowersFacts
<1>10. ASSUME NEW i \in 0 .. n - 1, i \in A PROVE i + 1 \in A
  <2>1. /\ f[i] \in Nat /\ f[i] < Powers[i] /\ Powers[i] \in Nat /\ Powers[i + 1] = Base * Powers[i]
    BY <1>1, <1>10, PowersFacts, SizeFacts
  <2>2. data[i + 1] \in 0 .. Base - 1
    BY <1>1, <1>2 DEF Byte
  <2> DEFINE p == Powers[i]
             b == data[i + 1]
  <2>3. b * p + p <= Base * p /\ b * p \in Nat
    <3>1. (b + 1) * p <= Base * p
      <4>1. PICK d \in Nat : Base = b + 1 + d
        <5>1. Base - (b + 1) \in Nat /\ Base = b + 1 + (Base - (b + 1))
          BY <2>2, SizeFacts
        <5> QED BY <5>1
      <4>2. b \in Nat /\ p \in Nat
        BY <2>1, <2>2, SizeFacts
      <4> HIDE DEF b, p
      <4>3. Base * p = (b + 1) * p + d * p /\ d * p \in Nat /\ (b + 1) * p \in Nat
        BY <4>1, <4>2
      <4> QED BY <4>3
    <3>2. b \in Nat /\ p \in Nat
      BY <2>1, <2>2, SizeFacts
    <3> HIDE DEF b, p
    <3>3. (b + 1) * p = b * p + p /\ b * p \in Nat
      BY <3>2
    <3> QED BY <3>1, <3>2, <3>3
  <2>4. f[i + 1] = f[i] + b * p
    BY <1>8
  <2>5. Base * p \in Nat
    BY <2>1, SizeFacts
  <2> QED BY <1>1, <2>1, <2>3, <2>4, <2>5
<1>11. 0 .. n \subseteq A
  <2> HIDE DEF A
  <2> QED BY <1>1, <1>9, <1>10, Induction
<1> QED BY <1>2, <1>5, <1>7, <1>8, <1>11, <1>1 DEF f

\* A number that fits n bytes is what its n bytes are worth.
LEMMA NumberReadsBack ==
  ASSUME NEW n \in 0 .. 2 * WordBytes, NEW v \in Nat, v < Powers[n]
  PROVE  LEValue(LE(v, n)) = v
<1> DEFINE b == LE(v, n)
           f == Upto(b)
           A == {i \in 0 .. n : f[i] = v % Powers[i]}
<1>1. n \in Nat
  BY SizeFacts
<1>2. b \in Seq(Byte) /\ Len(b) = n /\ \A d \in 1 .. n : b[d] = (v \div Powers[d - 1]) % Base
  BY LETypes
<1> HIDE DEF b
<1>3. /\ LEValue(b) = f[n] /\ f[0] = 0
      /\ \A i \in 0 .. n - 1 : f[i + 1] = f[i] + b[i + 1] * Powers[i]
  BY <1>2, ValueUpto
<1> HIDE DEF f
<1>4. 0 \in A
  <2>1. v % 1 = 0
    BY Quotient
  <2> QED BY <1>1, <1>3, <2>1, PowersFacts
<1>5. ASSUME NEW i \in 0 .. n - 1, i \in A PROVE i + 1 \in A
  <2>1. f[i] = v % Powers[i] /\ Powers[i] \in Nat \ {0} /\ Powers[i + 1] = Base * Powers[i]
    BY <1>1, <1>5, PowersFacts, SizeFacts
  <2>2. b[i + 1] = (v \div Powers[i]) % Base
    BY <1>1, <1>2
  <2>3. \A p \in Nat \ {0} : v % (Base * p) = (v % p) + ((v \div p) % Base) * p
    <3> SUFFICES ASSUME NEW p \in Nat \ {0} PROVE v % (Base * p) = (v % p) + ((v \div p) % Base) * p
      OBVIOUS
    <3> DEFINE q == v \div p
               r == v % p
               s == q \div Base
               t == q % Base
    <3>1. q \in Nat /\ r \in 0 .. p - 1 /\ v = q * p + r
      BY Quotient
    <3> HIDE DEF q, r
    <3>2. s \in Nat /\ t \in 0 .. Base - 1 /\ q = s * Base + t
      <4>1. Base \in Nat \ {0}
        BY SizeFacts
      <4> QED BY <3>1, <4>1, Quotient
    <3> HIDE DEF s, t
    <3>3. v = s * (Base * p) + (t * p + r)
      BY <3>1, <3>2, SizeFacts
    <3>4. t * p + r \in 0 .. Base * p - 1
      <4>1. t * p <= (Base - 1) * p
        <5>1. PICK d \in Nat : Base - 1 = t + d
          <6>1. Base - 1 - t \in Nat /\ Base - 1 = t + (Base - 1 - t)
            BY <3>2, SizeFacts
          <6> QED BY <6>1
        <5>2. (Base - 1) * p = t * p + d * p /\ d * p \in Nat /\ t * p \in Nat
          BY <3>2, <5>1, SizeFacts
        <5> QED BY <5>2
      <4>2. (Base - 1) * p = Base * p - p /\ t * p \in Nat /\ Base * p \in Nat
        BY <3>2, SizeFacts
      <4> QED BY <3>1, <4>1, <4>2
    <3>5. Base * p \in Nat \ {0}
      BY SizeFacts
    <3> DEFINE m == Base * p
               x == t * p + r
    <3> HIDE DEF m, x
    <3>6. v % m = x
      BY <3>2, <3>3, <3>4, <3>5, Divides DEF m, x
    <3> QED BY <3>1, <3>6, <3>2 DEF m, x, q, r, t
  <2>4. f[i + 1] = v % Powers[i + 1]
    BY <1>3, <2>1, <2>2, <2>3
  <2> QED BY <1>1, <2>4
<1>6. 0 .. n \subseteq A
  <2> HIDE DEF A
  <2> QED BY <1>1, <1>4, <1>5, Induction
<1>7. v % Powers[n] = v
  <2>1. v = 0 * Powers[n] + v /\ Powers[n] \in Nat \ {0} /\ v \in 0 .. Powers[n] - 1
    BY PowersFacts, SizeFacts
  <2> QED BY <2>1, Divides
<1> QED BY <1>1, <1>3, <1>6, <1>7 DEF b

\* n bytes are worth a number that fits them.
LEMMA ValueBelow ==
  ASSUME NEW n \in 0 .. 2 * WordBytes, NEW data \in Seq(Byte), Len(data) = n
  PROVE  LEValue(data) \in Nat /\ LEValue(data) < Powers[n]
<1>1. n \in 0 .. n
  BY SizeFacts
<1> QED BY <1>1, ValueUpto

\* n bytes are the n bytes of what they are worth.
LEMMA BytesReadBack ==
  ASSUME NEW n \in 0 .. 2 * WordBytes, NEW data \in Seq(Byte), Len(data) = n
  PROVE  LE(LEValue(data), n) = data
<1> DEFINE f == Upto(data)
           v == LEValue(data)
<1>1. n \in Nat
  BY SizeFacts
<1>2. /\ v = f[n] /\ f[0] = 0 /\ v \in Nat
      /\ \A i \in 0 .. n : f[i] \in Nat /\ f[i] < Powers[i]
      /\ \A i \in 0 .. n - 1 : f[i + 1] = f[i] + data[i + 1] * Powers[i] /\ data[i + 1] \in Byte
  BY ValueUpto, ValueBelow
<1> HIDE DEF f, v
<1>3. ASSUME NEW i \in 0 .. n
      PROVE  \E m \in Nat : v = f[i] + Powers[i] * m
  <2> DEFINE A == {j \in 0 .. n - i : \E m \in Nat : f[i + j] = f[i] + Powers[i] * m}
  <2>1. i \in Nat /\ n - i \in Nat /\ Powers[i] \in Nat \ {0}
    BY <1>1, PowersFacts, SizeFacts
  <2>2. 0 \in A
    <3>1. f[i + 0] = f[i] + Powers[i] * 0
      BY <1>2, <2>1
    <3> QED BY <2>1, <3>1
  <2>3. ASSUME NEW j \in 0 .. n - i - 1, j \in A PROVE j + 1 \in A
    <3>1. PICK m \in Nat : f[i + j] = f[i] + Powers[i] * m
      BY <2>3
    <3>2. i + j \in 0 .. n - 1 /\ (i + j) + 1 = i + (j + 1) /\ j \in Nat
      BY <1>1, <2>1
    <3>3. /\ f[i + (j + 1)] = f[i + j] + data[(i + j) + 1] * Powers[i + j]
          /\ data[(i + j) + 1] \in Byte
      BY <1>2, <3>2
    <3>4. Powers[i + j] = Powers[i] * Powers[j] /\ Powers[j] \in Nat
      <4>1. i + j <= 2 * WordBytes /\ j \in 0 .. 2 * WordBytes
        BY <1>1, <2>1, <3>2, SizeFacts
      <4> QED BY <2>1, <3>2, <4>1, PowersAdd, PowersFacts
    <3> DEFINE b == data[(i + j) + 1]
               p == Powers[i]
               q == Powers[j]
    <3>5. b \in Nat
      BY <3>3, SizeFacts DEF Byte
    <3>6. f[i + (j + 1)] = f[i] + p * m + b * (p * q) /\ p \in Nat /\ q \in Nat /\ f[i] \in Nat
      BY <3>1, <3>3, <3>4, <2>1, <1>2
    <3> HIDE DEF b, p, q
    <3>7. f[i + (j + 1)] = f[i] + p * (m + b * q) /\ m + b * q \in Nat
      BY <3>5, <3>6
    <3>8. j + 1 \in 0 .. n - i
      BY <2>1
    <3> QED BY <3>7, <3>8 DEF p
  <2>4. 0 .. n - i \subseteq A
    <3> HIDE DEF A
    <3> QED BY <2>1, <2>2, <2>3, Induction
  <2>5. n - i \in A /\ i + (n - i) = n
    <3> HIDE DEF A
    <3>1. n - i \in 0 .. n - i /\ i + (n - i) = n
      BY <2>1, <1>1
    <3> QED BY <2>4, <3>1
  <2> QED BY <1>2, <2>5
<1>4. ASSUME NEW d \in 1 .. n
      PROVE  (v \div Powers[d - 1]) % Base = data[d]
  <2> DEFINE i == d - 1
  <2>1. i \in 0 .. n - 1 /\ i + 1 = d /\ d \in 0 .. n /\ i \in 0 .. n
    BY <1>1
  <2>2. PICK m \in Nat : v = f[d] + Powers[d] * m
    BY <1>3, <2>1
  <2>3. f[d] = f[i] + data[d] * Powers[i] /\ data[d] \in Byte /\ f[i] \in Nat /\ f[i] < Powers[i]
    <3> HIDE DEF i
    <3> QED BY <1>2, <2>1
  <2>4. Powers[d] = Base * Powers[i] /\ Powers[i] \in Nat \ {0}
    <3> HIDE DEF i
    <3> QED BY <2>1, PowersFacts, SizeFacts
  <2> DEFINE p == Powers[i]
             b == data[d]
             r == f[i]
  <2>5. /\ v = r + b * p + (Base * p) * m /\ p \in Nat \ {0} /\ r \in 0 .. p - 1
        /\ b \in 0 .. Base - 1 /\ Base \in Nat \ {0}
    <3>1. Base \in Nat \ {0} /\ b \in 0 .. Base - 1
      BY <2>3, SizeFacts DEF Byte
    <3>2. r \in 0 .. p - 1 /\ p \in Nat \ {0}
      BY <2>3, <2>4
    <3> HIDE DEF p, b, r
    <3>3. f[d] = r + b * p /\ Powers[d] = Base * p
      BY <2>3, <2>4 DEF p, b, r
    <3> QED BY <2>2, <3>1, <3>2, <3>3
  <2> HIDE DEF p, b, r
  <2>6. v = (m * Base + b) * p + r /\ m * Base + b \in Nat
    BY <2>5
  <2>7. v \div p = m * Base + b
    BY <2>5, <2>6, Divides
  <2>8. (m * Base + b) % Base = b
    BY <2>5, Divides
  <2> QED BY <2>7, <2>8 DEF p, b
<1>5. LE(v, n) = [d \in 1 .. n |-> data[d]]
  BY <1>4 DEF LE
<1>6. data = [d \in 1 .. n |-> data[d]]
  OBVIOUS
<1> QED BY <1>5, <1>6 DEF v

-----------------------------------------------------------------------------
(* Words and pairs of words.                                               *)

\* Words, and the base of pairs of words.
LEMMA WordFacts ==
  /\ WordBytes \in 0 .. 2 * WordBytes /\ WordBytes \in Nat
  /\ MaxWord \in Nat /\ MaxWord + 1 = Powers[WordBytes]
  /\ Powers[WordBytes + WordBytes] = (MaxWord + 1) * (MaxWord + 1)
  /\ \A d \in 0 .. MaxAllocations : d \in Word
<1>1. WordBytes \in 0 .. 2 * WordBytes /\ WordBytes \in Nat
  BY SizeFacts
<1>2. Powers[WordBytes] \in Nat \ {0}
  BY <1>1, PowersFacts
<1>3. MaxWord \in Nat /\ MaxWord + 1 = Powers[WordBytes]
  BY <1>2 DEF MaxWord
<1>4. Powers[WordBytes + WordBytes] = Powers[WordBytes] * Powers[WordBytes]
  BY <1>1, PowersAdd
<1>5. MaxAllocations <= MaxWord
  <2> DEFINE w == WordBytes - 1
  <2>1. w \in 0 .. 2 * WordBytes - 1 /\ w + 1 = WordBytes
    BY SizeFacts
  <2> HIDE DEF w
  <2>2. Powers[WordBytes] = Base * Powers[w] /\ Powers[w] \in Nat \ {0}
    BY <2>1, PowersFacts, SizeFacts
  <2>3. \A p \in Nat \ {0} : Base <= Base * p
    <3> SUFFICES ASSUME NEW p \in Nat \ {0} PROVE Base <= Base * p
      OBVIOUS
    <3>1. Base * p = Base + Base * (p - 1) /\ Base * (p - 1) \in Nat
      BY SizeFacts
    <3> QED BY <3>1, SizeFacts
  <2> QED BY <1>3, <2>2, <2>3, SizeFacts
<1> QED BY <1>1, <1>3, <1>4, <1>5, SizeFacts DEF Word

\* pack_pair and unpack_pair are inverse, and a pair fits two words.
LEMMA PairReadsBack ==
  ASSUME NEW lo \in Word, NEW hi \in Word
  PROVE  /\ UnpackPair(PackPair(lo, hi)) = <<lo, hi>>
         /\ PackPair(lo, hi) \in Nat /\ PackPair(lo, hi) < Powers[2 * WordBytes]
<1> DEFINE b == MaxWord + 1
<1>1. b \in Nat \ {0} /\ lo \in 0 .. b - 1 /\ hi \in 0 .. b - 1 /\ lo \in Nat /\ hi \in Nat
  BY WordFacts DEF Word
<1>2. 2 * WordBytes = WordBytes + WordBytes
  BY WordFacts
<1>3. Powers[2 * WordBytes] = b * b
  BY <1>2, WordFacts
<1>4. PackPair(lo, hi) = hi * b + lo
  <2> HIDE DEF b
  <2>1. PackPair(lo, hi) = lo + hi * b
    BY DEF PackPair, b
  <2>2. hi * b \in Nat
    BY <1>1
  <2> QED BY <1>1, <2>1, <2>2
<1>5. UnpackPair(PackPair(lo, hi)) = <<PackPair(lo, hi) % b, PackPair(lo, hi) \div b>>
  BY DEF UnpackPair
<1> HIDE DEF b
<1>6. (hi * b + lo) \div b = hi /\ (hi * b + lo) % b = lo
  BY <1>1, Divides
<1>7. hi * b + lo \in Nat /\ hi * b + lo < b * b
  <2>1. hi * b + b <= b * b
    <3>1. PICK d \in Nat : b = hi + 1 + d
      <4>1. b - (hi + 1) \in Nat /\ b = hi + 1 + (b - (hi + 1))
        BY <1>1
      <4> QED BY <4>1
    <3>2. b * b = (hi + 1 + d) * b /\ d * b \in Nat /\ hi * b \in Nat
      BY <1>1, <3>1
    <3>3. (hi + 1 + d) * b = hi * b + b + d * b
      BY <1>1
    <3> QED BY <1>1, <3>2, <3>3
  <2>2. hi * b \in Nat /\ b * b \in Nat
    BY <1>1
  <2> QED BY <1>1, <2>1, <2>2
<1> QED BY <1>3, <1>4, <1>5, <1>6, <1>7

\* The bytes of a pair are those of its first word, then those of its second.
LEMMA PairBytes ==
  ASSUME NEW lo \in Word, NEW hi \in Word
  PROVE  /\ \A d \in 1 .. WordBytes :
              LE(PackPair(lo, hi), 2 * WordBytes)[d] = LE(lo, WordBytes)[d]
         /\ \A d \in WordBytes + 1 .. 2 * WordBytes :
              LE(PackPair(lo, hi), 2 * WordBytes)[d] = LE(hi, WordBytes)[d - WordBytes]
<1> DEFINE v == PackPair(lo, hi)
           b == Powers[WordBytes]
<1>1. v \in Nat /\ lo \in Nat /\ hi \in Nat /\ lo < b /\ b \in Nat \ {0} /\ WordBytes \in Nat
  BY PairReadsBack, WordFacts, PowersFacts DEF Word
<1>2. v = lo + hi * b
  BY WordFacts DEF PackPair
<1>3. 2 * WordBytes \in 0 .. 2 * WordBytes
  BY WordFacts
<1>4. \A d \in 1 .. 2 * WordBytes : LE(v, 2 * WordBytes)[d] = (v \div Powers[d - 1]) % Base
  BY <1>1, <1>3, LETypes
<1>5. \A d \in 1 .. WordBytes : /\ LE(lo, WordBytes)[d] = (lo \div Powers[d - 1]) % Base
                                /\ LE(hi, WordBytes)[d] = (hi \div Powers[d - 1]) % Base
  BY <1>1, WordFacts, LETypes
<1> HIDE DEF v
<1>6. ASSUME NEW d \in 1 .. WordBytes
      PROVE  (v \div Powers[d - 1]) % Base = (lo \div Powers[d - 1]) % Base
  <2> DEFINE p == Powers[d - 1]
             c == Powers[WordBytes - d]
  <2>1. /\ d - 1 \in Nat /\ WordBytes - d \in Nat
        /\ d - 1 \in 0 .. 2 * WordBytes - 1 /\ (d - 1) + 1 = d /\ d \in 0 .. 2 * WordBytes
        /\ d + (WordBytes - d) = WordBytes /\ d \in Nat
    BY <1>1
  <2>2. p \in Nat \ {0} /\ c \in Nat /\ Powers[d] = Base * p
    <3>1. WordBytes - d \in 0 .. 2 * WordBytes
      BY <2>1, <1>1
    <3> QED BY <2>1, <3>1, PowersFacts
  <2>3. b = Base * p * c
    <3>1. d + (WordBytes - d) <= 2 * WordBytes
      BY <2>1, <1>1
    <3>2. Powers[d + (WordBytes - d)] = Powers[d] * Powers[WordBytes - d]
      BY <2>1, <3>1, PowersAdd
    <3> QED BY <2>1, <2>2, <3>2
  <2> HIDE DEF b, p, c
  <2> DEFINE q == lo \div p
             r == lo % p
             s == q \div Base
             t == q % Base
  <2>4. q \in Nat /\ r \in 0 .. p - 1 /\ lo = q * p + r
    BY <1>1, <2>2, Quotient
  <2> HIDE DEF q, r
  <2>5. s \in Nat /\ t \in 0 .. Base - 1 /\ q = s * Base + t /\ Base \in Nat \ {0}
    <3>1. Base \in Nat \ {0}
      BY SizeFacts
    <3> QED BY <2>4, <3>1, Quotient
  <2> HIDE DEF s, t
  <2>6. v = ((s + hi * c) * Base + t) * p + r
    <3>1. v = (s * Base + t) * p + r + hi * (Base * p * c)
      BY <1>2, <2>3, <2>4, <2>5
    <3>2. hi * (Base * p * c) = (hi * c) * Base * p
      BY <1>1, <2>2, <2>5
    <3>3. hi * c \in Nat
      BY <1>1, <2>2
    <3> DEFINE h == hi * c
    <3> HIDE DEF h
    <3>4. v = (s * Base + t) * p + r + h * Base * p /\ h \in Nat
      BY <3>1, <3>2, <3>3 DEF h
    <3>5. v = ((s + h) * Base + t) * p + r
      BY <2>2, <2>4, <2>5, <3>4
    <3> QED BY <3>5 DEF h
  <2>7. s + hi * c \in Nat
    BY <1>1, <2>2, <2>5
  <2> DEFINE x == s + hi * c
  <2> HIDE DEF x
  <2>8. x \in Nat /\ v = (x * Base + t) * p + r /\ x * Base + t \in Nat
    BY <2>5, <2>6, <2>7 DEF x
  <2>9. v \div p = x * Base + t
    BY <2>2, <2>4, <2>8, Divides
  <2>10. (x * Base + t) % Base = t
    BY <2>5, <2>8, Divides
  <2>11. (lo \div p) % Base = t
    BY DEF q, t
  <2> QED BY <2>9, <2>10, <2>11 DEF p
<1>7. ASSUME NEW d \in WordBytes + 1 .. 2 * WordBytes
      PROVE  v \div Powers[d - 1] = hi \div Powers[d - WordBytes - 1]
  <2> DEFINE e == d - WordBytes - 1
             p == Powers[e]
  <2>1. e \in Nat /\ WordBytes + e = d - 1 /\ WordBytes + e <= 2 * WordBytes
    BY <1>1
  <2>2. Powers[d - 1] = b * p
    <3> HIDE DEF e
    <3> QED BY <2>1, <1>1, PowersAdd
  <2>3. p \in Nat \ {0}
    <3>1. e \in 0 .. 2 * WordBytes
      BY <2>1, <1>1
    <3> QED BY <3>1, PowersFacts
  <2> HIDE DEF e, p, b
  <2> DEFINE q == hi \div p
             r == hi % p
  <2>4. q \in Nat /\ r \in 0 .. p - 1 /\ hi = q * p + r
    BY <1>1, <2>3, Quotient
  <2> HIDE DEF q, r
  <2>5. v = q * (b * p) + (r * b + lo)
    BY <1>1, <1>2, <2>3, <2>4
  <2>6. r * b + lo \in 0 .. b * p - 1
    <3>1. r * b + b <= b * p
      <4>1. PICK y \in Nat : p = r + 1 + y
        <5>1. p - (r + 1) \in Nat /\ p = r + 1 + (p - (r + 1))
          BY <2>3, <2>4
        <5> QED BY <5>1
      <4>2. b * p = r * b + b + y * b /\ y * b \in Nat /\ r * b \in Nat
        BY <1>1, <2>4, <4>1
      <4> QED BY <1>1, <4>2
    <3>2. r * b \in Nat /\ b * p \in Nat
      BY <1>1, <2>3, <2>4
    <3> QED BY <1>1, <3>1, <3>2
  <2>7. b * p \in Nat \ {0}
    BY <1>1, <2>3
  <2> DEFINE m == b * p
             x == r * b + lo
  <2> HIDE DEF m, x
  <2>8. v \div m = q
    BY <2>4, <2>5, <2>6, <2>7, Divides DEF m, x
  <2> QED BY <2>2, <2>8 DEF m, q, p, e
<1>8. ASSUME NEW d \in WordBytes + 1 .. 2 * WordBytes
      PROVE  LE(v, 2 * WordBytes)[d] = LE(hi, WordBytes)[d - WordBytes]
  <2>1. d - WordBytes \in 1 .. WordBytes /\ d \in 1 .. 2 * WordBytes
    BY <1>1
  <2> QED BY <1>4, <1>5, <1>7, <2>1
<1>9. ASSUME NEW d \in 1 .. WordBytes
      PROVE  LE(v, 2 * WordBytes)[d] = LE(lo, WordBytes)[d]
  <2>1. d \in 1 .. 2 * WordBytes
    BY <1>1
  <2> QED BY <1>4, <1>5, <1>6, <2>1
<1> QED BY <1>8, <1>9 DEF v

-----------------------------------------------------------------------------
(* Sequences of words.                                                     *)

\* Words writes word j at the j-th place.
LEMMA WordsAre ==
  ASSUME NEW n \in Nat \ {0}, NEW ns \in [1 .. n -> Word]
  PROVE  /\ Words(ns) \in Seq(Byte) /\ Len(Words(ns)) = WordBytes * n
         /\ \A j \in 1 .. n, d \in 1 .. WordBytes :
               Words(ns)[(j - 1) * WordBytes + d] = LE(ns[j], WordBytes)[d]
<1> DEFINE rows == [j \in DOMAIN ns |-> LE(ns[j], WordBytes)]
<1>1. Len(rows) = n
  OBVIOUS
<1>2. ASSUME NEW j \in 1 .. n
      PROVE  rows[j] \in Seq(Byte) /\ Len(rows[j]) = WordBytes /\ rows[j] = LE(ns[j], WordBytes)
  <2>1. ns[j] \in Nat /\ WordBytes \in 0 .. 2 * WordBytes
    BY WordFacts DEF Word
  <2>2. rows[j] = LE(ns[j], WordBytes)
    OBVIOUS
  <2> HIDE DEF rows
  <2> QED BY <2>1, <2>2, LETypes
<1>3. Words(ns) = FlattenSeq(rows)
  BY DEF Words
<1>4. WordBytes \in Nat \ {0}
  BY SizeFacts
<1> HIDE DEF rows
<1>5. /\ FlattenSeq(rows) \in Seq(Byte) /\ Len(FlattenSeq(rows)) = WordBytes * n
      /\ \A j \in 1 .. n, d \in 1 .. WordBytes :
            FlattenSeq(rows)[(j - 1) * WordBytes + d] = rows[j][d]
  BY <1>1, <1>2, <1>4, FlattenRows
<1> QED BY <1>2, <1>3, <1>5

\* Different words have different bytes.
LEMMA WordsDiffer ==
  ASSUME NEW n \in Nat \ {0}, NEW ns \in [1 .. n -> Word], NEW ms \in [1 .. n -> Word],
         Words(ns) = Words(ms)
  PROVE  ns = ms
<1>1. ASSUME NEW j \in 1 .. n PROVE ns[j] = ms[j]
  <2>1. /\ ns[j] \in Nat /\ ms[j] \in Nat /\ ns[j] < Powers[WordBytes] /\ ms[j] < Powers[WordBytes]
        /\ WordBytes \in 0 .. 2 * WordBytes
    BY WordFacts DEF Word
  <2>2. ASSUME NEW d \in 1 .. WordBytes PROVE LE(ns[j], WordBytes)[d] = LE(ms[j], WordBytes)[d]
    <3>1. /\ Words(ns)[(j - 1) * WordBytes + d] = LE(ns[j], WordBytes)[d]
          /\ Words(ms)[(j - 1) * WordBytes + d] = LE(ms[j], WordBytes)[d]
      BY WordsAre
    <3> QED BY <3>1
  <2>3. LE(ns[j], WordBytes) = LE(ms[j], WordBytes)
    BY <2>1, <2>2, LETypes, SeqEqual
  <2> QED BY <2>1, <2>3, NumberReadsBack
<1> QED BY <1>1

-----------------------------------------------------------------------------
(* The words of a message.                                                 *)

\* Where the elements of a concatenation are.
LEMMA ConcatParts ==
  ASSUME NEW S, NEW s \in Seq(S), NEW t \in Seq(S)
  PROVE  /\ s \o t \in Seq(S) /\ Len(s \o t) = Len(s) + Len(t)
         /\ \A p \in 1 .. Len(s) : (s \o t)[p] = s[p]
         /\ \A p \in 1 .. Len(t) : (s \o t)[Len(s) + p] = t[p]
<1>1. Len(s) \in Nat /\ Len(t) \in Nat
  OBVIOUS
<1>2. ASSUME NEW p \in 1 .. Len(t) PROVE (s \o t)[Len(s) + p] = t[p]
  <2>1. /\ Len(s) + p \in 1 .. Len(s) + Len(t) /\ ~(Len(s) + p <= Len(s))
        /\ (Len(s) + p) - Len(s) = p
    BY <1>1
  <2> QED BY <2>1, ConcatProperties
<1>3. ASSUME NEW p \in 1 .. Len(s) PROVE (s \o t)[p] = s[p]
  <2>1. p \in 1 .. Len(s) + Len(t) /\ p <= Len(s)
    BY <1>1
  <2> QED BY <2>1, ConcatProperties
<1> QED BY <1>2, <1>3, ConcatProperties

\* A sequence of n elements is a function from 1 .. n.
LEMMA SeqOfLen ==
  ASSUME NEW S, NEW n \in Nat, NEW s \in Seq(S), Len(s) = n
  PROVE  s \in [1 .. n -> S]
OBVIOUS

\* What the fields of an allocation fit.
AllocationType == [id : Word, amount : Word]

\* The words of allocations are each one's id, then its amount.
LEMMA AllocationWordsAre ==
  ASSUME NEW n \in Nat \ {0}, NEW s \in [1 .. n -> AllocationType]
  PROVE  /\ AllocationWords(s) \in Seq(Word) /\ Len(AllocationWords(s)) = 2 * n
         /\ \A a \in 1 .. n : /\ AllocationWords(s)[2 * a - 1] = s[a].id
                              /\ AllocationWords(s)[2 * a] = s[a].amount
<1> DEFINE rows == [a \in DOMAIN s |-> <<s[a].id, s[a].amount>>]
<1>1. Len(rows) = n
  OBVIOUS
<1>2. \A a \in 1 .. n : /\ rows[a] \in Seq(Word) /\ Len(rows[a]) = 2
                        /\ rows[a][1] = s[a].id /\ rows[a][2] = s[a].amount
  BY DEF AllocationType
<1>3. AllocationWords(s) = FlattenSeq(rows)
  BY DEF AllocationWords
<1> HIDE DEF rows
<1>4. /\ FlattenSeq(rows) \in Seq(Word) /\ Len(FlattenSeq(rows)) = 2 * n
      /\ \A a \in 1 .. n, d \in 1 .. 2 : FlattenSeq(rows)[(a - 1) * 2 + d] = rows[a][d]
  <2> DEFINE w == 2
  <2>1. w \in Nat \ {0} /\ EqualRows(rows, n, w, Word)
    BY <1>1, <1>2 DEF EqualRows
  <2> HIDE DEF w
  <2>2. HasRows(FlattenSeq(rows), rows, n, w, Word)
    BY <2>1, FlattenHasRows
  <2> QED BY <2>2 DEF w, HasRows
<1>5. ASSUME NEW a \in 1 .. n
      PROVE  /\ FlattenSeq(rows)[2 * a - 1] = s[a].id /\ FlattenSeq(rows)[2 * a] = s[a].amount
  <2>1. (a - 1) * 2 + 1 = 2 * a - 1 /\ (a - 1) * 2 + 2 = 2 * a
    OBVIOUS
  <2>2. FlattenSeq(rows)[(a - 1) * 2 + 1] = rows[a][1] /\ FlattenSeq(rows)[(a - 1) * 2 + 2] = rows[a][2]
    BY <1>4
  <2> QED BY <1>2, <2>1, <2>2
<1> QED BY <1>3, <1>4, <1>5

\* Padding fills the fixed array and keeps the allocations in front.
LEMMA PaddedIs ==
  ASSUME NEW s \in AllocationsType
  PROVE  /\ Padded(s) \in [1 .. MaxAllocations -> AllocationType]
         /\ Len(s) \in 0 .. MaxAllocations /\ s \in [1 .. Len(s) -> AllocationType]
         /\ \A a \in 1 .. Len(s) : Padded(s)[a] = s[a]
<1>1. PICK n \in 0 .. MaxAllocations : s \in [1 .. n -> AllocationType]
  BY DEF AllocationsType, AllocationType
<1>2. n \in Nat /\ Len(s) = n
  BY <1>1, SizeFacts
<1>3. NoAllocation \in AllocationType
  BY WordFacts DEF NoAllocation, AllocationType, Word
<1> QED BY <1>1, <1>2, <1>3, SizeFacts DEF Padded

\* Pairs of words in the body of a message.
Pairs(k) == IF k = RouteKind THEN 2 + MaxAllocations ELSE 1

\* There is at least one.
LEMMA PairsNat == \A k \in Kinds : Pairs(k) \in Nat \ {0} /\ 2 * Pairs(k) \in Nat \ {0}
BY SizeFacts DEF Pairs

\* A message is of one of the two kinds, and has the fields of its kind.
LEMMA MessageKinds ==
  ASSUME NEW m \in MessageType
  PROVE  /\ m.kind \in Kinds /\ m.channel \in Word /\ m.target \in Word
         /\ m.kind = Unilateral => m = [kind |-> Unilateral, channel |-> m.channel, target |-> m.target]
         /\ m.kind = RouteKind => /\ m.base \in Word /\ m.allocations \in AllocationsType
                                  /\ m = [kind |-> RouteKind, channel |-> m.channel, base |-> m.base,
                                          target |-> m.target, allocations |-> m.allocations]
BY DEF MessageType, Kinds, Unilateral, RouteKind

\* The words of a message, each at its place.
LEMMA BodyWordsAre ==
  ASSUME NEW m \in MessageType
  PROVE  /\ BodyWords(m) \in [1 .. 2 * Pairs(m.kind) -> Word]
         /\ m.kind = Unilateral => BodyWords(m)[1] = m.channel /\ BodyWords(m)[2] = m.target
         /\ m.kind = RouteKind =>
              /\ BodyWords(m)[1] = m.channel /\ BodyWords(m)[2] = m.base
              /\ BodyWords(m)[3] = m.target /\ BodyWords(m)[4] = Len(m.allocations)
              /\ \A a \in 1 .. MaxAllocations :
                    /\ BodyWords(m)[2 * a + 3] = Padded(m.allocations)[a].id
                    /\ BodyWords(m)[2 * a + 4] = Padded(m.allocations)[a].amount
<1>1. CASE m.kind = Unilateral
  <2>1. BodyWords(m) = <<m.channel, m.target>>
    BY <1>1 DEF BodyWords
  <2>2. Pairs(m.kind) = 1 /\ m.kind # RouteKind
    BY <1>1 DEF Pairs, Unilateral, RouteKind
  <2>3. m.channel \in Word /\ m.target \in Word
    BY MessageKinds
  <2> QED BY <2>1, <2>2, <2>3
<1>2. CASE m.kind = RouteKind
  <2> DEFINE head == <<m.channel, m.base, m.target, Len(m.allocations)>>
             tail == AllocationWords(Padded(m.allocations))
  <2>1. BodyWords(m) = head \o tail
    BY <1>2 DEF BodyWords, Unilateral, RouteKind
  <2>2. Pairs(m.kind) = 2 + MaxAllocations /\ m.kind # Unilateral
    BY <1>2 DEF Pairs, Unilateral, RouteKind
  <2>3. /\ m.channel \in Word /\ m.base \in Word /\ m.target \in Word
        /\ m.allocations \in AllocationsType
    BY <1>2, MessageKinds
  <2>4. Padded(m.allocations) \in [1 .. MaxAllocations -> AllocationType] /\ Len(m.allocations) \in Word
    BY <2>3, PaddedIs, WordFacts
  <2>5. MaxAllocations \in Nat \ {0}
    BY SizeFacts
  <2>6. /\ tail \in Seq(Word) /\ Len(tail) = 2 * MaxAllocations
        /\ \A a \in 1 .. MaxAllocations : /\ tail[2 * a - 1] = Padded(m.allocations)[a].id
                                          /\ tail[2 * a] = Padded(m.allocations)[a].amount
    BY <2>4, <2>5, AllocationWordsAre
  <2>7. /\ head \in Seq(Word) /\ Len(head) = 4 /\ head[1] = m.channel /\ head[2] = m.base
        /\ head[3] = m.target /\ head[4] = Len(m.allocations)
    BY <2>3, <2>4
  <2> HIDE DEF head, tail
  <2>8. /\ head \o tail \in Seq(Word) /\ Len(head \o tail) = 2 * (2 + MaxAllocations)
        /\ \A p \in 1 .. 4 : (head \o tail)[p] = head[p]
        /\ \A p \in 1 .. 2 * MaxAllocations : (head \o tail)[4 + p] = tail[p]
    <3>1. /\ head \o tail \in Seq(Word) /\ Len(head \o tail) = Len(head) + Len(tail)
          /\ \A p \in 1 .. Len(head) : (head \o tail)[p] = head[p]
          /\ \A p \in 1 .. Len(tail) : (head \o tail)[Len(head) + p] = tail[p]
      <4>1. head \in Seq(Word) /\ tail \in Seq(Word)
        BY <2>6, <2>7
      <4> QED BY ONLY <4>1, ConcatParts
    <3>2. 4 + 2 * MaxAllocations = 2 * (2 + MaxAllocations)
      BY <2>5
    <3> QED BY <2>6, <2>7, <3>1, <3>2
  <2>9. ASSUME NEW a \in 1 .. MaxAllocations
        PROVE  /\ (head \o tail)[2 * a + 3] = Padded(m.allocations)[a].id
               /\ (head \o tail)[2 * a + 4] = Padded(m.allocations)[a].amount
    <3>1. /\ 2 * a - 1 \in 1 .. 2 * MaxAllocations /\ 2 * a \in 1 .. 2 * MaxAllocations
          /\ 4 + (2 * a - 1) = 2 * a + 3 /\ 4 + 2 * a = 2 * a + 4
      BY <2>5
    <3>2. /\ (head \o tail)[4 + (2 * a - 1)] = tail[2 * a - 1]
          /\ (head \o tail)[4 + 2 * a] = tail[2 * a]
      <4> HIDE DEF head, tail
      <4> QED BY <2>8, <3>1
    <3>3. tail[2 * a - 1] = Padded(m.allocations)[a].id /\ tail[2 * a] = Padded(m.allocations)[a].amount
      BY <2>6
    <3> QED BY <3>1, <3>2, <3>3
  <2>10. head \o tail \in [1 .. 2 * (2 + MaxAllocations) -> Word]
    <3>1. 2 * (2 + MaxAllocations) \in Nat
      BY <2>5
    <3> QED BY <2>8, <3>1, SeqOfLen
  <2>11. /\ BodyWords(m)[1] = m.channel /\ BodyWords(m)[2] = m.base
         /\ BodyWords(m)[3] = m.target /\ BodyWords(m)[4] = Len(m.allocations)
    <3>1. /\ (head \o tail)[1] = head[1] /\ (head \o tail)[2] = head[2]
          /\ (head \o tail)[3] = head[3] /\ (head \o tail)[4] = head[4]
      <4> DEFINE b == head \o tail
      <4>1. 1 \in 1 .. 4 /\ 2 \in 1 .. 4 /\ 3 \in 1 .. 4 /\ 4 \in 1 .. 4
        OBVIOUS
      <4>2. \A p \in 1 .. 4 : b[p] = head[p]
        BY <2>8
      <4> HIDE DEF b
      <4>3. b[1] = head[1] /\ b[2] = head[2] /\ b[3] = head[3] /\ b[4] = head[4]
        BY ONLY <4>1, <4>2
      <4> QED BY <4>3 DEF b
    <3> QED BY ONLY <2>1, <2>7, <3>1
  <2> QED BY <2>1, <2>2, <2>9, <2>10, <2>11
<1> QED BY <1>1, <1>2, MessageKinds DEF Kinds

\* Two messages of a kind with the same words are the same: padding hides no allocation,
\* as the count is one of the words.
LEMMA BodyDiffers ==
  ASSUME NEW m \in MessageType, NEW o \in MessageType, m.kind = o.kind, BodyWords(m) = BodyWords(o)
  PROVE  m = o
<1>1. CASE m.kind = Unilateral
  <2>1. o.kind = Unilateral
    BY <1>1
  <2>2. BodyWords(m)[1] = m.channel /\ BodyWords(m)[2] = m.target
    BY <1>1, BodyWordsAre
  <2>3. BodyWords(o)[1] = o.channel /\ BodyWords(o)[2] = o.target
    BY <2>1, BodyWordsAre
  <2>4. m = [kind |-> Unilateral, channel |-> m.channel, target |-> m.target]
    BY <1>1, MessageKinds
  <2>5. o = [kind |-> Unilateral, channel |-> o.channel, target |-> o.target]
    BY <2>1, MessageKinds
  <2>6. m.channel = o.channel /\ m.target = o.target
    BY <2>2, <2>3
  <2> QED BY <2>4, <2>5, <2>6
<1>2. CASE m.kind = RouteKind
  <2>1. /\ m.channel = o.channel /\ m.base = o.base /\ m.target = o.target
        /\ Len(m.allocations) = Len(o.allocations)
    BY <1>2, BodyWordsAre
  <2>2. m.allocations \in AllocationsType /\ o.allocations \in AllocationsType
    BY <1>2, MessageKinds
  <2>3. ASSUME NEW a \in 1 .. Len(m.allocations) PROVE m.allocations[a] = o.allocations[a]
    <3>1. a \in 1 .. MaxAllocations /\ a \in 1 .. Len(o.allocations)
      BY <2>1, <2>2, PaddedIs, SizeFacts
    <3>2. /\ Padded(m.allocations)[a].id = Padded(o.allocations)[a].id
          /\ Padded(m.allocations)[a].amount = Padded(o.allocations)[a].amount
      <4>1. o.kind = RouteKind
        BY <1>2
      <4>2. /\ BodyWords(m)[2 * a + 3] = Padded(m.allocations)[a].id
            /\ BodyWords(m)[2 * a + 4] = Padded(m.allocations)[a].amount
        BY <1>2, <3>1, BodyWordsAre
      <4>3. /\ BodyWords(o)[2 * a + 3] = Padded(o.allocations)[a].id
            /\ BodyWords(o)[2 * a + 4] = Padded(o.allocations)[a].amount
        BY <4>1, <3>1, BodyWordsAre
      <4> QED BY <4>2, <4>3
    <3>3. Padded(m.allocations)[a] = m.allocations[a] /\ Padded(o.allocations)[a] = o.allocations[a]
      BY <2>2, <3>1, PaddedIs
    <3>4. m.allocations[a] \in AllocationType /\ o.allocations[a] \in AllocationType
      BY <2>2, <3>1, PaddedIs
    <3> QED BY <3>2, <3>3, <3>4 DEF AllocationType
  <2>4. m.allocations = o.allocations
    <3>1. /\ m.allocations \in [1 .. Len(m.allocations) -> AllocationType]
          /\ o.allocations \in [1 .. Len(o.allocations) -> AllocationType]
      BY <2>2, PaddedIs
    <3> QED BY <2>1, <2>3, <3>1
  <2> QED BY <1>2, <2>1, <2>4, MessageKinds
<1> QED BY <1>1, <1>2, MessageKinds DEF Kinds

\* What follows a common prefix is the same if the wholes are.
LEMMA SamePrefix ==
  ASSUME NEW S, NEW a \in Seq(S), NEW b \in Seq(S), NEW c \in Seq(S), a \o b = a \o c
  PROVE  b = c
<1>1. Len(b) = Len(c)
  BY Len(a \o b) = Len(a) + Len(b), Len(a \o c) = Len(a) + Len(c)
<1>2. ASSUME NEW p \in 1 .. Len(b) PROVE b[p] = c[p]
  <2>1. (a \o b)[Len(a) + p] = b[p] /\ (a \o c)[Len(a) + p] = c[p]
    BY <1>1
  <2> QED BY <2>1
<1> QED BY <1>1, <1>2, SeqEqual

\* The kind and the version are bytes.
LEMMA KindBytes == \A k \in Kinds : <<k, Version>> \in Seq(Byte)
BY SizeFacts DEF Kinds, Unilateral, RouteKind, Version, Byte

\* Two messages of one domain share their signed bytes only if they are the same, whatever
\* their kinds: a signature over a unilateral commitment is never one over a route.
LEMMA EncodeDiffers ==
  ASSUME NEW m \in MessageType, NEW o \in MessageType,
         Tag \o Encode(Domain, m) = Tag \o Encode(Domain, o)
  PROVE  m = o
<1> DEFINE km == <<m.kind, Version>>
           ko == <<o.kind, Version>>
           wm == Words(BodyWords(m))
           wo == Words(BodyWords(o))
<1>1. Domain \in Seq(Byte) /\ Len(Domain) = DomainBytes /\ DomainBytes \in Nat /\ Tag \in Seq(Byte)
  BY SharedBytes, SizeFacts DEF DomainBytes
<1>2. wm \in Seq(Byte) /\ wo \in Seq(Byte)
  BY BodyWordsAre, MessageKinds, PairsNat, WordsAre
<1>3. km \in Seq(Byte) /\ ko \in Seq(Byte) /\ Len(km) = 2 /\ Len(ko) = 2
  BY MessageKinds, KindBytes
<1>4. Encode(Domain, m) = (Domain \o km) \o wm /\ Encode(Domain, o) = (Domain \o ko) \o wo
  BY DEF Encode
<1>5. km[1] = m.kind /\ ko[1] = o.kind
  OBVIOUS
<1> HIDE DEF km, ko, wm, wo
<1>6. (Domain \o km) \o wm = (Domain \o ko) \o wo
  <2>1. (Domain \o km) \o wm \in Seq(Byte) /\ (Domain \o ko) \o wo \in Seq(Byte)
    BY <1>1, <1>2, <1>3
  <2> QED BY <1>1, <1>4, <2>1, SamePrefix
<1>7. m.kind = o.kind
  <2> DEFINE p == Len(Domain) + 1
  <2>1. \A k \in {km, ko} : /\ Domain \o k \in Seq(Byte) /\ p \in 1 .. Len(Domain \o k)
                            /\ (Domain \o k)[p] = k[1]
    BY <1>1, <1>3, ConcatParts
  <2>2. \A k \in {km, ko}, w \in {wm, wo} : ((Domain \o k) \o w)[p] = k[1]
    BY <1>2, <2>1, ConcatParts
  <2> QED BY <1>5, <1>6, <2>2
<1>8. wm = wo
  <2>1. km = ko
    BY <1>7 DEF km, ko
  <2>2. Domain \o km \in Seq(Byte)
    BY <1>1, <1>3
  <2> QED BY <1>2, <1>6, <2>1, <2>2, SamePrefix
<1>9. BodyWords(m) = BodyWords(o)
  <2>1. /\ BodyWords(m) \in [1 .. 2 * Pairs(m.kind) -> Word]
        /\ BodyWords(o) \in [1 .. 2 * Pairs(m.kind) -> Word]
        /\ 2 * Pairs(m.kind) \in Nat \ {0}
    BY <1>7, BodyWordsAre, MessageKinds, PairsNat
  <2> QED BY <1>8, <2>1, WordsDiffer DEF wm, wo
<1> QED BY <1>7, <1>9, BodyDiffers

-----------------------------------------------------------------------------
(* Messages read out of bytes.                                             *)

\* Where the body begins.
LEMMA DomainBytesNat == DomainBytes \in Nat /\ BodyAt \in Nat /\ BodyAt = DomainBytes + 2 /\ WordBytes \in Nat \ {0}
BY SizeFacts DEF DomainBytes, BodyAt

\* Whether word n, from 0, of the bytes after the first `from` is in them.
WordFits(data, from, n) == from + (n + 1) * WordBytes <= Len(data)

\* A word that is read is the one whose bytes are there.
LEMMA WordAtIs ==
  ASSUME NEW data \in Seq(Byte), NEW from \in Nat, NEW n \in Nat, WordFits(data, from, n)
  PROVE  /\ WordAt(data, from, n) \in Word
         /\ \A d \in 1 .. WordBytes :
               LE(WordAt(data, from, n), WordBytes)[d] = data[from + n * WordBytes + d]
<1> DEFINE f == from + n * WordBytes + 1
           t == from + (n + 1) * WordBytes
           b == SubSeq(data, f, t)
<1>1. WordBytes \in Nat \ {0} /\ WordBytes \in 0 .. 2 * WordBytes
  BY SizeFacts
<1>2. n * WordBytes \in Nat /\ (n + 1) * WordBytes = n * WordBytes + WordBytes
  BY <1>1
<1>3. f \in Nat /\ t \in Nat /\ f >= 1 /\ t <= Len(data) /\ f <= t /\ t - f + 1 = WordBytes
  BY <1>1, <1>2 DEF WordFits
<1>4. \A d \in 1 .. WordBytes : f + d - 1 = from + n * WordBytes + d
  BY <1>1, <1>2
<1>5. WordAt(data, from, n) = LEValue(b)
  BY DEF WordAt
<1> HIDE DEF f, t
<1>6. \A p \in f .. t : data[p] \in Byte
  BY <1>3
<1>7. /\ b \in Seq(Byte) /\ Len(b) = t - f + 1
      /\ \A d \in 1 .. t - f + 1 : b[d] = data[f + d - 1]
  BY <1>3, <1>6, SubSeqProperties
<1> HIDE DEF b
<1>8. LEValue(b) \in Nat /\ LEValue(b) < Powers[WordBytes] /\ LE(LEValue(b), WordBytes) = b
  BY <1>1, <1>3, <1>7, ValueBelow, BytesReadBack
<1>9. LEValue(b) \in Word
  BY <1>8, WordFacts DEF Word
<1> QED BY <1>3, <1>4, <1>5, <1>7, <1>8, <1>9

\* Words ns are written behind the first `from` bytes.
WordsBehind(data, from, ns, n) ==
    /\ from + WordBytes * n <= Len(data)
    /\ \A p \in 1 .. WordBytes * n : data[from + p] = Words(ns)[p]

\* Each of n words that fit is in the bytes.
LEMMA WordFitsIn ==
  ASSUME NEW data \in Seq(Byte), NEW from \in Nat, NEW n \in Nat,
         from + WordBytes * n <= Len(data), NEW j \in 1 .. n
  PROVE  /\ WordFits(data, from, j - 1) /\ j - 1 \in Nat
         /\ \A d \in 1 .. WordBytes : (j - 1) * WordBytes + d \in 1 .. WordBytes * n
<1>1. WordBytes \in Nat \ {0}
  BY SizeFacts
<1>2. j * WordBytes <= n * WordBytes
  BY <1>1, TimesMonotone
<1>3. j * WordBytes = (j - 1) * WordBytes + WordBytes /\ (j - 1) * WordBytes \in Nat
  BY <1>1
<1>4. n * WordBytes = WordBytes * n /\ n * WordBytes \in Nat
  BY <1>1
<1> DEFINE x == (j - 1) * WordBytes
           y == n * WordBytes
<1>5. ((j - 1) + 1) * WordBytes = j * WordBytes
  OBVIOUS
<1>6. x \in Nat /\ y \in Nat /\ x + WordBytes <= y
  BY <1>2, <1>3, <1>4
<1> HIDE DEF x, y
<1>7. \A d \in 1 .. WordBytes : x + d \in 1 .. y
  BY <1>1, <1>6
<1>8. \A d \in 1 .. WordBytes : (j - 1) * WordBytes + d \in 1 .. WordBytes * n
  BY <1>4, <1>7 DEF x, y
<1>9. from + ((j - 1) + 1) * WordBytes <= Len(data)
  <2>1. ((j - 1) + 1) * WordBytes <= y /\ from + y <= Len(data)
    BY <1>2, <1>4, <1>5 DEF y
  <2>2. ((j - 1) + 1) * WordBytes \in Nat
    BY <1>1, <1>5
  <2> DEFINE z == ((j - 1) + 1) * WordBytes
  <2> HIDE DEF z
  <2>3. z \in Nat /\ z <= y /\ from + y <= Len(data) /\ Len(data) \in Nat
    BY <2>1, <2>2 DEF z
  <2>4. from + z <= Len(data)
    BY <1>6, <2>3
  <2> QED BY <2>4 DEF z
<1> QED BY <1>8, <1>9 DEF WordFits

\* Words that are written are read.
LEMMA WordsReadBack ==
  ASSUME NEW data \in Seq(Byte), NEW from \in Nat, NEW n \in Nat \ {0},
         NEW ns \in [1 .. n -> Word], WordsBehind(data, from, ns, n), NEW j \in 1 .. n
  PROVE  WordAt(data, from, j - 1) = ns[j]
<1> DEFINE v == WordAt(data, from, j - 1)
<1>1. WordFits(data, from, j - 1) /\ j - 1 \in Nat
        /\ \A d \in 1 .. WordBytes : (j - 1) * WordBytes + d \in 1 .. WordBytes * n
  BY WordFitsIn DEF WordsBehind
<1>2. v \in Word /\ \A d \in 1 .. WordBytes :
         LE(v, WordBytes)[d] = data[from + (j - 1) * WordBytes + d]
  BY <1>1, WordAtIs
<1>3. ASSUME NEW d \in 1 .. WordBytes PROVE LE(v, WordBytes)[d] = LE(ns[j], WordBytes)[d]
  <2>1. from + (j - 1) * WordBytes + d = from + ((j - 1) * WordBytes + d)
    <3>1. (j - 1) * WordBytes \in Nat
      BY <1>1, SizeFacts
    <3> QED BY <3>1
  <2>2. data[from + ((j - 1) * WordBytes + d)] = Words(ns)[(j - 1) * WordBytes + d]
    BY <1>1 DEF WordsBehind
  <2>3. Words(ns)[(j - 1) * WordBytes + d] = LE(ns[j], WordBytes)[d]
    BY WordsAre
  <2> QED BY <1>2, <2>1, <2>2, <2>3
<1> HIDE DEF v
<1>4. /\ v \in Nat /\ v < Powers[WordBytes] /\ ns[j] \in Nat /\ ns[j] < Powers[WordBytes]
      /\ WordBytes \in 0 .. 2 * WordBytes
  BY <1>2, WordFacts DEF Word
<1>5. LE(v, WordBytes) = LE(ns[j], WordBytes)
  BY <1>3, <1>4, LETypes, SeqEqual
<1> QED BY <1>4, <1>5, NumberReadsBack DEF v

\* Words that are read are written.
LEMMA ReadWordsAreBytes ==
  ASSUME NEW data \in Seq(Byte), NEW from \in Nat, NEW n \in Nat \ {0},
         NEW ns \in [1 .. n -> Word], from + WordBytes * n <= Len(data),
         \A j \in 1 .. n : WordAt(data, from, j - 1) = ns[j]
  PROVE  WordsBehind(data, from, ns, n)
<1>1. ASSUME NEW p \in 1 .. WordBytes * n PROVE data[from + p] = Words(ns)[p]
  <2>1. WordBytes \in Nat \ {0} /\ n \in Nat
    BY SizeFacts
  <2>2. InRows(p, WordBytes, n)
    BY <2>1, PlaceRow
  <2>3. PICK j \in 1 .. n, d \in 1 .. WordBytes : p = (j - 1) * WordBytes + d
    BY <2>2 DEF InRows, AtPlace
  <2>4. WordFits(data, from, j - 1) /\ j - 1 \in Nat
    BY <2>1, <2>3, WordFitsIn
  <2>5. LE(ns[j], WordBytes)[d] = data[from + (j - 1) * WordBytes + d]
    BY <2>4, WordAtIs
  <2>6. from + (j - 1) * WordBytes + d = from + p
    <3>1. (j - 1) * WordBytes \in Nat
      BY <2>1, <2>4
    <3> QED BY <2>3, <3>1
  <2>7. Words(ns)[p] = LE(ns[j], WordBytes)[d]
    BY <2>3, WordsAre
  <2> QED BY <2>5, <2>6, <2>7
<1> QED BY <1>1 DEF WordsBehind

-----------------------------------------------------------------------------
(* What is decoded.                                                        *)

\* Data is the message m of this domain, part by part.
IsEncoding(data, domain, m) ==
    /\ data \in Seq(Byte) /\ Len(data) = BodyAt + WordBytes * (2 * Pairs(m.kind))
    /\ \A p \in 1 .. DomainBytes : data[p] = domain[p]
    /\ data[DomainBytes + 1] = m.kind /\ data[DomainBytes + 2] = Version
    /\ WordsBehind(data, BodyAt, BodyWords(m), 2 * Pairs(m.kind))

\* The length of a kind's messages, counted in pairs of words.
LEMMA MessageLenIs == \A k \in Kinds : MessageLen(k) = BodyAt + WordBytes * (2 * Pairs(k))
<1> SUFFICES ASSUME NEW k \in Kinds PROVE MessageLen(k) = BodyAt + WordBytes * (2 * Pairs(k))
  OBVIOUS
<1>1. CASE k = Unilateral
  BY <1>1, DomainBytesNat DEF MessageLen, Pairs, Unilateral, RouteKind
<1>2. CASE k = RouteKind
  <2>1. 4 + 2 * MaxAllocations = 2 * (2 + MaxAllocations)
    BY SizeFacts
  <2> QED BY <1>2, <2>1, DomainBytesNat DEF MessageLen, Pairs, Unilateral, RouteKind
<1> QED BY <1>1, <1>2 DEF Kinds

\* Encode writes the message part by part.
LEMMA EncodeIs ==
  ASSUME NEW m \in MessageType, NEW domain \in Seq(Byte), Len(domain) = DomainBytes
  PROVE  IsEncoding(Encode(domain, m), domain, m)
<1> DEFINE k == <<m.kind, Version>>
           w == Words(BodyWords(m))
           n == 2 * Pairs(m.kind)
           head == domain \o k
           e == head \o w
<1>1. k \in Seq(Byte) /\ Len(k) = 2 /\ k[1] = m.kind /\ k[2] = Version
  BY MessageKinds, KindBytes
<1>2. n \in Nat \ {0} /\ BodyWords(m) \in [1 .. n -> Word]
  BY BodyWordsAre, MessageKinds, PairsNat
<1> HIDE DEF n
<1>3. w \in Seq(Byte) /\ Len(w) = WordBytes * n
  BY <1>2, WordsAre
<1>4. Encode(domain, m) = e
  BY DEF Encode
<1> HIDE DEF k, w, head
<1>5. /\ head \in Seq(Byte) /\ Len(head) = DomainBytes + 2
      /\ \A p \in 1 .. DomainBytes : head[p] = domain[p]
      /\ head[DomainBytes + 1] = m.kind /\ head[DomainBytes + 2] = Version
  <2>1. domain \in Seq(Byte) /\ k \in Seq(Byte)
    BY <1>1
  <2>2. /\ domain \o k \in Seq(Byte) /\ Len(domain \o k) = Len(domain) + Len(k)
        /\ \A p \in 1 .. Len(domain) : (domain \o k)[p] = domain[p]
        /\ \A p \in 1 .. Len(k) : (domain \o k)[Len(domain) + p] = k[p]
    BY ONLY <2>1, ConcatParts
  <2>3. 1 \in 1 .. Len(k) /\ 2 \in 1 .. Len(k)
    BY <1>1
  <2> QED BY <1>1, <2>2, <2>3 DEF head
<1>6. /\ e \in Seq(Byte) /\ Len(e) = Len(head) + Len(w)
      /\ \A p \in 1 .. Len(head) : e[p] = head[p]
      /\ \A p \in 1 .. Len(w) : e[Len(head) + p] = w[p]
  <2>1. head \in Seq(Byte) /\ w \in Seq(Byte)
    BY <1>3, <1>5
  <2> QED BY ONLY <2>1, ConcatParts
<1> HIDE DEF e
<1>7. /\ \A p \in 1 .. DomainBytes : e[p] = domain[p]
      /\ e[DomainBytes + 1] = m.kind /\ e[DomainBytes + 2] = Version
  <2>1. DomainBytes + 1 \in 1 .. Len(head) /\ DomainBytes + 2 \in 1 .. Len(head)
          /\ \A p \in 1 .. DomainBytes : p \in 1 .. Len(head)
    BY <1>5, DomainBytesNat
  <2> QED BY <1>5, <1>6, <2>1
<1>8. WordsBehind(e, BodyAt, BodyWords(m), n) /\ Len(e) = BodyAt + WordBytes * n
  <2>1. BodyAt = Len(head)
    BY <1>5, DomainBytesNat
  <2>2. Len(e) = BodyAt + WordBytes * n /\ WordBytes * n \in Nat /\ BodyAt \in Nat
    BY <1>2, <1>3, <1>6, <2>1, DomainBytesNat
  <2>3. \A p \in 1 .. WordBytes * n : e[BodyAt + p] = w[p]
    BY <1>3, <1>6, <2>1
  <2> QED BY <2>2, <2>3 DEF WordsBehind, w
<1> QED BY <1>4, <1>6, <1>7, <1>8 DEF IsEncoding, n

\* A message of a domain has one encoding.
LEMMA EncodingIsUnique ==
  ASSUME NEW m \in MessageType, NEW domain, NEW b, NEW c,
         IsEncoding(b, domain, m), IsEncoding(c, domain, m)
  PROVE  b = c
<1> DEFINE n == WordBytes * (2 * Pairs(m.kind))
<1>1. n \in Nat /\ b \in Seq(Byte) /\ c \in Seq(Byte) /\ Len(b) = BodyAt + n /\ Len(c) = BodyAt + n
  BY MessageKinds, PairsNat, SizeFacts DEF IsEncoding
<1>2. /\ \A p \in 1 .. DomainBytes : b[p] = c[p]
      /\ b[DomainBytes + 1] = c[DomainBytes + 1] /\ b[DomainBytes + 2] = c[DomainBytes + 2]
      /\ \A p \in 1 .. n : b[BodyAt + p] = c[BodyAt + p]
  BY DEF IsEncoding, WordsBehind
<1> HIDE DEF n
<1>3. ASSUME NEW p \in 1 .. Len(b) PROVE b[p] = c[p]
  <2>1. \/ p \in 1 .. DomainBytes \/ p = DomainBytes + 1 \/ p = DomainBytes + 2
        \/ p - BodyAt \in 1 .. n /\ BodyAt + (p - BodyAt) = p
    BY <1>1, DomainBytesNat
  <2> QED BY <1>2, <2>1
<1> QED BY <1>1, <1>3, SeqEqual

\* Data that is a message reads as its words.
LEMMA EncodedWords ==
  ASSUME NEW m \in MessageType, NEW domain, NEW data, IsEncoding(data, domain, m),
         NEW j \in 1 .. 2 * Pairs(m.kind)
  PROVE  WordAt(data, BodyAt, j - 1) = BodyWords(m)[j]
<1> DEFINE n == 2 * Pairs(m.kind)
<1>1. n \in Nat \ {0} /\ BodyWords(m) \in [1 .. n -> Word] /\ BodyAt \in Nat
  BY BodyWordsAre, MessageKinds, PairsNat, DomainBytesNat
<1>2. data \in Seq(Byte) /\ WordsBehind(data, BodyAt, BodyWords(m), n) /\ j \in 1 .. n
  BY DEF IsEncoding
<1> HIDE DEF n
<1> QED BY <1>1, <1>2, WordsReadBack

\* Data that reads as the words of a message is its encoding, in the domain it names.
LEMMA WordsEncode ==
  ASSUME NEW m \in MessageType, NEW data \in Seq(Byte), IsMessage(data, m.kind),
         \A j \in 1 .. 2 * Pairs(m.kind) : WordAt(data, BodyAt, j - 1) = BodyWords(m)[j]
  PROVE  IsEncoding(data, SubSeq(data, 1, DomainBytes), m)
<1> DEFINE n == 2 * Pairs(m.kind)
<1>1. n \in Nat \ {0} /\ BodyWords(m) \in [1 .. n -> Word] /\ BodyAt \in Nat
  BY BodyWordsAre, MessageKinds, PairsNat, DomainBytesNat
<1>2. Len(data) = BodyAt + WordBytes * n
  BY MessageKinds, MessageLenIs DEF IsMessage
<1>3. WordsBehind(data, BodyAt, BodyWords(m), n)
  <2>1. \A j \in 1 .. n : WordAt(data, BodyAt, j - 1) = BodyWords(m)[j]
    OBVIOUS
  <2> HIDE DEF n
  <2>2. BodyAt + WordBytes * n <= Len(data)
    <3>1. WordBytes * n \in Nat
      BY <1>1, SizeFacts
    <3> QED BY <1>1, <1>2, <3>1
  <2> QED BY <1>1, <2>1, <2>2, ReadWordsAreBytes
<1>4. \A p \in 1 .. DomainBytes : data[p] = SubSeq(data, 1, DomainBytes)[p]
  <2>1. DomainBytes \in Nat
    BY DomainBytesNat
  <2>2. SubSeq(data, 1, DomainBytes) = [p \in 1 .. DomainBytes |-> data[p]]
    BY <2>1
  <2> QED BY <2>2
<1> QED BY <1>2, <1>3, <1>4 DEF IsEncoding, IsMessage

\* Every word of data of a message's length is read.
LEMMA MessageWords ==
  ASSUME NEW k \in Kinds, NEW data \in Seq(Byte), IsMessage(data, k), NEW j \in 1 .. 2 * Pairs(k)
  PROVE  WordAt(data, BodyAt, j - 1) \in Word
<1> DEFINE n == 2 * Pairs(k)
<1>1. n \in Nat \ {0} /\ BodyAt \in Nat /\ j \in 1 .. n
  BY PairsNat, DomainBytesNat
<1>2. Len(data) = BodyAt + WordBytes * n
  BY MessageLenIs DEF IsMessage
<1> HIDE DEF n
<1>3. BodyAt + WordBytes * n <= Len(data)
  <2>1. WordBytes * n \in Nat
    BY <1>1, SizeFacts
  <2> QED BY <1>1, <1>2, <2>1
<1>4. WordFits(data, BodyAt, j - 1) /\ j - 1 \in Nat
  BY <1>1, <1>3, WordFitsIn
<1> QED BY <1>1, <1>4, WordAtIs

\* What decodes as a unilateral commitment is the encoding of what it decodes to.
LEMMA UniDecoded ==
  ASSUME NEW data \in Seq(Byte), IsMessage(data, Unilateral)
  PROVE  /\ UnilateralOf(data) \in MessageType /\ UnilateralOf(data).kind = Unilateral
         /\ IsEncoding(data, SubSeq(data, 1, DomainBytes), UnilateralOf(data))
<1> DEFINE m == UnilateralOf(data)
<1>1. Unilateral \in Kinds /\ 2 * Pairs(Unilateral) = 2
  BY DEF Kinds, Pairs, Unilateral, RouteKind
<1>2. \A j \in 1 .. 2 : WordAt(data, BodyAt, j - 1) \in Word
  BY <1>1, MessageWords
<1>3. WordAt(data, BodyAt, 0) \in Word /\ WordAt(data, BodyAt, 1) \in Word
  <2>1. 1 - 1 = 0 /\ 2 - 1 = 1
    OBVIOUS
  <2>2. WordAt(data, BodyAt, 1 - 1) \in Word /\ WordAt(data, BodyAt, 2 - 1) \in Word
    BY <1>2
  <2> QED BY <2>1, <2>2
<1>4. /\ m \in MessageType /\ m.kind = Unilateral
      /\ m.channel = WordAt(data, BodyAt, 0) /\ m.target = WordAt(data, BodyAt, 1)
  BY <1>3 DEF UnilateralOf, MessageType
<1> HIDE DEF m
<1>5. ASSUME NEW j \in 1 .. 2 * Pairs(m.kind) PROVE WordAt(data, BodyAt, j - 1) = BodyWords(m)[j]
  <2>1. BodyWords(m)[1] = m.channel /\ BodyWords(m)[2] = m.target
    BY <1>4, BodyWordsAre
  <2>2. (j = 1 /\ j - 1 = 0) \/ (j = 2 /\ j - 1 = 1)
    BY <1>1, <1>4
  <2> QED BY <1>4, <2>1, <2>2
<1>6. IsEncoding(data, SubSeq(data, 1, DomainBytes), m)
  BY <1>4, <1>5, WordsEncode
<1> QED BY <1>4, <1>6 DEF m

\* A route with the allocations of its fixed array.
IsArray(route) == /\ DOMAIN route = {"kind", "channel", "base", "target", "allocations"}
                  /\ route = [kind |-> RouteKind, channel |-> route.channel, base |-> route.base,
                              target |-> route.target, allocations |-> route.allocations]
                  /\ route.channel \in Word /\ route.base \in Word /\ route.target \in Word
                  /\ route.allocations \in [1 .. MaxAllocations -> AllocationType]

\* The fixed array decode() reads, word by word.
LEMMA ArrayIs ==
  ASSUME NEW data \in Seq(Byte), IsMessage(data, RouteKind)
  PROVE  /\ IsArray(RouteOfBytes(data)) /\ WordAt(data, BodyAt, 3) \in Word
         /\ WordAt(data, BodyAt, 0) = RouteOfBytes(data).channel
         /\ WordAt(data, BodyAt, 1) = RouteOfBytes(data).base
         /\ WordAt(data, BodyAt, 2) = RouteOfBytes(data).target
         /\ \A a \in 1 .. MaxAllocations :
               /\ WordAt(data, BodyAt, 2 * a + 2) = RouteOfBytes(data).allocations[a].id
               /\ WordAt(data, BodyAt, 2 * a + 3) = RouteOfBytes(data).allocations[a].amount
<1>1. RouteKind \in Kinds /\ 2 * Pairs(RouteKind) = 4 + 2 * MaxAllocations
  BY SizeFacts DEF Kinds, Pairs
<1>2. \A j \in 1 .. 4 + 2 * MaxAllocations : WordAt(data, BodyAt, j - 1) \in Word
  BY <1>1, MessageWords
<1>3. \A n \in 0 .. 3 + 2 * MaxAllocations : WordAt(data, BodyAt, n) \in Word
  <2> SUFFICES ASSUME NEW n \in 0 .. 3 + 2 * MaxAllocations PROVE WordAt(data, BodyAt, n) \in Word
    OBVIOUS
  <2>1. n + 1 \in 1 .. 4 + 2 * MaxAllocations /\ (n + 1) - 1 = n
    BY SizeFacts
  <2>2. WordAt(data, BodyAt, (n + 1) - 1) \in Word
    BY <1>2, <2>1
  <2> QED BY <2>1, <2>2
<1>4. /\ WordAt(data, BodyAt, 0) \in Word /\ WordAt(data, BodyAt, 1) \in Word
      /\ WordAt(data, BodyAt, 2) \in Word /\ WordAt(data, BodyAt, 3) \in Word
  <2>1. /\ 0 \in 0 .. 3 + 2 * MaxAllocations /\ 1 \in 0 .. 3 + 2 * MaxAllocations
        /\ 2 \in 0 .. 3 + 2 * MaxAllocations /\ 3 \in 0 .. 3 + 2 * MaxAllocations
    BY SizeFacts
  <2> QED BY <1>3, <2>1
<1>5. \A a \in 1 .. MaxAllocations : /\ WordAt(data, BodyAt, 2 * a + 2) \in Word
                                     /\ WordAt(data, BodyAt, 2 * a + 3) \in Word
  <2> SUFFICES ASSUME NEW a \in 1 .. MaxAllocations
               PROVE  /\ WordAt(data, BodyAt, 2 * a + 2) \in Word
                      /\ WordAt(data, BodyAt, 2 * a + 3) \in Word
    OBVIOUS
  <2>1. 2 * a + 2 \in 0 .. 3 + 2 * MaxAllocations /\ 2 * a + 3 \in 0 .. 3 + 2 * MaxAllocations
    BY SizeFacts
  <2> QED BY <1>3, <2>1
<1> QED BY <1>4, <1>5 DEF RouteOfBytes, IsArray, AllocationType

\* Its first n allocations are those of a message.
LEMMA FirstOfIs ==
  ASSUME NEW route, IsArray(route), NEW n \in 0 .. MaxAllocations
  PROVE  /\ FirstOf(route, n) \in MessageType
         /\ FirstOf(route, n).kind = RouteKind
         /\ FirstOf(route, n).channel = route.channel
         /\ FirstOf(route, n).base = route.base
         /\ FirstOf(route, n).target = route.target
         /\ Len(FirstOf(route, n).allocations) = n
         /\ \A a \in 1 .. n : FirstOf(route, n).allocations[a] = route.allocations[a]
<1> DEFINE s == SubSeq(route.allocations, 1, n)
<1>1. /\ route = [kind |-> RouteKind, channel |-> route.channel, base |-> route.base,
                  target |-> route.target, allocations |-> route.allocations]
      /\ route.channel \in Word /\ route.base \in Word /\ route.target \in Word
      /\ route.allocations \in [1 .. MaxAllocations -> AllocationType]
  BY DEF IsArray
<1>2. n \in Nat /\ n <= MaxAllocations
  BY SizeFacts
<1>3. s = [a \in 1 .. n |-> route.allocations[a]]
  BY <1>2
<1>4. s \in [1 .. n -> AllocationType] /\ Len(s) = n
  <2> HIDE DEF s
  <2>1. ASSUME NEW a \in 1 .. n PROVE route.allocations[a] \in AllocationType
    <3>1. a \in 1 .. MaxAllocations
      BY <1>2, SizeFacts
    <3> QED BY <1>1, <3>1
  <2> QED BY <1>2, <1>3, <2>1
<1> DEFINE t == [kind |-> RouteKind, channel |-> route.channel, base |-> route.base,
                 target |-> route.target, allocations |-> s]
<1>5. FirstOf(route, n) = t
  <2>1. FirstOf(route, n) = [route EXCEPT !.allocations = s]
    BY DEF FirstOf
  <2> HIDE DEF s
  <2>2. [route EXCEPT !.allocations = s] = t
    BY <1>1
  <2> QED BY <2>1, <2>2
<1> HIDE DEF s
<1>6. t \in MessageType
  <2>1. s \in AllocationsType
    BY <1>2, <1>4 DEF AllocationsType, AllocationType
  <2> QED BY <1>1, <2>1 DEF MessageType
<1>7. \A a \in 1 .. n : s[a] = route.allocations[a]
  BY <1>3
<1> QED BY <1>4, <1>5, <1>6, <1>7

\* What decodes as a route, with nothing behind its count, is the encoding of what it
\* decodes to.
LEMMA RouteDecoded ==
  ASSUME NEW data \in Seq(Byte), IsMessage(data, RouteKind), NEW n \in 0 .. MaxAllocations,
         WordAt(data, BodyAt, 3) = n,
         \A a \in n + 1 .. MaxAllocations : RouteOfBytes(data).allocations[a] = NoAllocation
  PROVE  /\ FirstOf(RouteOfBytes(data), n) \in MessageType
         /\ FirstOf(RouteOfBytes(data), n).kind = RouteKind
         /\ IsEncoding(data, SubSeq(data, 1, DomainBytes), FirstOf(RouteOfBytes(data), n))
<1> DEFINE route == RouteOfBytes(data)
           m == FirstOf(route, n)
<1>1. /\ IsArray(route) /\ WordAt(data, BodyAt, 0) = route.channel
      /\ WordAt(data, BodyAt, 1) = route.base /\ WordAt(data, BodyAt, 2) = route.target
      /\ \A a \in 1 .. MaxAllocations : /\ WordAt(data, BodyAt, 2 * a + 2) = route.allocations[a].id
                                        /\ WordAt(data, BodyAt, 2 * a + 3) = route.allocations[a].amount
  BY ArrayIs
<1>2. \A a \in n + 1 .. MaxAllocations : route.allocations[a] = NoAllocation
  OBVIOUS
<1> HIDE DEF route
<1>3. /\ m \in MessageType /\ m.kind = RouteKind /\ m.channel = route.channel
      /\ m.base = route.base /\ m.target = route.target /\ Len(m.allocations) = n
      /\ \A a \in 1 .. n : m.allocations[a] = route.allocations[a]
  BY <1>1, FirstOfIs
<1> HIDE DEF m
<1>4. ASSUME NEW a \in 1 .. MaxAllocations PROVE Padded(m.allocations)[a] = route.allocations[a]
  <2>1. a \in 1 .. n \/ a \in n + 1 .. MaxAllocations
    BY SizeFacts
  <2>2. Padded(m.allocations)[a] = IF a <= n THEN m.allocations[a] ELSE NoAllocation
    BY <1>3 DEF Padded
  <2> QED BY <1>2, <1>3, <2>1, <2>2, SizeFacts
<1>5. /\ BodyWords(m)[1] = route.channel /\ BodyWords(m)[2] = route.base
      /\ BodyWords(m)[3] = route.target /\ BodyWords(m)[4] = n
      /\ \A a \in 1 .. MaxAllocations : /\ BodyWords(m)[2 * a + 3] = route.allocations[a].id
                                        /\ BodyWords(m)[2 * a + 4] = route.allocations[a].amount
  BY <1>3, <1>4, BodyWordsAre, SMTT(30)
<1>6. ASSUME NEW j \in 1 .. 2 * Pairs(m.kind) PROVE WordAt(data, BodyAt, j - 1) = BodyWords(m)[j]
  <2>1. j \in 1 .. 4 + 2 * MaxAllocations
    <3>1. 2 * Pairs(m.kind) = 4 + 2 * MaxAllocations
      BY <1>3, SizeFacts DEF Pairs
    <3> QED BY <3>1
  <2>2. CASE j \in 1 .. 4
    <3>1. \/ j = 1 /\ j - 1 = 0
          \/ j = 2 /\ j - 1 = 1
          \/ j = 3 /\ j - 1 = 2
          \/ j = 4 /\ j - 1 = 3
      BY <2>2
    <3> QED BY <1>1, <1>5, <3>1
  <2>3. CASE j \notin 1 .. 4
    <3>1. PICK a \in 1 .. MaxAllocations : j = 2 * a + 3 \/ j = 2 * a + 4
      <4>1. \/ j = 2 * ((j - 3) \div 2) + 3 /\ (j - 3) \div 2 \in 1 .. MaxAllocations
            \/ j = 2 * ((j - 4) \div 2) + 4 /\ (j - 4) \div 2 \in 1 .. MaxAllocations
        BY <2>1, <2>3, SizeFacts
      <4> QED BY <4>1
    <3>2. CASE j = 2 * a + 3
      <4>1. j - 1 = 2 * a + 2
        BY <3>2
      <4> QED BY <1>1, <1>5, <3>2, <4>1
    <3>3. CASE j = 2 * a + 4
      <4>1. j - 1 = 2 * a + 3
        BY <3>3
      <4> QED BY <1>1, <1>5, <3>3, <4>1
    <3> QED BY <3>1, <3>2, <3>3
  <2> QED BY <2>2, <2>3
<1>7. IsMessage(data, m.kind)
  BY <1>3
<1>8. IsEncoding(data, SubSeq(data, 1, DomainBytes), m)
  BY <1>3, <1>6, <1>7, WordsEncode
<1> QED BY <1>3, <1>8 DEF m, route

\* A checked sum of words that is at most a word is the sum.
LEMMA SumAcceptedIs ==
  ASSUME NEW m \in MessageType, m.kind = RouteKind
  PROVE  SumAccepted(m) <=> PieceEnd(m)[Len(m.allocations)] - m.base <= Increase(m)
<1> DEFINE n == Len(m.allocations)
<1>1. m.base \in Word /\ m.target \in Word /\ m.allocations \in AllocationsType
  BY MessageKinds
<1>2. n \in Nat /\ m.allocations \in [1 .. n -> AllocationType]
  BY <1>1, PaddedIs, SizeFacts
<1> HIDE DEF n
<1>3. m.base \in Int /\ Amounts(m) \in [1 .. n -> Int]
  <2>1. \A a \in 1 .. n : m.allocations[a].amount \in Int
    BY <1>2, WordFacts DEF AllocationType, Word
  <2>2. Amounts(m) = [a \in 1 .. n |-> m.allocations[a].amount]
    BY DEF Amounts, n
  <2> QED BY <1>1, <2>1, <2>2 DEF Word
<1>4. SumFacts(PieceEnd(m), n, m.base, Amounts(m))
  BY <1>2, <1>3, RunningTotalIs DEF PieceEnd
<1>5. PieceEnd(m)[n] \in Int
  BY <1>2, <1>4 DEF SumFacts
<1>6. Increase(m) \in Int /\ Increase(m) <= MaxWord
  BY <1>1, WordFacts DEF Increase, Word
<1> DEFINE t == PieceEnd(m)[n] - m.base
<1>7. t \in Int
  BY <1>3, <1>5
<1>8. SumAccepted(m) <=> t <= MaxWord /\ t <= Increase(m)
  BY DEF SumAccepted, n
<1> HIDE DEF t
<1>9. SumAccepted(m) <=> t <= Increase(m)
  BY <1>6, <1>7, <1>8, WordFacts
<1> QED BY <1>9 DEF t, n

\* The program's checks of the fixed array are those of the route it stands for, and that
\* nothing stands behind the count.
LEMMA ValidateArrayIs ==
  ASSUME NEW route, IsArray(route), NEW n \in 1 .. MaxAllocations
  PROVE  ValidateArray(route, n)
           <=> /\ \A a \in n + 1 .. MaxAllocations : route.allocations[a] = NoAllocation
               /\ Validate(FirstOf(route, n))
<1> DEFINE m == FirstOf(route, n)
<1>1. n \in Nat /\ n \in 0 .. MaxAllocations /\ MaxAllocations \in Nat /\ n \in 1 .. MaxRouteAllocations
        /\ MaxRouteAllocations \in Nat
  BY ByteSizes, SizeFacts DEF MaxRouteAllocations
<1>2. /\ m \in MessageType /\ m.kind = RouteKind /\ m.base = route.base /\ m.target = route.target
      /\ Len(m.allocations) = n /\ \A a \in 1 .. n : m.allocations[a] = route.allocations[a]
  BY <1>1, FirstOfIs
<1>3. (1 .. MaxAllocations) \ (1 .. n) = n + 1 .. MaxAllocations
  BY <1>1
<1>4. ValidateArray(route, n) <=>
        /\ route.base < route.target
        /\ \A a \in 1 .. n : route.allocations[a].id # 0 /\ route.allocations[a].amount > 0
        /\ \A a, b \in 1 .. n : a < b => route.allocations[a].id # route.allocations[b].id
        /\ \A a \in (1 .. MaxAllocations) \ (1 .. n) : route.allocations[a] = NoAllocation
        /\ SumAccepted(m)
  BY DEF ValidateArray
<1> HIDE DEF m
<1>5. SumAccepted(m) <=> PieceEnd(m)[n] - m.base <= Increase(m)
  BY <1>2, SumAcceptedIs
<1>6. Validate(m) <=>
        /\ m.base < m.target
        /\ \A a \in 1 .. n : m.allocations[a].id # 0 /\ m.allocations[a].amount > 0
        /\ \A a, b \in 1 .. n : a < b => m.allocations[a].id # m.allocations[b].id
        /\ PieceEnd(m)[n] - m.base <= Increase(m)
  BY <1>1, <1>2 DEF Validate
<1>7. /\ (\A a \in 1 .. n : route.allocations[a].id # 0 /\ route.allocations[a].amount > 0)
           <=> \A a \in 1 .. n : m.allocations[a].id # 0 /\ m.allocations[a].amount > 0
      /\ (\A a, b \in 1 .. n : a < b => route.allocations[a].id # route.allocations[b].id)
           <=> \A a, b \in 1 .. n : a < b => m.allocations[a].id # m.allocations[b].id
  BY <1>2
<1> QED BY <1>2, <1>3, <1>4, <1>5, <1>6, <1>7 DEF m

\* Both decoders accept the same bytes as the same message: the byte that the program takes
\* the count from, and the 64 bits in which it adds amounts, lose nothing it accepts.
LEMMA DecodersAgree ==
  ASSUME NEW data \in Seq(Byte)
  PROVE  Decode(data) = ClientDecode(data)
<1>1. CASE IsMessage(data, Unilateral) \/ ~IsMessage(data, RouteKind)
  BY <1>1 DEF Decode, ClientDecode
<1>2. CASE ~IsMessage(data, Unilateral) /\ IsMessage(data, RouteKind)
  <2> DEFINE word == WordAt(data, BodyAt, 3)
             route == RouteOfBytes(data)
             accepted == CountFits(word) /\ ValidateArray(route, word % Base)
             clients == /\ word \in 1 .. MaxAllocations
                        /\ \A a \in word + 1 .. MaxAllocations : route.allocations[a] = NoAllocation
                        /\ Validate(FirstOf(route, word))
  <2>1. Decode(data) = IF accepted THEN {FirstOf(route, word % Base)} ELSE {}
    BY <1>2 DEF Decode
  <2>2. ClientDecode(data) = IF clients THEN {FirstOf(route, word)} ELSE {}
    BY <1>2 DEF ClientDecode
  <2>3. IsArray(route) /\ word \in Nat
    BY <1>2, ArrayIs, WordFacts DEF Word
  <2> HIDE DEF word, route
  <2>4. word <= MaxAllocations => word % Base = word
    <3> SUFFICES ASSUME word <= MaxAllocations PROVE word % Base = word
      OBVIOUS
    <3>1. Base \in Nat \ {0} /\ word \in 0 .. Base - 1
      BY <2>3, SizeFacts
    <3>2. (0 * Base + word) % Base = word
      BY <3>1, Divides
    <3> QED BY <2>3, <3>2, SizeFacts
  <2>5. accepted <=> clients
    <3>1. CASE word \in 1 .. MaxAllocations
      <4>1. word % Base = word /\ CountFits(word)
        BY <2>4, <3>1, SizeFacts DEF CountFits
      <4> QED BY <2>3, <3>1, <4>1, ValidateArrayIs
    <3>2. CASE word \notin 1 .. MaxAllocations
      <4>1. ASSUME accepted PROVE FALSE
        <5>1. word <= MaxAllocations /\ word % Base \in 1 .. MaxAllocations
          BY <4>1 DEF CountFits, ValidateArray
        <5> QED BY <2>4, <3>2, <5>1
      <4> QED BY <3>2, <4>1
    <3> QED BY <3>1, <3>2
  <2>6. accepted => word % Base = word
    BY <2>4 DEF CountFits
  <2> HIDE DEF accepted, clients
  <2> QED BY <2>1, <2>2, <2>5, <2>6
<1> QED BY <1>1, <1>2

\* What decodes is a message, and the data its encoding in the domain the data names.
LEMMA DecodedIs ==
  ASSUME NEW data \in Seq(Byte), NEW m \in Decode(data)
  PROVE  /\ m \in MessageType
         /\ IsEncoding(data, SubSeq(data, 1, DomainBytes), m)
<1>1. m \in ClientDecode(data)
  BY DecodersAgree
<1>2. CASE IsMessage(data, Unilateral)
  <2>1. m = UnilateralOf(data)
    BY <1>1, <1>2 DEF ClientDecode
  <2> QED BY <1>2, <2>1, UniDecoded
<1>3. CASE ~IsMessage(data, Unilateral)
  <2> DEFINE word == WordAt(data, BodyAt, 3)
             route == RouteOfBytes(data)
  <2>1. IsMessage(data, RouteKind)
    BY <1>1, <1>3 DEF ClientDecode
  <2>2. /\ m = FirstOf(route, word) /\ word \in 1 .. MaxAllocations
        /\ \A a \in word + 1 .. MaxAllocations : route.allocations[a] = NoAllocation
    BY <1>1, <1>3, <2>1 DEF ClientDecode
  <2>3. word \in 0 .. MaxAllocations
    BY <2>2, SizeFacts
  <2> QED BY <2>1, <2>2, <2>3, RouteDecoded
<1> QED BY <1>2, <1>3

\* The encoding of a message that is valid decodes to it alone.
LEMMA EncodedDecodes ==
  ASSUME NEW m \in MessageType, m.kind = RouteKind => Validate(m),
         NEW domain, NEW data, IsEncoding(data, domain, m)
  PROVE  Decode(data) = {m}
<1>1. data \in Seq(Byte) /\ m.kind \in Kinds
  BY MessageKinds DEF IsEncoding
<1>2. \A j \in 1 .. 2 * Pairs(m.kind) : WordAt(data, BodyAt, j - 1) = BodyWords(m)[j]
  BY EncodedWords
<1>3. IsMessage(data, m.kind) /\ \A k \in Kinds : k # m.kind => ~IsMessage(data, k)
  BY <1>1, MessageLenIs DEF IsEncoding, IsMessage
<1>4. CASE m.kind = Unilateral
  <2>1. 2 * Pairs(m.kind) = 2
    BY <1>4 DEF Pairs, Unilateral, RouteKind
  <2>2. WordAt(data, BodyAt, 1 - 1) = BodyWords(m)[1] /\ WordAt(data, BodyAt, 2 - 1) = BodyWords(m)[2]
    BY <1>2, <2>1
  <2>3. 1 - 1 = 0 /\ 2 - 1 = 1
    OBVIOUS
  <2>4. BodyWords(m)[1] = m.channel /\ BodyWords(m)[2] = m.target
    BY <1>4, BodyWordsAre
  <2>5. UnilateralOf(data) = [kind |-> Unilateral, channel |-> m.channel, target |-> m.target]
    BY <2>2, <2>3, <2>4 DEF UnilateralOf
  <2>6. UnilateralOf(data) = m
    BY <1>4, <2>5, MessageKinds
  <2> QED BY <1>3, <1>4, <2>6 DEF Decode
<1>5. CASE m.kind = RouteKind
  <2> DEFINE route == RouteOfBytes(data)
             n == Len(m.allocations)
  <2>1. /\ ~IsMessage(data, Unilateral) /\ IsMessage(data, RouteKind)
    BY <1>3, <1>5 DEF Kinds, Unilateral, RouteKind
  <2>2. /\ IsArray(route) /\ WordAt(data, BodyAt, 0) = route.channel
        /\ WordAt(data, BodyAt, 1) = route.base /\ WordAt(data, BodyAt, 2) = route.target
        /\ \A a \in 1 .. MaxAllocations : /\ WordAt(data, BodyAt, 2 * a + 2) = route.allocations[a].id
                                          /\ WordAt(data, BodyAt, 2 * a + 3) = route.allocations[a].amount
    BY <1>1, <2>1, ArrayIs
  <2> HIDE DEF route
  <2>3. \A k \in 0 .. 3 + 2 * MaxAllocations : WordAt(data, BodyAt, k) = BodyWords(m)[k + 1]
    <3> SUFFICES ASSUME NEW k \in 0 .. 3 + 2 * MaxAllocations
                 PROVE  WordAt(data, BodyAt, k) = BodyWords(m)[k + 1]
      OBVIOUS
    <3>1. 2 * Pairs(m.kind) = 4 + 2 * MaxAllocations
      BY <1>5, SizeFacts DEF Pairs
    <3>2. k + 1 \in 1 .. 2 * Pairs(m.kind) /\ (k + 1) - 1 = k
      BY <3>1, SizeFacts
    <3> QED BY <1>2, <3>2
  <2>4. /\ route.channel = m.channel /\ route.base = m.base /\ route.target = m.target
        /\ WordAt(data, BodyAt, 3) = n
    <3>1. /\ BodyWords(m)[1] = m.channel /\ BodyWords(m)[2] = m.base
          /\ BodyWords(m)[3] = m.target /\ BodyWords(m)[4] = n
      BY <1>5, BodyWordsAre
    <3>2. /\ WordAt(data, BodyAt, 0) = BodyWords(m)[0 + 1] /\ WordAt(data, BodyAt, 1) = BodyWords(m)[1 + 1]
          /\ WordAt(data, BodyAt, 2) = BodyWords(m)[2 + 1] /\ WordAt(data, BodyAt, 3) = BodyWords(m)[3 + 1]
      <4>1. /\ 0 \in 0 .. 3 + 2 * MaxAllocations /\ 1 \in 0 .. 3 + 2 * MaxAllocations
            /\ 2 \in 0 .. 3 + 2 * MaxAllocations /\ 3 \in 0 .. 3 + 2 * MaxAllocations
        BY SizeFacts
      <4> QED BY <2>3, <4>1
    <3>3. 0 + 1 = 1 /\ 1 + 1 = 2 /\ 2 + 1 = 3 /\ 3 + 1 = 4
      OBVIOUS
    <3> QED BY <2>2, <3>1, <3>2, <3>3
  <2>5. m.allocations \in AllocationsType
    BY <1>5, MessageKinds
  <2>6. ASSUME NEW a \in 1 .. MaxAllocations
        PROVE  route.allocations[a] = Padded(m.allocations)[a]
    <3>1. 2 * a + 2 \in 0 .. 3 + 2 * MaxAllocations /\ 2 * a + 3 \in 0 .. 3 + 2 * MaxAllocations
            /\ (2 * a + 2) + 1 = 2 * a + 3 /\ (2 * a + 3) + 1 = 2 * a + 4
      BY SizeFacts
    <3>2. /\ WordAt(data, BodyAt, 2 * a + 2) = BodyWords(m)[2 * a + 3]
          /\ WordAt(data, BodyAt, 2 * a + 3) = BodyWords(m)[2 * a + 4]
      <4>1. /\ WordAt(data, BodyAt, 2 * a + 2) = BodyWords(m)[(2 * a + 2) + 1]
            /\ WordAt(data, BodyAt, 2 * a + 3) = BodyWords(m)[(2 * a + 3) + 1]
        BY <2>3, <3>1
      <4> QED BY <3>1, <4>1
    <3>3. /\ BodyWords(m)[2 * a + 3] = Padded(m.allocations)[a].id
          /\ BodyWords(m)[2 * a + 4] = Padded(m.allocations)[a].amount
      BY <1>5, BodyWordsAre
    <3>4. Padded(m.allocations)[a] \in AllocationType /\ route.allocations[a] \in AllocationType
      BY <2>2, <2>5, PaddedIs DEF IsArray
    <3> QED BY <2>2, <3>2, <3>3, <3>4 DEF AllocationType
  <2>7. n \in 1 .. MaxAllocations
    <3>1. n \in 0 .. MaxAllocations
      BY <2>5, PaddedIs
    <3>2. n >= 1
      BY <1>5, <3>1, SizeFacts DEF Validate
    <3> QED BY <3>1, <3>2, SizeFacts
  <2>8. \A a \in n + 1 .. MaxAllocations : route.allocations[a] = NoAllocation
    <3> SUFFICES ASSUME NEW a \in n + 1 .. MaxAllocations PROVE route.allocations[a] = NoAllocation
      OBVIOUS
    <3>1. a \in 1 .. MaxAllocations /\ ~(a <= n)
      BY <2>7, SizeFacts
    <3> QED BY <2>6, <3>1 DEF Padded
  <2>9. FirstOf(route, n) = m
    <3> DEFINE f == FirstOf(route, n)
    <3>1. /\ f \in MessageType /\ f.kind = RouteKind /\ f.channel = route.channel /\ f.base = route.base
          /\ f.target = route.target /\ Len(f.allocations) = n
          /\ \A a \in 1 .. n : f.allocations[a] = route.allocations[a]
      BY <2>2, <2>7, FirstOfIs, SizeFacts, SMTT(30)
    <3> HIDE DEF f
    <3>2. \A a \in 1 .. n : f.allocations[a] = m.allocations[a]
      <4> SUFFICES ASSUME NEW a \in 1 .. n PROVE f.allocations[a] = m.allocations[a]
        OBVIOUS
      <4>1. a \in 1 .. MaxAllocations
        BY <2>7, SizeFacts
      <4> QED BY <2>5, <2>6, <3>1, <4>1, PaddedIs
    <3>3. /\ f.allocations \in [1 .. n -> AllocationType] /\ m.allocations \in [1 .. n -> AllocationType]
      <4>1. f.allocations \in AllocationsType
        BY <3>1, MessageKinds
      <4> QED BY <2>5, <3>1, <4>1, PaddedIs
    <3>4. f.allocations = m.allocations
      BY <3>2, <3>3
    <3> QED BY <1>5, <2>4, <3>1, <3>4, MessageKinds DEF f
  <2>10. ClientDecode(data) = {m}
    <3>1. Validate(FirstOf(route, n))
      BY <1>5, <2>9
    <3> QED BY <2>1, <2>4, <2>7, <2>8, <2>9, <3>1 DEF ClientDecode, route
  <2> QED BY <1>1, <2>10, DecodersAgree
<1> QED BY <1>1, <1>4, <1>5 DEF Kinds

-----------------------------------------------------------------------------
(* Records one behind the other.                                           *)

\* Data holds the bytes s behind the first `at`.
HoldsBytes(data, at, s) ==
    /\ at + Len(s) <= Len(data)
    /\ \A p \in 1 .. Len(s) : data[at + p] = s[p]

\* Data holds two sequences, one behind the other, when it holds each at its place.
LEMMA HoldsBoth ==
  ASSUME NEW data \in Seq(Byte), NEW at \in Nat, NEW s \in Seq(Byte), NEW t \in Seq(Byte)
  PROVE  HoldsBytes(data, at, s \o t)
           <=> HoldsBytes(data, at, s) /\ HoldsBytes(data, at + Len(s), t)
<1> DEFINE u == s \o t
<1>1. /\ u \in Seq(Byte) /\ Len(u) = Len(s) + Len(t)
      /\ \A p \in 1 .. Len(s) : u[p] = s[p]
      /\ \A p \in 1 .. Len(t) : u[Len(s) + p] = t[p]
  BY ConcatParts
<1>2. Len(s) \in Nat /\ Len(t) \in Nat /\ Len(data) \in Nat
  OBVIOUS
<1> HIDE DEF u
<1>3. ASSUME HoldsBytes(data, at, u)
      PROVE  HoldsBytes(data, at, s) /\ HoldsBytes(data, at + Len(s), t)
  <2>1. at + Len(u) <= Len(data) /\ \A p \in 1 .. Len(u) : data[at + p] = u[p]
    BY <1>3 DEF HoldsBytes
  <2>2. at + Len(s) <= Len(data) /\ at + Len(s) + Len(t) <= Len(data)
    BY <1>1, <1>2, <2>1
  <2>3. \A p \in 1 .. Len(s) : data[at + p] = s[p]
    <3> SUFFICES ASSUME NEW p \in 1 .. Len(s) PROVE data[at + p] = s[p]
      OBVIOUS
    <3>1. p \in 1 .. Len(u)
      BY <1>1, <1>2
    <3> QED BY <1>1, <2>1, <3>1
  <2>4. \A p \in 1 .. Len(t) : data[at + Len(s) + p] = t[p]
    <3> SUFFICES ASSUME NEW p \in 1 .. Len(t) PROVE data[at + Len(s) + p] = t[p]
      OBVIOUS
    <3>1. Len(s) + p \in 1 .. Len(u) /\ at + (Len(s) + p) = at + Len(s) + p
      BY <1>1, <1>2
    <3>2. data[at + (Len(s) + p)] = u[Len(s) + p]
      BY <2>1, <3>1
    <3> QED BY <1>1, <3>1, <3>2
  <2> QED BY <2>2, <2>3, <2>4 DEF HoldsBytes
<1>4. ASSUME HoldsBytes(data, at, s), HoldsBytes(data, at + Len(s), t)
      PROVE  HoldsBytes(data, at, u)
  <2>1. /\ at + Len(s) + Len(t) <= Len(data)
        /\ \A p \in 1 .. Len(s) : data[at + p] = s[p]
        /\ \A p \in 1 .. Len(t) : data[at + Len(s) + p] = t[p]
    BY <1>4 DEF HoldsBytes
  <2>2. \A p \in 1 .. Len(u) : data[at + p] = u[p]
    <3> SUFFICES ASSUME NEW p \in 1 .. Len(u) PROVE data[at + p] = u[p]
      OBVIOUS
    <3>1. CASE p \in 1 .. Len(s)
      BY <1>1, <2>1, <3>1
    <3>2. CASE p \notin 1 .. Len(s)
      <4>1. p - Len(s) \in 1 .. Len(t) /\ Len(s) + (p - Len(s)) = p
              /\ at + Len(s) + (p - Len(s)) = at + p
        BY <1>1, <1>2, <3>2
      <4>2. data[at + Len(s) + (p - Len(s))] = t[p - Len(s)] /\ u[Len(s) + (p - Len(s))] = t[p - Len(s)]
        BY <1>1, <2>1, <4>1
      <4> QED BY <4>1, <4>2
    <3> QED BY <3>1, <3>2
  <2>3. at + Len(u) <= Len(data)
    BY <1>1, <1>2, <2>1
  <2> QED BY <2>2, <2>3 DEF HoldsBytes
<1> QED BY <1>3, <1>4 DEF u

\* Data holds the bytes of words when it holds the words.
LEMMA HoldsWords ==
  ASSUME NEW data, NEW at \in Nat, NEW n \in Nat \ {0}, NEW ns \in [1 .. n -> Word]
  PROVE  HoldsBytes(data, at, Words(ns)) <=> WordsBehind(data, at, ns, n)
BY WordsAre DEF HoldsBytes, WordsBehind

\* The signature read behind the first `at` bytes is the only one held there.
LEMMA HoldsSignature ==
  ASSUME NEW data \in Seq(Byte), NEW at \in Nat, at + SigBytes <= Len(data)
  PROVE  /\ SigAt(data, at) \in SignatureType /\ HoldsBytes(data, at, SigAt(data, at))
         /\ \A s \in SignatureType : HoldsBytes(data, at, s) => SigAt(data, at) = s
<1> DEFINE s == SigAt(data, at)
<1>1. SigBytes \in Nat /\ Len(data) \in Nat
  BY SizeFacts
<1>2. s = [p \in 1 .. SigBytes |-> data[at + p]]
  <2>1. (at + SigBytes) - (at + 1) + 1 = SigBytes /\ \A p \in 1 .. SigBytes : (at + 1) + p - 1 = at + p
    BY <1>1
  <2>2. SubSeq(data, at + 1, at + SigBytes)
          = [p \in 1 .. (at + SigBytes) - (at + 1) + 1 |-> data[(at + 1) + p - 1]]
    BY <1>1
  <2> QED BY <2>1, <2>2 DEF SigAt
<1>3. ASSUME NEW p \in 1 .. SigBytes PROVE data[at + p] \in Byte
  <2>1. at + p \in 1 .. Len(data)
    BY <1>1
  <2> QED BY <2>1
<1>4. s \in SignatureType /\ Len(s) = SigBytes
  <2> HIDE DEF s
  <2>1. s \in [1 .. SigBytes -> Byte]
    BY <1>2, <1>3
  <2> QED BY <1>1, <2>1 DEF SignatureType
<1>5. HoldsBytes(data, at, s)
  <2> HIDE DEF s
  <2> QED BY <1>2, <1>4 DEF HoldsBytes
<1>6. ASSUME NEW t \in SignatureType, HoldsBytes(data, at, t) PROVE s = t
  <2>1. t \in [1 .. SigBytes -> Byte] /\ Len(t) = SigBytes
    BY <1>1 DEF SignatureType
  <2>2. \A p \in 1 .. SigBytes : data[at + p] = t[p]
    BY <1>6, <2>1 DEF HoldsBytes
  <2> HIDE DEF s
  <2>3. s = [p \in 1 .. SigBytes |-> t[p]]
    BY <1>2, <2>2
  <2> QED BY <2>1, <2>3
<1> QED BY <1>4, <1>5, <1>6

-----------------------------------------------------------------------------
(* A record of one channel.                                                *)

\* Records of one channel.
UniRecords == {r \in RecordType : r.com.kind = Unilateral}

\* Such a record has one signature, and is two words and the signature long.
LEMMA UniRecordIs ==
  ASSUME NEW r \in UniRecords
  PROVE  /\ r.sigs[1] \in SignatureType /\ r.com.channel \in Word /\ r.com.target \in Word
         /\ r = [com |-> [kind |-> Unilateral, channel |-> r.com.channel, target |-> r.com.target],
                 sigs |-> <<r.sigs[1]>>]
         /\ RecordBytes(r) = Words(<<r.com.channel, r.com.target>>) \o r.sigs[1]
         /\ RecordBytes(r) \in Seq(Byte) /\ Len(RecordBytes(r)) = UnilateralRecordLen
<1>1. /\ r = [com |-> r.com, sigs |-> r.sigs] /\ r.com \in MessageType /\ r.com.kind = Unilateral
      /\ r.sigs \in Seq(SignatureType) /\ Len(r.sigs) = 1
  BY DEF UniRecords, RecordType, Unilateral, RouteKind
<1>2. /\ r.com.channel \in Word /\ r.com.target \in Word
      /\ r.com = [kind |-> Unilateral, channel |-> r.com.channel, target |-> r.com.target]
  BY <1>1, MessageKinds
<1>3. r.sigs[1] \in SignatureType /\ r.sigs = <<r.sigs[1]>>
  BY <1>1
<1>4. RecordBytes(r) = Words(<<r.com.channel, r.com.target>>) \o r.sigs[1]
  BY <1>1 DEF RecordBytes
<1> DEFINE w == Words(<<r.com.channel, r.com.target>>)
           s == r.sigs[1]
<1>5. w \in Seq(Byte) /\ Len(w) = WordBytes * 2
  <2>1. <<r.com.channel, r.com.target>> \in [1 .. 2 -> Word] /\ 2 \in Nat \ {0}
    BY <1>2
  <2> QED BY <2>1, WordsAre
<1>6. s \in Seq(Byte) /\ Len(s) = SigBytes
  BY <1>3, SizeFacts DEF SignatureType
<1> HIDE DEF w, s
<1>7. w \o s \in Seq(Byte) /\ Len(w \o s) = UnilateralRecordLen
  <2>1. w \o s \in Seq(Byte) /\ Len(w \o s) = Len(w) + Len(s)
    BY <1>5, <1>6, ConcatParts
  <2> QED BY <1>5, <1>6, <2>1, SizeFacts DEF UnilateralRecordLen
<1> QED BY <1>1, <1>2, <1>3, <1>4, <1>7 DEF w, s

\* The record read behind the first `at` bytes is the only one held there.
LEMMA UniRecordReads ==
  ASSUME NEW data \in Seq(Byte), NEW at \in Nat, at + UnilateralRecordLen <= Len(data)
  PROVE  /\ UnilateralRecordAt(data, at) \in UniRecords
         /\ \A r \in UniRecords :
               HoldsBytes(data, at, RecordBytes(r)) <=> UnilateralRecordAt(data, at) = r
<1> DEFINE u == UnilateralRecordAt(data, at)
           ns == <<WordAt(data, at, 0), WordAt(data, at, 1)>>
           from == at + 2 * WordBytes
<1>1. WordBytes \in Nat /\ SigBytes \in Nat /\ Len(data) \in Nat /\ from \in Nat
        /\ from + SigBytes <= Len(data) /\ at + WordBytes * 2 <= Len(data) /\ from = at + WordBytes * 2
  BY SizeFacts DEF UnilateralRecordLen
<1>2. WordAt(data, at, 0) \in Word /\ WordAt(data, at, 1) \in Word
  <2>1. WordFits(data, at, 0) /\ WordFits(data, at, 1)
    BY <1>1 DEF WordFits
  <2> QED BY <2>1, WordAtIs
<1>3. SigAt(data, from) \in SignatureType /\ HoldsBytes(data, from, SigAt(data, from))
        /\ \A s \in SignatureType : HoldsBytes(data, from, s) => SigAt(data, from) = s
  BY <1>1, HoldsSignature
<1>4. /\ u = [com |-> [kind |-> Unilateral, channel |-> WordAt(data, at, 0), target |-> WordAt(data, at, 1)],
              sigs |-> <<SigAt(data, from)>>]
  BY DEF UnilateralRecordAt
<1> HIDE DEF u, from
<1>5. u \in UniRecords
  <2> DEFINE com == [kind |-> Unilateral, channel |-> WordAt(data, at, 0), target |-> WordAt(data, at, 1)]
             sig == SigAt(data, from)
             sigs == <<sig>>
  <2>1. com \in [kind : {Unilateral}, channel : Word, target : Word] /\ com.kind = Unilateral
    BY <1>2
  <2>2. com \in MessageType
    BY <2>1 DEF MessageType
  <2>3. sigs \in Seq(SignatureType) /\ Len(sigs) = 1
    <3>1. sig \in SignatureType
      BY <1>3
    <3> HIDE DEF sig
    <3> QED BY <3>1
  <2>4. u = [com |-> com, sigs |-> sigs]
    BY <1>4
  <2> HIDE DEF com, sigs
  <2> QED BY <2>1, <2>2, <2>3, <2>4 DEF UniRecords, RecordType, Unilateral, RouteKind
<1>6. ASSUME NEW r \in UniRecords
      PROVE  HoldsBytes(data, at, RecordBytes(r))
               <=> /\ WordsBehind(data, at, <<r.com.channel, r.com.target>>, 2)
                   /\ HoldsBytes(data, from, r.sigs[1])
  <2> DEFINE ms == <<r.com.channel, r.com.target>>
             w == Words(ms)
             s == r.sigs[1]
  <2>1. /\ s \in SignatureType /\ RecordBytes(r) = w \o s
        /\ ms \in [1 .. 2 -> Word] /\ 2 \in Nat \ {0}
    <3>1. /\ s \in SignatureType /\ RecordBytes(r) = w \o s
          /\ r.com.channel \in Word /\ r.com.target \in Word
      BY UniRecordIs
    <3> QED BY <3>1
  <2>2. w \in Seq(Byte) /\ Len(w) = WordBytes * 2
    <3> HIDE DEF ms
    <3> QED BY <2>1, WordsAre
  <2>3. s \in Seq(Byte)
    BY <1>1, <2>1 DEF SignatureType
  <2>4. HoldsBytes(data, at, w) <=> WordsBehind(data, at, ms, 2)
    <3> HIDE DEF ms
    <3> QED BY <2>1, HoldsWords
  <2> HIDE DEF w, s
  <2>5. HoldsBytes(data, at, w \o s) <=> HoldsBytes(data, at, w) /\ HoldsBytes(data, at + Len(w), s)
    BY <2>2, <2>3, HoldsBoth
  <2> QED BY <1>1, <2>1, <2>2, <2>4, <2>5 DEF w, s
<1>7. WordsBehind(data, at, ns, 2)
  <2>1. ns \in [1 .. 2 -> Word] /\ 2 \in Nat \ {0}
    BY <1>2
  <2>2. \A j \in 1 .. 2 : WordAt(data, at, j - 1) = ns[j]
    <3> SUFFICES ASSUME NEW j \in 1 .. 2 PROVE WordAt(data, at, j - 1) = ns[j]
      OBVIOUS
    <3>1. (j = 1 /\ j - 1 = 0) \/ (j = 2 /\ j - 1 = 1)
      OBVIOUS
    <3> QED BY <3>1
  <2> HIDE DEF ns
  <2> QED BY <1>1, <2>1, <2>2, ReadWordsAreBytes
<1>8. ASSUME NEW r \in UniRecords, u = r PROVE HoldsBytes(data, at, RecordBytes(r))
  <2>1. <<r.com.channel, r.com.target>> = ns /\ r.sigs[1] = SigAt(data, from)
    BY <1>4, <1>8
  <2> QED BY <1>3, <1>6, <1>7, <2>1
<1>9. ASSUME NEW r \in UniRecords, HoldsBytes(data, at, RecordBytes(r)) PROVE u = r
  <2>1. /\ WordsBehind(data, at, <<r.com.channel, r.com.target>>, 2)
        /\ HoldsBytes(data, from, r.sigs[1])
    BY <1>6, <1>9
  <2> DEFINE ms == <<r.com.channel, r.com.target>>
  <2>2. WordAt(data, at, 0) = ms[1] /\ WordAt(data, at, 1) = ms[2]
    <3>1. ms \in [1 .. 2 -> Word] /\ 2 \in Nat \ {0} /\ WordsBehind(data, at, ms, 2)
      BY <2>1, UniRecordIs
    <3> HIDE DEF ms
    <3>2. \A j \in 1 .. 2 : WordAt(data, at, j - 1) = ms[j]
      BY <3>1, WordsReadBack
    <3>3. 1 - 1 = 0 /\ 2 - 1 = 1 /\ 1 \in 1 .. 2 /\ 2 \in 1 .. 2
      OBVIOUS
    <3>4. WordAt(data, at, 1 - 1) = ms[1] /\ WordAt(data, at, 2 - 1) = ms[2]
      BY <3>2, <3>3
    <3> QED BY <3>3, <3>4
  <2>3. SigAt(data, from) = r.sigs[1]
    BY <1>3, <2>1, UniRecordIs
  <2> QED BY <1>4, <2>2, <2>3, UniRecordIs
<1> QED BY <1>5, <1>8, <1>9 DEF u

-----------------------------------------------------------------------------
(* A record of a routed channel.                                           *)

\* Records of a route, which names at least one provider; their parts.
RouteRecs == {r \in RecordType : r.com.kind = RouteKind /\ r.com.allocations # <<>>}
CountOf(r) == Len(r.com.allocations)
HeadWords(r) == <<r.com.channel, r.com.base, r.com.target>>
ShareWords(r) == AllocationWords(r.com.allocations)

\* A route's record has two signatures, a count that is a byte, and the bytes of its parts.
LEMMA RouteRecordIs ==
  ASSUME NEW r \in RouteRecs
  PROVE  /\ CountOf(r) \in 1 .. MaxAllocations /\ CountOf(r) \in Byte
         /\ r.com \in MessageType /\ r.com.kind = RouteKind
         /\ r.com.allocations \in [1 .. CountOf(r) -> AllocationType]
         /\ HeadWords(r) \in [1 .. 3 -> Word]
         /\ ShareWords(r) \in [1 .. 2 * CountOf(r) -> Word]
         /\ \A a \in 1 .. CountOf(r) : /\ ShareWords(r)[2 * a - 1] = r.com.allocations[a].id
                                       /\ ShareWords(r)[2 * a] = r.com.allocations[a].amount
         /\ r.sigs[1] \in SignatureType /\ r.sigs[2] \in SignatureType
         /\ r = [com |-> r.com, sigs |-> <<r.sigs[1], r.sigs[2]>>]
         /\ r.com = [kind |-> RouteKind, channel |-> r.com.channel, base |-> r.com.base,
                     target |-> r.com.target, allocations |-> r.com.allocations]
         /\ RecordBytes(r) = Words(HeadWords(r)) \o <<CountOf(r)>> \o Words(ShareWords(r))
                               \o r.sigs[1] \o r.sigs[2]
<1> DEFINE m == r.com
           n == CountOf(r)
<1>1. /\ r = [com |-> r.com, sigs |-> r.sigs] /\ m \in MessageType /\ m.kind = RouteKind
      /\ r.sigs \in Seq(SignatureType) /\ Len(r.sigs) = 2 /\ m.allocations # <<>>
  BY DEF RouteRecs, RecordType
<1>2. /\ m.channel \in Word /\ m.target \in Word /\ m.base \in Word
      /\ m.allocations \in AllocationsType
      /\ m = [kind |-> RouteKind, channel |-> m.channel, base |-> m.base,
              target |-> m.target, allocations |-> m.allocations]
  BY <1>1, MessageKinds
<1>3. n \in 0 .. MaxAllocations /\ m.allocations \in [1 .. n -> AllocationType]
  BY <1>2, PaddedIs DEF CountOf
<1>4. n # 0
  <2>1. m.allocations \in Seq(AllocationType)
    BY <1>3, SizeFacts
  <2> QED BY <1>1, <2>1 DEF CountOf
<1>5. n \in 1 .. MaxAllocations /\ n \in Byte /\ n \in Nat \ {0}
  <2> HIDE DEF n
  <2> QED BY <1>3, <1>4, SizeFacts DEF Byte
<1>6. /\ ShareWords(r) \in [1 .. 2 * n -> Word]
      /\ \A a \in 1 .. n : /\ ShareWords(r)[2 * a - 1] = m.allocations[a].id
                           /\ ShareWords(r)[2 * a] = m.allocations[a].amount
  <2> DEFINE s == m.allocations
  <2>1. s \in [1 .. n -> AllocationType] /\ n \in Nat \ {0} /\ 2 * n \in Nat
    <3> HIDE DEF n
    <3> QED BY <1>3, <1>5
  <2> HIDE DEF s, n
  <2>2. /\ AllocationWords(s) \in Seq(Word) /\ Len(AllocationWords(s)) = 2 * n
        /\ \A a \in 1 .. n : /\ AllocationWords(s)[2 * a - 1] = s[a].id
                             /\ AllocationWords(s)[2 * a] = s[a].amount
    BY <2>1, AllocationWordsAre
  <2>3. AllocationWords(s) \in [1 .. 2 * n -> Word]
    BY <2>1, <2>2, SeqOfLen
  <2> QED BY <2>2, <2>3 DEF s, ShareWords
<1>7. HeadWords(r) \in [1 .. 3 -> Word]
  BY <1>2 DEF HeadWords
<1>8. r.sigs[1] \in SignatureType /\ r.sigs[2] \in SignatureType /\ r.sigs = <<r.sigs[1], r.sigs[2]>>
  BY <1>1
<1>9. RecordBytes(r) = Words(HeadWords(r)) \o <<CountOf(r)>> \o Words(ShareWords(r))
                         \o r.sigs[1] \o r.sigs[2]
  BY <1>1 DEF RecordBytes, HeadWords, ShareWords, CountOf, RouteKind, Unilateral
<1>10. r = [com |-> r.com, sigs |-> <<r.sigs[1], r.sigs[2]>>]
  BY <1>1, <1>8
<1> QED BY <1>1, <1>2, <1>3, <1>5, <1>6, <1>7, <1>8, <1>9, <1>10

\* Bytes of n allocations, and where the signatures behind them begin.
ShareBytes(n) == WordBytes * (2 * n)
SigsAt(at, n) == at + CountAt + ShareBytes(n)

\* The length of a route's record, and its parts.
LEMMA RouteSizes ==
  ASSUME NEW n \in Nat
  PROVE  /\ ShareBytes(n) \in Nat /\ CountAt \in Nat /\ CountAt = WordBytes * 3 + 1
         /\ n * 2 * WordBytes = ShareBytes(n)
         /\ RouteRecordLen(n) = CountAt + 2 * SigBytes + ShareBytes(n)
         /\ RouteRecordLen(n) >= RouteRecordLen(0)
<1>1. n * 2 * WordBytes = WordBytes * (2 * n) /\ WordBytes * (2 * n) \in Nat /\ SigBytes \in Nat
        /\ 0 * 2 * WordBytes = 0
  BY SizeFacts
<1>2. CountAt \in Nat /\ CountAt = WordBytes * 3 + 1
  BY SizeFacts DEF CountAt
<1> QED BY <1>1, <1>2 DEF ShareBytes, RouteRecordLen

\* A route's record is held part by part.
HoldsParts(data, at, r) ==
    /\ WordsBehind(data, at, HeadWords(r), 3)
    /\ at + CountAt <= Len(data) /\ data[at + CountAt] = CountOf(r)
    /\ WordsBehind(data, at + CountAt, ShareWords(r), 2 * CountOf(r))
    /\ HoldsBytes(data, SigsAt(at, CountOf(r)), r.sigs[1])
    /\ HoldsBytes(data, SigsAt(at, CountOf(r)) + SigBytes, r.sigs[2])

\* Five sequences one behind the other, and that each is held where it belongs.
Joined(all, a, b, c, d, e) == all = a \o b \o c \o d \o e
HoldsAll(data, at, a, b, c, d, e) ==
    /\ HoldsBytes(data, at, a)
    /\ HoldsBytes(data, at + Len(a), b)
    /\ HoldsBytes(data, at + Len(a) + Len(b), c)
    /\ HoldsBytes(data, at + Len(a) + Len(b) + Len(c), d)
    /\ HoldsBytes(data, at + Len(a) + Len(b) + Len(c) + Len(d), e)

HeldInParts(data, at, all, a, b, c, d, e) ==
    /\ all \in Seq(Byte) /\ Len(all) = Len(a) + Len(b) + Len(c) + Len(d) + Len(e)
    /\ HoldsBytes(data, at, all) <=> HoldsAll(data, at, a, b, c, d, e)

\* They are held when each is.
LEMMA HoldsFive ==
  ASSUME NEW data \in Seq(Byte), NEW at \in Nat, NEW a \in Seq(Byte), NEW b \in Seq(Byte),
         NEW c \in Seq(Byte), NEW d \in Seq(Byte), NEW e \in Seq(Byte),
         NEW all, Joined(all, a, b, c, d, e)
  PROVE  HeldInParts(data, at, all, a, b, c, d, e)
<1> DEFINE ab == a \o b
           abc == ab \o c
           abcd == abc \o d
           abcde == abcd \o e
<1>0. Len(a) \in Nat /\ Len(b) \in Nat /\ Len(c) \in Nat /\ Len(d) \in Nat /\ Len(e) \in Nat
  OBVIOUS
<1>1. /\ ab \in Seq(Byte) /\ Len(ab) = Len(a) + Len(b)
      /\ HoldsBytes(data, at, ab) <=> HoldsBytes(data, at, a) /\ HoldsBytes(data, at + Len(a), b)
  BY ConcatParts, HoldsBoth
<1>. HIDE DEF ab
<1>2. /\ abc \in Seq(Byte) /\ Len(abc) = Len(ab) + Len(c)
      /\ HoldsBytes(data, at, abc) <=> HoldsBytes(data, at, ab) /\ HoldsBytes(data, at + Len(ab), c)
  BY <1>1, ConcatParts, HoldsBoth
<1>. HIDE DEF abc
<1>3. /\ abcd \in Seq(Byte) /\ Len(abcd) = Len(abc) + Len(d)
      /\ HoldsBytes(data, at, abcd) <=> HoldsBytes(data, at, abc) /\ HoldsBytes(data, at + Len(abc), d)
  BY <1>2, ConcatParts, HoldsBoth
<1>. HIDE DEF abcd
<1>4. /\ abcde \in Seq(Byte) /\ Len(abcde) = Len(abcd) + Len(e)
      /\ HoldsBytes(data, at, abcde) <=> HoldsBytes(data, at, abcd) /\ HoldsBytes(data, at + Len(abcd), e)
  BY <1>3, ConcatParts, HoldsBoth
<1>5. all = abcde
  BY DEF ab, abc, abcd, Joined
<1>. HIDE DEF abcde
<1>6. /\ at + Len(ab) = at + Len(a) + Len(b) /\ at + Len(abc) = at + Len(a) + Len(b) + Len(c)
      /\ at + Len(abcd) = at + Len(a) + Len(b) + Len(c) + Len(d)
  BY <1>0, <1>1, <1>2, <1>3
<1>7. Len(abcde) = Len(a) + Len(b) + Len(c) + Len(d) + Len(e)
  BY <1>0, <1>1, <1>2, <1>3, <1>4
<1> QED BY <1>1, <1>2, <1>3, <1>4, <1>5, <1>6, <1>7 DEF HoldsAll, HeldInParts

\* A route's record is held when each of its parts is.
LEMMA RouteHolds ==
  ASSUME NEW data \in Seq(Byte), NEW at \in Nat, NEW r \in RouteRecs
  PROVE  /\ RecordBytes(r) \in Seq(Byte) /\ Len(RecordBytes(r)) = RouteRecordLen(CountOf(r))
         /\ HoldsBytes(data, at, RecordBytes(r)) <=> HoldsParts(data, at, r)
<1> DEFINE n == CountOf(r)
           a == Words(HeadWords(r))
           b == <<n>>
           c == Words(ShareWords(r))
           d == r.sigs[1]
           e == r.sigs[2]
           w == 3
           v == 2 * n
<1>1. /\ n \in Nat \ {0} /\ n \in Byte /\ v \in Nat \ {0} /\ w \in Nat \ {0}
      /\ d \in SignatureType /\ e \in SignatureType
      /\ HeadWords(r) \in [1 .. w -> Word] /\ ShareWords(r) \in [1 .. v -> Word]
      /\ Joined(RecordBytes(r), a, b, c, d, e)
  <2>1. n \in 1 .. MaxAllocations
    BY RouteRecordIs
  <2>2. n \in Nat \ {0} /\ v \in Nat \ {0}
    <3> HIDE DEF n
    <3> QED BY <2>1, SizeFacts
  <2>3. /\ n \in Byte /\ d \in SignatureType /\ e \in SignatureType
        /\ HeadWords(r) \in [1 .. 3 -> Word] /\ ShareWords(r) \in [1 .. 2 * CountOf(r) -> Word]
    BY RouteRecordIs
  <2>4. Joined(RecordBytes(r), a, b, c, d, e)
    BY RouteRecordIs DEF Joined
  <2> QED BY <2>2, <2>3, <2>4
<1>2. d \in Seq(Byte) /\ Len(d) = SigBytes /\ e \in Seq(Byte) /\ Len(e) = SigBytes
  <2>1. SigBytes \in Nat /\ d \in [1 .. SigBytes -> Byte] /\ e \in [1 .. SigBytes -> Byte]
    BY <1>1, SizeFacts DEF SignatureType
  <2> HIDE DEF d, e
  <2> QED BY <2>1
<1>3. b \in Seq(Byte) /\ Len(b) = 1 /\ b[1] = n
  <2> HIDE DEF n
  <2> QED BY <1>1
<1> HIDE DEF w, v, n
<1>4. a \in Seq(Byte) /\ Len(a) = WordBytes * w /\ c \in Seq(Byte) /\ Len(c) = WordBytes * v
  BY <1>1, WordsAre
<1>5. \A p \in Nat : /\ HoldsBytes(data, p, a) <=> WordsBehind(data, p, HeadWords(r), w)
                     /\ HoldsBytes(data, p, c) <=> WordsBehind(data, p, ShareWords(r), v)
  BY <1>1, HoldsWords
<1>6. ASSUME NEW p \in Nat
      PROVE  HoldsBytes(data, p, b) <=> p + 1 <= Len(data) /\ data[p + 1] = n
  BY <1>3 DEF HoldsBytes
<1>l. /\ Len(a) = WordBytes * 3 /\ Len(b) = 1 /\ Len(c) = ShareBytes(n)
      /\ Len(d) = SigBytes /\ Len(e) = SigBytes
  BY <1>2, <1>3, <1>4 DEF v, w, ShareBytes
<1> HIDE DEF a, b, c, d, e
<1>7. /\ Len(RecordBytes(r)) = Len(a) + Len(b) + Len(c) + Len(d) + Len(e)
      /\ RecordBytes(r) \in Seq(Byte)
      /\ HoldsBytes(data, at, RecordBytes(r)) <=> HoldsAll(data, at, a, b, c, d, e)
  <2>1. /\ data \in Seq(Byte) /\ at \in Nat /\ a \in Seq(Byte) /\ b \in Seq(Byte) /\ c \in Seq(Byte)
        /\ d \in Seq(Byte) /\ e \in Seq(Byte) /\ Joined(RecordBytes(r), a, b, c, d, e)
    BY <1>1, <1>2, <1>3, <1>4
  <2> DEFINE all == RecordBytes(r)
  <2>2. Joined(all, a, b, c, d, e)
    BY <2>1
  <2> HIDE DEF all
  <2>3. HeldInParts(data, at, all, a, b, c, d, e)
    BY ONLY <2>1, <2>2, HoldsFive
  <2> QED BY <2>3 DEF HeldInParts, all
<1>8. /\ at + Len(a) \in Nat /\ at + Len(a) + 1 = at + CountAt /\ at + Len(a) + Len(b) = at + CountAt
      /\ at + CountAt \in Nat
      /\ at + Len(a) + Len(b) + Len(c) = SigsAt(at, n)
      /\ at + Len(a) + Len(b) + Len(c) + Len(d) = SigsAt(at, n) + SigBytes
      /\ Len(a) + Len(b) + Len(c) + Len(d) + Len(e) = RouteRecordLen(n)
  <2>1. /\ ShareBytes(n) \in Nat /\ CountAt \in Nat /\ CountAt = WordBytes * 3 + 1
        /\ RouteRecordLen(n) = CountAt + 2 * SigBytes + ShareBytes(n)
    BY <1>1, RouteSizes
  <2>2. \A x \in Nat : x = WordBytes * 3 => at + x \in Nat /\ x + 1 = CountAt
    BY <2>1
  <2>3. WordBytes * 3 \in Nat /\ SigBytes \in Nat
    BY SizeFacts
  <2>4. CountAt - 1 \in Nat /\ Len(a) = CountAt - 1
    BY <1>l, <2>1, <2>3
  <2> DEFINE x == CountAt - 1
             y == ShareBytes(n)
             z == SigBytes
  <2>5. /\ x \in Nat /\ y \in Nat /\ z \in Nat /\ x + 1 = CountAt
        /\ RouteRecordLen(n) = x + 1 + 2 * z + y
    BY <2>1, <2>3, <2>4
  <2>6. Len(a) = x /\ Len(b) = 1 /\ Len(c) = y /\ Len(d) = z /\ Len(e) = z
    BY <1>l, <2>4
  <2>7. SigsAt(at, n) = at + (x + 1) + y
    BY <2>5 DEF SigsAt
  <2> HIDE DEF x, y, z
  <2>8. x + 1 + y + z + z = RouteRecordLen(n)
    BY <2>5
  <2>9. at + x + 1 = at + (x + 1) /\ at + (x + 1) \in Nat
    BY <2>5
  <2>10. at + CountAt = at + (x + 1) /\ at + x \in Nat
    BY <2>5
  <2>11. /\ at + Len(a) = at + x /\ at + Len(a) + 1 = at + CountAt
         /\ at + Len(a) + Len(b) = at + CountAt
    BY <2>6, <2>9, <2>10
  <2>12. /\ at + Len(a) + Len(b) + Len(c) = SigsAt(at, n)
         /\ at + Len(a) + Len(b) + Len(c) + Len(d) = SigsAt(at, n) + z
    BY <2>6, <2>7, <2>10, <2>11
  <2>13. Len(a) + Len(b) + Len(c) + Len(d) + Len(e) = RouteRecordLen(n)
    BY <2>6, <2>8
  <2>14. z = SigBytes
    BY DEF z
  <2> QED BY <2>9, <2>10, <2>11, <2>12, <2>13, <2>14
<1>9. HoldsParts(data, at, r) <=>
        /\ WordsBehind(data, at, HeadWords(r), w)
        /\ at + CountAt <= Len(data) /\ data[at + CountAt] = n
        /\ WordsBehind(data, at + CountAt, ShareWords(r), v)
        /\ HoldsBytes(data, SigsAt(at, n), d)
        /\ HoldsBytes(data, SigsAt(at, n) + SigBytes, e)
  BY DEF HoldsParts, n, w, v, d, e
<1> QED BY <1>5, <1>6, <1>7, <1>8, <1>9 DEF n, HoldsAll

\* Where a record fits, the one that is read there is held there.
LEMMA RouteReads ==
  ASSUME NEW data \in Seq(Byte), NEW at \in Nat, HasRecord(data, at)
  PROVE  /\ RouteRecordAt(data, at) \in RouteRecs
         /\ CountOf(RouteRecordAt(data, at)) = data[at + CountAt]
         /\ HoldsBytes(data, at, RecordBytes(RouteRecordAt(data, at)))
<1> DEFINE n == data[at + CountAt]
           sa == SigsAt(at, n)
           shares == [a \in 1 .. n |-> [id |-> WordAt(data, at + CountAt, 2 * a - 2),
                                        amount |-> WordAt(data, at + CountAt, 2 * a - 1)]]
           com == [kind |-> RouteKind, channel |-> WordAt(data, at, 0), base |-> WordAt(data, at, 1),
                   target |-> WordAt(data, at, 2), allocations |-> shares]
           s == SigAt(data, sa)
           t == SigAt(data, sa + SigBytes)
           u == RouteRecordAt(data, at)
           w == 3
           v == 2 * n
<1>1. /\ n \in 1 .. MaxAllocations /\ n \in Nat /\ n \in Nat \ {0} /\ at + RouteRecordLen(n) <= Len(data)
      /\ v \in Nat \ {0} /\ w \in Nat \ {0}
  BY SizeFacts, SMTT(30) DEF HasRecord
<1>2. /\ ShareBytes(n) \in Nat /\ ShareBytes(n) = WordBytes * v /\ CountAt \in Nat
      /\ CountAt = WordBytes * 3 + 1 /\ WordBytes * 3 \in Nat
      /\ n * 2 * WordBytes = ShareBytes(n)
      /\ RouteRecordLen(n) = CountAt + 2 * SigBytes + ShareBytes(n)
      /\ SigBytes \in Nat /\ Len(data) \in Nat
  <2> HIDE DEF n
  <2> QED BY <1>1, RouteSizes, SizeFacts DEF ShareBytes
<1> HIDE DEF n, v, w
<1>3. /\ sa \in Nat /\ sa + SigBytes \in Nat /\ sa + SigBytes <= Len(data)
      /\ sa + SigBytes + SigBytes <= Len(data)
      /\ at + CountAt \in Nat /\ at + CountAt + WordBytes * v <= Len(data)
      /\ at + WordBytes * 3 <= Len(data) /\ at + CountAt <= Len(data)
  <2> DEFINE y == ShareBytes(n)
             z == SigBytes
             c == CountAt
             l == Len(data)
             q == WordBytes * 3
  <2>1. /\ y \in Nat /\ z \in Nat /\ c \in Nat /\ l \in Nat /\ q \in Nat /\ c = q + 1
        /\ RouteRecordLen(n) = c + 2 * z + y /\ at + RouteRecordLen(n) <= l
    BY <1>1, <1>2
  <2>2. sa = at + c + y
    BY DEF SigsAt
  <2> HIDE DEF y, z, c, l, q, sa
  <2>3. /\ sa \in Nat /\ sa + z \in Nat /\ sa + z <= l /\ sa + z + z <= l
        /\ at + c \in Nat /\ at + c + y <= l /\ at + q <= l /\ at + c <= l
    BY ONLY at \in Nat, <2>1, <2>2
  <2> QED BY <1>2, <2>3 DEF y, z, c, l, q
<1>4. u = [com |-> com, sigs |-> <<s, t>>]
  <2>1. at + CountAt + n * 2 * WordBytes = sa
    BY <1>2 DEF SigsAt
  <2> QED BY <2>1 DEF RouteRecordAt, n
<1>5. \A j \in 1 .. 3 : WordAt(data, at, j - 1) \in Word
  <2> SUFFICES ASSUME NEW j \in 1 .. w PROVE WordAt(data, at, j - 1) \in Word
    BY DEF w
  <2>0. at + WordBytes * w <= Len(data) /\ w \in Nat
    BY <1>1, <1>3 DEF w
  <2>1. WordFits(data, at, j - 1) /\ j - 1 \in Nat
    BY <2>0, WordFitsIn
  <2> QED BY <2>1, WordAtIs
<1>6. \A j \in 1 .. v : WordAt(data, at + CountAt, j - 1) \in Word
  <2> SUFFICES ASSUME NEW j \in 1 .. v PROVE WordAt(data, at + CountAt, j - 1) \in Word
    OBVIOUS
  <2> DEFINE from == at + CountAt
  <2>1. from \in Nat /\ from + WordBytes * v <= Len(data) /\ v \in Nat
    BY <1>1, <1>3
  <2> HIDE DEF from
  <2>2. WordFits(data, from, j - 1) /\ j - 1 \in Nat
    BY <2>1, WordFitsIn
  <2>3. WordAt(data, from, j - 1) \in Word
    BY <2>1, <2>2, WordAtIs
  <2> QED BY <2>3 DEF from
<1>7. shares \in [1 .. n -> AllocationType]
  <2> SUFFICES ASSUME NEW a \in 1 .. n
               PROVE  /\ WordAt(data, at + CountAt, 2 * a - 2) \in Word
                      /\ WordAt(data, at + CountAt, 2 * a - 1) \in Word
    BY DEF AllocationType
  <2>1. 2 * a - 1 \in 1 .. v /\ 2 * a \in 1 .. v /\ (2 * a - 1) - 1 = 2 * a - 2
    BY <1>1 DEF v
  <2> QED BY <1>6, <2>1
<1>8. s \in SignatureType /\ HoldsBytes(data, sa, s)
  <2> HIDE DEF sa
  <2> QED BY <1>3, HoldsSignature
<1>9. t \in SignatureType /\ HoldsBytes(data, sa + SigBytes, t)
  <2> DEFINE sb == sa + SigBytes
  <2>1. sb \in Nat /\ sb + SigBytes <= Len(data)
    BY <1>3
  <2> HIDE DEF sb
  <2>2. SigAt(data, sb) \in SignatureType /\ HoldsBytes(data, sb, SigAt(data, sb))
    BY <2>1, HoldsSignature
  <2> QED BY <2>2 DEF sb
<1>10. u \in RouteRecs /\ CountOf(u) = n
  <2>1. shares \in AllocationsType /\ shares # <<>> /\ Len(shares) = n
    <3>1. shares \in AllocationsType
      <4> HIDE DEF shares
      <4>1. n \in 0 .. MaxAllocations
        BY <1>1
      <4> QED BY <1>7, <4>1 DEF AllocationsType, AllocationType
    <3>2. shares \in Seq(AllocationType) /\ Len(shares) = n
      <4> HIDE DEF shares
      <4> QED BY <1>1, <1>7
    <3>3. shares # <<>>
      <4> HIDE DEF shares
      <4> QED BY <1>1, <3>2
    <3> QED BY <3>1, <3>2, <3>3
  <2>2. WordAt(data, at, 0) \in Word /\ WordAt(data, at, 1) \in Word /\ WordAt(data, at, 2) \in Word
    <3>1. 1 \in 1 .. 3 /\ 1 - 1 = 0 /\ 2 \in 1 .. 3 /\ 2 - 1 = 1 /\ 3 \in 1 .. 3 /\ 3 - 1 = 2
      OBVIOUS
    <3> QED BY <1>5, <3>1
  <2> HIDE DEF shares
  <2>3. com \in MessageType /\ com.kind = RouteKind /\ com.allocations = shares
    BY <2>1, <2>2 DEF MessageType
  <2> HIDE DEF com, s, t
  <2>4. <<s, t>> \in Seq(SignatureType) /\ Len(<<s, t>>) = 2
    BY <1>8, <1>9
  <2>5. u \in RecordType /\ u.com = com
    <3> DEFINE sigs == <<s, t>>
    <3>1. u = [com |-> com, sigs |-> sigs] /\ sigs \in Seq(SignatureType) /\ Len(sigs) = 2
      BY <1>4, <2>4
    <3> HIDE DEF sigs, u
    <3> QED BY <2>3, <3>1 DEF RecordType
  <2> HIDE DEF u
  <2> QED BY <2>1, <2>3, <2>5 DEF RouteRecs, CountOf
<1>11. u.com = com /\ u.sigs[1] = s /\ u.sigs[2] = t
  BY <1>4
<1>12. HeadWords(u) \in [1 .. w -> Word] /\ WordsBehind(data, at, HeadWords(u), w)
  <2>1. HeadWords(u) \in [1 .. w -> Word]
    <3> HIDE DEF u
    <3> QED BY <1>10, RouteRecordIs DEF w
  <2>2. HeadWords(u) = <<WordAt(data, at, 0), WordAt(data, at, 1), WordAt(data, at, 2)>>
    BY <1>11 DEF HeadWords
  <2>3. \A j \in 1 .. w : WordAt(data, at, j - 1) = HeadWords(u)[j]
    <3> SUFFICES ASSUME NEW j \in 1 .. 3 PROVE WordAt(data, at, j - 1) = HeadWords(u)[j]
      BY DEF w
    <3>1. (j = 1 /\ j - 1 = 0) \/ (j = 2 /\ j - 1 = 1) \/ (j = 3 /\ j - 1 = 2)
      OBVIOUS
    <3> HIDE DEF u
    <3> QED BY <2>2, <3>1
  <2> DEFINE hs == HeadWords(u)
  <2>4. hs \in [1 .. w -> Word] /\ \A j \in 1 .. w : WordAt(data, at, j - 1) = hs[j]
    BY <2>1, <2>3
  <2>5. at + WordBytes * w <= Len(data)
    BY <1>3 DEF w
  <2> HIDE DEF hs
  <2>6. WordsBehind(data, at, hs, w)
    BY <1>1, <2>4, <2>5, ReadWordsAreBytes
  <2> QED BY <2>1, <2>6 DEF hs
<1>13. WordsBehind(data, at + CountAt, ShareWords(u), v)
  <2> DEFINE hs == ShareWords(u)
             from == at + CountAt
  <2>1. /\ hs \in [1 .. v -> Word]
        /\ \A a \in 1 .. n : hs[2 * a - 1] = shares[a].id /\ hs[2 * a] = shares[a].amount
    <3>1. u.com.allocations = shares
      BY <1>11
    <3> HIDE DEF u, shares
    <3> QED BY <1>10, <3>1, RouteRecordIs DEF v
  <2>2. ASSUME NEW j \in 1 .. v PROVE WordAt(data, from, j - 1) = hs[j]
    <3>0. \E a \in 1 .. n : (j = 2 * a - 1 /\ j - 1 = 2 * a - 2) \/ (j = 2 * a /\ j - 1 = 2 * a - 1)
      <4> DEFINE a == (j + 1) \div 2
      <4>1. a \in 1 .. n /\ (j = 2 * a - 1 \/ j = 2 * a)
        BY <1>1 DEF v
      <4>2. (j = 2 * a - 1 => j - 1 = 2 * a - 2) /\ (j = 2 * a => j - 1 = 2 * a - 1)
        BY <1>1, <4>1
      <4> QED BY <4>1, <4>2
    <3>1. PICK a \in 1 .. n : (j = 2 * a - 1 /\ j - 1 = 2 * a - 2) \/ (j = 2 * a /\ j - 1 = 2 * a - 1)
      BY <3>0
    <3>2. shares[a].id = WordAt(data, from, 2 * a - 2) /\ shares[a].amount = WordAt(data, from, 2 * a - 1)
      OBVIOUS
    <3> HIDE DEF hs, shares, from
    <3> QED BY <2>1, <3>1, <3>2
  <2>3. from \in Nat /\ from + WordBytes * v <= Len(data) /\ v \in Nat \ {0}
    BY <1>1, <1>3
  <2> HIDE DEF hs, from
  <2>4. WordsBehind(data, from, hs, v)
    BY <2>1, <2>2, <2>3, ReadWordsAreBytes
  <2> QED BY <2>4 DEF hs, from
<1>14. HoldsParts(data, at, u)
  <2>1. data[at + CountAt] = CountOf(u) /\ CountOf(u) = n
    BY <1>10 DEF n
  <2> HIDE DEF u, s, t, com
  <2> QED BY <1>3, <1>8, <1>9, <1>11, <1>12, <1>13, <2>1 DEF HoldsParts, w, v
<1> HIDE DEF u
<1>15. HoldsBytes(data, at, RecordBytes(u))
  BY <1>10, <1>14, RouteHolds
<1> QED BY <1>10, <1>15 DEF u, n

\* Where a route's record is held, it fits, and is the one that is read there.
LEMMA RouteReadsBack ==
  ASSUME NEW data \in Seq(Byte), NEW at \in Nat, NEW r \in RouteRecs,
         HoldsBytes(data, at, RecordBytes(r))
  PROVE  HasRecord(data, at) /\ RouteRecordAt(data, at) = r /\ data[at + CountAt] = CountOf(r)
<1> DEFINE n == CountOf(r)
           w == 3
           v == 2 * n
           m == r.com
<1>1. /\ n \in 1 .. MaxAllocations /\ n \in Nat /\ v \in Nat \ {0} /\ w \in Nat \ {0}
      /\ HeadWords(r) \in [1 .. w -> Word] /\ ShareWords(r) \in [1 .. v -> Word]
      /\ m.allocations \in [1 .. n -> AllocationType]
      /\ \A a \in 1 .. n : /\ ShareWords(r)[2 * a - 1] = m.allocations[a].id
                           /\ ShareWords(r)[2 * a] = m.allocations[a].amount
      /\ r.sigs[1] \in SignatureType /\ r.sigs[2] \in SignatureType
  <2>1. n \in 1 .. MaxAllocations
    BY RouteRecordIs
  <2>2. n \in Nat /\ v \in Nat \ {0}
    <3> HIDE DEF n
    <3> QED BY <2>1, SizeFacts
  <2>3. /\ HeadWords(r) \in [1 .. 3 -> Word] /\ ShareWords(r) \in [1 .. 2 * CountOf(r) -> Word]
        /\ m.allocations \in [1 .. n -> AllocationType]
        /\ \A a \in 1 .. n : /\ ShareWords(r)[2 * a - 1] = m.allocations[a].id
                             /\ ShareWords(r)[2 * a] = m.allocations[a].amount
        /\ r.sigs[1] \in SignatureType /\ r.sigs[2] \in SignatureType
    BY RouteRecordIs
  <2> QED BY <2>1, <2>2, <2>3
<1>2. HoldsParts(data, at, r) /\ Len(RecordBytes(r)) = RouteRecordLen(n)
  BY RouteHolds
<1>3. /\ ShareBytes(n) \in Nat /\ CountAt \in Nat /\ CountAt = WordBytes * 3 + 1
      /\ n * 2 * WordBytes = ShareBytes(n)
      /\ RouteRecordLen(n) >= RouteRecordLen(0) /\ RouteRecordLen(n) \in Nat /\ RouteRecordLen(0) \in Nat
      /\ SigBytes \in Nat /\ Len(data) \in Nat
  <2>1. n \in Nat /\ 0 \in Nat
    BY <1>1
  <2> HIDE DEF n
  <2>2. /\ ShareBytes(n) \in Nat /\ CountAt \in Nat /\ CountAt = WordBytes * 3 + 1
        /\ n * 2 * WordBytes = ShareBytes(n) /\ RouteRecordLen(n) >= RouteRecordLen(0)
        /\ RouteRecordLen(n) = CountAt + 2 * SigBytes + ShareBytes(n)
    BY <2>1, RouteSizes
  <2>3. RouteRecordLen(0) = CountAt + 2 * SigBytes + ShareBytes(0) /\ ShareBytes(0) \in Nat
    BY RouteSizes
  <2>4. SigBytes \in Nat
    BY SizeFacts
  <2>5. RouteRecordLen(0) \in Nat /\ RouteRecordLen(n) \in Nat
    BY <2>2, <2>3, <2>4
  <2> QED BY <2>2, <2>4, <2>5
<1>4. at + RouteRecordLen(n) <= Len(data)
  BY <1>2 DEF HoldsBytes
<1>5. data[at + CountAt] = n /\ at + CountAt \in Nat
  BY <1>2, <1>3 DEF HoldsParts
<1> HIDE DEF n, v, w
<1>6. HasRecord(data, at)
  BY <1>1, <1>3, <1>4, <1>5, SMTT(30) DEF HasRecord
<1>7. ASSUME NEW j \in 1 .. w PROVE WordAt(data, at, j - 1) = HeadWords(r)[j]
  <2>1. WordsBehind(data, at, HeadWords(r), w)
    BY <1>2 DEF HoldsParts, w
  <2> DEFINE hs == HeadWords(r)
  <2>2. hs \in [1 .. w -> Word] /\ w \in Nat \ {0} /\ WordsBehind(data, at, hs, w)
    BY <1>1, <2>1
  <2> HIDE DEF hs
  <2>3. WordAt(data, at, j - 1) = hs[j]
    BY <2>2, WordsReadBack
  <2> QED BY <2>3 DEF hs
<1>8. ASSUME NEW j \in 1 .. v PROVE WordAt(data, at + CountAt, j - 1) = ShareWords(r)[j]
  <2> DEFINE from == at + CountAt
  <2>1. WordsBehind(data, from, ShareWords(r), v)
    BY <1>2 DEF HoldsParts, v, n
  <2>2. from \in Nat
    BY <1>5
  <2> DEFINE hs == ShareWords(r)
  <2>3. hs \in [1 .. v -> Word] /\ v \in Nat \ {0} /\ WordsBehind(data, from, hs, v)
    BY <1>1, <2>1
  <2> HIDE DEF from, hs
  <2>4. WordAt(data, from, j - 1) = hs[j]
    BY <2>2, <2>3, WordsReadBack
  <2> QED BY <2>4 DEF from, hs
<1>9. WordAt(data, at, 0) = m.channel /\ WordAt(data, at, 1) = m.base /\ WordAt(data, at, 2) = m.target
  <2>1. 1 \in 1 .. w /\ 1 - 1 = 0 /\ 2 \in 1 .. w /\ 2 - 1 = 1 /\ 3 \in 1 .. w /\ 3 - 1 = 2
    BY DEF w
  <2>2. /\ WordAt(data, at, 0) = HeadWords(r)[1] /\ WordAt(data, at, 1) = HeadWords(r)[2]
        /\ WordAt(data, at, 2) = HeadWords(r)[3]
    BY <1>7, <2>1
  <2> QED BY <2>2 DEF HeadWords
<1> DEFINE shares == [a \in 1 .. n |-> [id |-> WordAt(data, at + CountAt, 2 * a - 2),
                                        amount |-> WordAt(data, at + CountAt, 2 * a - 1)]]
<1>10. shares = m.allocations
  <2>1. ASSUME NEW a \in 1 .. n PROVE shares[a] = m.allocations[a]
    <3>1. 2 * a - 1 \in 1 .. v /\ 2 * a \in 1 .. v /\ (2 * a - 1) - 1 = 2 * a - 2
      BY <1>1 DEF v
    <3>2. /\ WordAt(data, at + CountAt, 2 * a - 2) = m.allocations[a].id
          /\ WordAt(data, at + CountAt, 2 * a - 1) = m.allocations[a].amount
      BY <1>1, <1>8, <3>1
    <3>3. m.allocations[a] = [id |-> m.allocations[a].id, amount |-> m.allocations[a].amount]
      BY <1>1 DEF AllocationType
    <3> QED BY <3>2, <3>3
  <2>2. shares = [a \in 1 .. n |-> shares[a]]
    OBVIOUS
  <2>3. m.allocations = [a \in 1 .. n |-> m.allocations[a]]
    BY <1>1
  <2> HIDE DEF shares
  <2> QED BY <2>1, <2>2, <2>3
<1>11. /\ SigAt(data, SigsAt(at, n)) = r.sigs[1]
       /\ SigAt(data, SigsAt(at, n) + SigBytes) = r.sigs[2]
  <2> DEFINE sa == SigsAt(at, n)
             sb == sa + SigBytes
  <2>1. HoldsBytes(data, sa, r.sigs[1]) /\ HoldsBytes(data, sb, r.sigs[2])
    BY <1>2 DEF HoldsParts, n
  <2>2. sa \in Nat /\ sb \in Nat
    <3>1. sa = at + CountAt + ShareBytes(n) /\ at + CountAt \in Nat /\ ShareBytes(n) \in Nat
            /\ SigBytes \in Nat
      BY <1>3, <1>5 DEF SigsAt
    <3> HIDE DEF sa
    <3> QED BY ONLY <3>1
  <2> HIDE DEF sa, sb
  <2>3. ASSUME NEW p \in Nat, NEW s \in SignatureType, HoldsBytes(data, p, s)
        PROVE  SigAt(data, p) = s
    <3>1. Len(s) = SigBytes
      BY <1>3 DEF SignatureType
    <3>2. p + SigBytes <= Len(data)
      BY <2>3, <3>1 DEF HoldsBytes
    <3> QED BY <2>3, <3>2, HoldsSignature
  <2>4. SigAt(data, sa) = r.sigs[1] /\ SigAt(data, sb) = r.sigs[2]
    BY <1>1, <2>1, <2>2, <2>3
  <2> QED BY <2>4 DEF sa, sb
<1>12. RouteRecordAt(data, at) =
         [com |-> [kind |-> RouteKind, channel |-> WordAt(data, at, 0), base |-> WordAt(data, at, 1),
                   target |-> WordAt(data, at, 2), allocations |-> shares],
          sigs |-> <<SigAt(data, SigsAt(at, n)), SigAt(data, SigsAt(at, n) + SigBytes)>>]
  <2>1. at + CountAt + n * 2 * WordBytes = SigsAt(at, n)
    BY <1>3 DEF SigsAt
  <2> QED BY <1>5, <2>1 DEF RouteRecordAt
<1> HIDE DEF shares
<1>13. RouteRecordAt(data, at) =
         [com |-> [kind |-> RouteKind, channel |-> m.channel, base |-> m.base, target |-> m.target,
                   allocations |-> m.allocations], sigs |-> <<r.sigs[1], r.sigs[2]>>]
  BY <1>9, <1>10, <1>11, <1>12
<1>14. RouteRecordAt(data, at) = r
  BY <1>13, RouteRecordIs
<1> QED BY <1>5, <1>6, <1>14 DEF n

-----------------------------------------------------------------------------
(* Rows of any length, one behind the other.                               *)

\* The n rows fill the data, row i from f[i - 1] up to f[i].
Laid(data, rows, n, f) ==
    /\ f \in [0 .. n -> Nat] /\ f[0] = 0 /\ f[n] = Len(data)
    /\ \A i \in 1 .. n : f[i] = f[i - 1] + Len(rows[i]) /\ HoldsBytes(data, f[i - 1], rows[i])

\* What is held stays held when data grows at its end.
LEMMA HoldsLonger ==
  ASSUME NEW data \in Seq(Byte), NEW at \in Nat, NEW s \in Seq(Byte), NEW t \in Seq(Byte),
         HoldsBytes(data, at, s)
  PROVE  HoldsBytes(data \o t, at, s)
<1>1. /\ Len(data \o t) = Len(data) + Len(t) /\ Len(t) \in Nat /\ Len(data) \in Nat /\ Len(s) \in Nat
      /\ \A p \in 1 .. Len(data) : (data \o t)[p] = data[p]
  BY ConcatParts
<1>2. at + Len(s) <= Len(data) /\ \A p \in 1 .. Len(s) : data[at + p] = s[p]
  BY DEF HoldsBytes
<1>3. ASSUME NEW p \in 1 .. Len(s) PROVE (data \o t)[at + p] = s[p]
  <2>1. at + p \in 1 .. Len(data)
    BY <1>1, <1>2
  <2> QED BY <1>1, <1>2, <2>1
<1>4. at + Len(s) <= Len(data \o t)
  BY <1>1, <1>2
<1> QED BY <1>3, <1>4 DEF HoldsBytes

\* Data that grew at its end holds what it grew by.
LEMMA HoldsLast ==
  ASSUME NEW data \in Seq(Byte), NEW s \in Seq(Byte)
  PROVE  HoldsBytes(data \o s, Len(data), s)
<1>1. /\ Len(data \o s) = Len(data) + Len(s)
      /\ \A p \in 1 .. Len(s) : (data \o s)[Len(data) + p] = s[p]
  BY ConcatParts
<1>2. Len(data) + Len(s) <= Len(data \o s)
  BY <1>1
<1> QED BY <1>1, <1>2 DEF HoldsBytes

\* The bytes up to the end of what is held are those in front of it and itself.
LEMMA PrefixGrows ==
  ASSUME NEW data \in Seq(Byte), NEW at \in Nat, NEW s \in Seq(Byte), HoldsBytes(data, at, s)
  PROVE  SubSeq(data, 1, at + Len(s)) = SubSeq(data, 1, at) \o s
<1> DEFINE l == at + Len(s)
           a == SubSeq(data, 1, l)
           b == SubSeq(data, 1, at)
           c == b \o s
<1>1. /\ l \in Nat /\ l <= Len(data) /\ at <= Len(data) /\ Len(s) \in Nat /\ Len(data) \in Nat
      /\ at <= l
  BY DEF HoldsBytes
<1>2. \A p \in 1 .. Len(s) : data[at + p] = s[p]
  BY DEF HoldsBytes
<1>3. \A k \in Nat : k <= Len(data) =>
         /\ SubSeq(data, 1, k) \in Seq(Byte) /\ Len(SubSeq(data, 1, k)) = k
         /\ \A p \in 1 .. k : SubSeq(data, 1, k)[p] = data[p]
  OBVIOUS
<1>4. /\ a \in Seq(Byte) /\ Len(a) = l /\ \A p \in 1 .. l : a[p] = data[p]
      /\ b \in Seq(Byte) /\ Len(b) = at /\ \A p \in 1 .. at : b[p] = data[p]
  <2> HIDE DEF l
  <2> QED BY <1>1, <1>3
<1> HIDE DEF a, b
<1>5. /\ c \in Seq(Byte) /\ Len(c) = at + Len(s)
      /\ \A p \in 1 .. at : c[p] = b[p]
      /\ \A p \in 1 .. Len(s) : c[at + p] = s[p]
  <2>1. /\ c \in Seq(Byte) /\ Len(c) = Len(b) + Len(s)
        /\ \A p \in 1 .. Len(b) : c[p] = b[p]
        /\ \A p \in 1 .. Len(s) : c[Len(b) + p] = s[p]
    <3>1. b \in Seq(Byte) /\ s \in Seq(Byte)
      BY <1>4
    <3> QED BY ONLY <3>1, ConcatParts
  <2> QED BY <1>4, <2>1
<1> HIDE DEF c
<1>6. ASSUME NEW p \in 1 .. l PROVE a[p] = c[p]
  <2>1. CASE p <= at
    <3>1. p \in 1 .. at
      BY <2>1
    <3> QED BY <1>4, <1>5, <3>1
  <2>2. CASE ~(p <= at)
    <3>1. p - at \in 1 .. Len(s) /\ at + (p - at) = p
      BY <1>1, <2>2
    <3>2. c[at + (p - at)] = s[p - at] /\ data[at + (p - at)] = s[p - at]
      BY <1>2, <1>5, <3>1
    <3> QED BY <1>4, <3>1, <3>2
  <2> QED BY <2>1, <2>2
<1>7. Len(c) = l
  BY <1>5
<1>1l. l \in Nat
  BY <1>1
<1> HIDE DEF l
<1>8. a = c
  <2>1. a \in [1 .. l -> Byte] /\ c \in [1 .. l -> Byte]
    <3>1. a \in Seq(Byte) /\ Len(a) = l /\ c \in Seq(Byte) /\ Len(c) = l /\ l \in Nat
      BY <1>1l, <1>4, <1>5, <1>7
    <3> QED BY ONLY <3>1, SeqOfLen
  <2>2. a = [p \in 1 .. l |-> a[p]] /\ c = [p \in 1 .. l |-> c[p]]
    BY ONLY <2>1
  <2>3. \A p \in 1 .. l : a[p] = c[p]
    BY <1>6
  <2>4. [p \in 1 .. l |-> a[p]] = [p \in 1 .. l |-> c[p]]
    BY ONLY <2>3
  <2> QED BY ONLY <2>2, <2>4
<1> QED BY <1>8 DEF a, b, c, l

\* Rows that fill the data, one behind the other, flatten to it.
LEMMA LaidFlattens ==
  ASSUME NEW data \in Seq(Byte), NEW n \in Nat \ {0}, NEW rows, Len(rows) = n,
         \A i \in 1 .. n : rows[i] \in Seq(Byte), NEW f, Laid(data, rows, n, f)
  PROVE  FlattenSeq(rows) = data
<1> DEFINE h == [i \in 1 .. n |-> SubSeq(data, 1, f[i])]
<1>1. /\ f \in [0 .. n -> Nat] /\ f[0] = 0 /\ f[n] = Len(data)
      /\ \A i \in 1 .. n : f[i] = f[i - 1] + Len(rows[i]) /\ HoldsBytes(data, f[i - 1], rows[i])
  BY DEF Laid
<1>2. ASSUME NEW i \in 1 .. n
      PROVE  h[i] = IF i = 1 THEN rows[i] ELSE h[i - 1] \o rows[i]
  <2>1. i - 1 \in 0 .. n /\ f[i - 1] \in Nat /\ rows[i] \in Seq(Byte)
    BY <1>1
  <2>2. h[i] = SubSeq(data, 1, f[i - 1]) \o rows[i]
    <3> DEFINE at == f[i - 1]
    <3>1. at \in Nat /\ f[i] = at + Len(rows[i]) /\ HoldsBytes(data, at, rows[i])
      BY <1>1, <2>1
    <3> HIDE DEF at
    <3>2. SubSeq(data, 1, at + Len(rows[i])) = SubSeq(data, 1, at) \o rows[i]
      BY <2>1, <3>1, PrefixGrows
    <3> QED BY <3>1, <3>2 DEF at
  <2>3. CASE i = 1
    <3>1. f[i - 1] = 0
      BY <1>1, <2>3
    <3>2. SubSeq(data, 1, 0) \o rows[i] = rows[i]
      <4>1. SubSeq(data, 1, 0) = <<>>
        OBVIOUS
      <4>2. <<>> \o rows[i] = rows[i]
        BY <2>1
      <4> QED BY <4>1, <4>2
    <3> QED BY <2>2, <2>3, <3>1, <3>2
  <2>4. CASE i # 1
    <3>1. i - 1 \in 1 .. n
      BY <2>4
    <3>2. h[i - 1] = SubSeq(data, 1, f[i - 1])
      BY <3>1
    <3> QED BY <2>2, <2>4, <3>2
  <2> QED BY <2>3, <2>4
<1>3. Flattens(h, n, rows)
  <2>1. h = [i \in 1 .. n |-> h[i]]
    OBVIOUS
  <2> HIDE DEF h
  <2> QED BY <1>2, <2>1 DEF Flattens
<1>4. h[n] = data
  <2>1. n \in 1 .. n /\ Len(data) \in Nat
    OBVIOUS
  <2>2. SubSeq(data, 1, Len(data)) = data
    OBVIOUS
  <2> QED BY <1>1, <2>1, <2>2
<1> HIDE DEF h
<1> QED BY <1>3, <1>4, FlattenIs

\* What rows flatten to is filled by them.
LEMMA FlattenLaid ==
  ASSUME NEW n \in Nat \ {0}, NEW rows, Len(rows) = n,
         \A i \in 1 .. n : rows[i] \in Seq(Byte)
  PROVE  FlattenSeq(rows) \in Seq(Byte) /\ \E f : Laid(FlattenSeq(rows), rows, n, f)
<1> DEFINE step == [i \in 1 .. n - 1 |-> [s \in Seq(Byte) |-> s \o rows[i + 1]]]
           S == Seq(Byte)
<1>1. \E g : Unfolds(g, S, n - 1, rows[1], step)
  <2>1. n - 1 \in Nat /\ rows[1] \in S
    BY 1 \in 1 .. n
  <2>2. step \in [1 .. n - 1 -> [S -> S]]
    <3> SUFFICES ASSUME NEW i \in 1 .. n - 1, NEW s \in Seq(Byte)
                 PROVE  s \o rows[i + 1] \in Seq(Byte)
      OBVIOUS
    <3>1. rows[i + 1] \in Seq(Byte)
      BY i + 1 \in 1 .. n
    <3> QED BY <3>1, ConcatParts
  <2> HIDE DEF step, S
  <2> QED BY <2>1, <2>2, Recursion
<1>2. PICK g : Unfolds(g, S, n - 1, rows[1], step)
  BY <1>1
<1>3. /\ g \in [0 .. n - 1 -> Seq(Byte)] /\ g[0] = rows[1]
      /\ \A i \in 1 .. n - 1 : g[i] = g[i - 1] \o rows[i + 1]
  <2>1. /\ g \in [0 .. n - 1 -> Seq(Byte)] /\ g[0] = rows[1]
        /\ \A i \in 1 .. n - 1 : g[i] = step[i][g[i - 1]]
    BY <1>2 DEF Unfolds
  <2>2. ASSUME NEW i \in 1 .. n - 1 PROVE step[i][g[i - 1]] = g[i - 1] \o rows[i + 1]
    <3>1. g[i - 1] \in Seq(Byte)
      BY <2>1, i - 1 \in 0 .. n - 1
    <3> QED BY <3>1
  <2> QED BY <2>1, <2>2
<1> HIDE DEF step, S
<1> DEFINE h == [i \in 1 .. n |-> g[i - 1]]
<1>4. /\ \A i \in 1 .. n : h[i] \in Seq(Byte)
      /\ \A i \in 1 .. n : h[i] = IF i = 1 THEN rows[i] ELSE h[i - 1] \o rows[i]
  <2> SUFFICES ASSUME NEW i \in 1 .. n
               PROVE  h[i] \in Seq(Byte) /\ h[i] = IF i = 1 THEN rows[i] ELSE h[i - 1] \o rows[i]
    OBVIOUS
  <2>1. h[i] = g[i - 1] /\ i - 1 \in 0 .. n - 1
    OBVIOUS
  <2>2. CASE i = 1
    BY <1>3, <2>1, <2>2
  <2>3. CASE i # 1
    <3>1. i - 1 \in 1 .. n - 1 /\ (i - 1) + 1 = i /\ i - 1 \in 1 .. n /\ h[i - 1] = g[(i - 1) - 1]
      BY <2>3
    <3> QED BY <1>3, <2>1, <2>3, <3>1
  <2> QED BY <1>3, <2>1, <2>2, <2>3
<1>5. Flattens(h, n, rows)
  <2>1. h = [i \in 1 .. n |-> h[i]]
    OBVIOUS
  <2> HIDE DEF h
  <2> QED BY <1>4, <2>1 DEF Flattens
<1> HIDE DEF h
<1>6. FlattenSeq(rows) = h[n] /\ h[n] \in Seq(Byte)
  BY <1>4, <1>5, FlattenIs, n \in 1 .. n
<1> DEFINE f == [i \in 0 .. n |-> IF i = 0 THEN 0 ELSE Len(h[i])]
<1>7. f \in [0 .. n -> Nat] /\ f[0] = 0 /\ f[n] = Len(h[n])
  <2>1. \A i \in 0 .. n : i # 0 => Len(h[i]) \in Nat
    BY <1>4
  <2> QED BY <2>1
<1>8. ASSUME NEW i \in 1 .. n
      PROVE  f[i] = f[i - 1] + Len(rows[i]) /\ HoldsBytes(h[i], f[i - 1], rows[i])
  <2>1. i - 1 \in 0 .. n /\ f[i] = Len(h[i]) /\ rows[i] \in Seq(Byte) /\ Len(rows[i]) \in Nat
    OBVIOUS
  <2>2. CASE i = 1
    <3>1. h[i] = rows[i] /\ f[i - 1] = 0
      BY <1>4, <1>7, <2>2
    <3>2. HoldsBytes(rows[i], 0, rows[i])
      BY <2>1 DEF HoldsBytes
    <3> QED BY <2>1, <3>1, <3>2
  <2>3. CASE i # 1
    <3>1. i - 1 \in 1 .. n /\ f[i - 1] = Len(h[i - 1])
      BY <2>3
    <3>2. h[i] = h[i - 1] \o rows[i] /\ h[i - 1] \in Seq(Byte)
      BY <1>4, <2>3, <3>1
    <3>3. Len(h[i - 1] \o rows[i]) = Len(h[i - 1]) + Len(rows[i])
      BY <2>1, <3>2, ConcatParts
    <3>4. HoldsBytes(h[i - 1] \o rows[i], Len(h[i - 1]), rows[i])
      BY <2>1, <3>2, HoldsLast
    <3> QED BY <2>1, <3>1, <3>2, <3>3, <3>4
  <2> QED BY <2>2, <2>3
<1>9. ASSUME NEW i \in 1 .. n
      PROVE  HoldsBytes(h[n], f[i - 1], rows[i])
  <2> DEFINE at == f[i - 1]
             K == {k \in 0 .. n - i : HoldsBytes(h[i + k], at, rows[i])}
  <2>1. at \in Nat /\ rows[i] \in Seq(Byte) /\ HoldsBytes(h[i], at, rows[i])
    <3> HIDE DEF f
    <3> QED BY <1>7, <1>8, i - 1 \in 0 .. n
  <2> HIDE DEF at
  <2>2. 0 \in K
    BY <2>1, i + 0 = i
  <2>3. \A k \in 0 .. (n - i) - 1 : k \in K => k + 1 \in K
    <3> SUFFICES ASSUME NEW k \in 0 .. (n - i) - 1, HoldsBytes(h[i + k], at, rows[i])
                 PROVE  HoldsBytes(h[i + (k + 1)], at, rows[i])
      OBVIOUS
    <3>1. i + (k + 1) \in 1 .. n /\ i + (k + 1) # 1 /\ (i + (k + 1)) - 1 = i + k /\ i + k \in 1 .. n
      OBVIOUS
    <3>2. h[i + (k + 1)] = h[i + k] \o rows[i + (k + 1)] /\ h[i + k] \in Seq(Byte)
            /\ rows[i + (k + 1)] \in Seq(Byte)
      BY <1>4, <3>1
    <3> QED BY <2>1, <3>2, HoldsLonger
  <2>4. n - i \in Nat /\ n - i \in 0 .. n - i /\ i + (n - i) = n
    OBVIOUS
  <2>5. n - i \in K
    <3> HIDE DEF K
    <3> QED BY <2>2, <2>3, <2>4, Induction
  <2>6. HoldsBytes(h[i + (n - i)], at, rows[i])
    BY <2>5
  <2> QED BY <2>4, <2>6 DEF at
<1> HIDE DEF f
<1>10. Laid(h[n], rows, n, f)
  BY <1>7, <1>8, <1>9 DEF Laid
<1> QED BY <1>6, <1>10

-----------------------------------------------------------------------------
(* Routes' records, one behind the other.                                  *)

\* Records rs follow one another in the data from `at` to its end, record i from f[i - 1]
\* up to f[i]; those that do; and where a record that begins at `at` ends.
Chain(data, at, rs, f) ==
    /\ f \in [0 .. Len(rs) -> Nat] /\ f[0] = at /\ f[Len(rs)] = Len(data)
    /\ \A i \in 1 .. Len(rs) :
          /\ f[i] = f[i - 1] + RouteRecordLen(CountOf(rs[i]))
          /\ HoldsBytes(data, f[i - 1], RecordBytes(rs[i]))
ReadFrom(data, at) == {rs \in Seq(RouteRecs) : \E f : Chain(data, at, rs, f)}
Behind(data, at) == at + RouteRecordLen(data[at + CountAt])

\* A route's record is as long as its count says, and not empty.
LEMMA RouteLenIs ==
  ASSUME NEW r \in RouteRecs
  PROVE  /\ RecordBytes(r) \in Seq(Byte) /\ Len(RecordBytes(r)) = RouteRecordLen(CountOf(r))
         /\ RouteRecordLen(CountOf(r)) \in Nat \ {0}
<1>1. RecordBytes(r) \in Seq(Byte) /\ Len(RecordBytes(r)) = RouteRecordLen(CountOf(r))
  BY RouteHolds, 0 \in Nat, <<>> \in Seq(Byte)
<1> DEFINE n == CountOf(r)
<1>2. n \in Nat
  <2>1. n \in 1 .. MaxAllocations
    BY RouteRecordIs
  <2> HIDE DEF n
  <2> QED BY <2>1, SizeFacts
<1>3. /\ ShareBytes(n) \in Nat /\ CountAt = WordBytes * 3 + 1 /\ WordBytes * 3 \in Nat /\ SigBytes \in Nat
      /\ RouteRecordLen(n) = CountAt + 2 * SigBytes + ShareBytes(n)
  <2> HIDE DEF n
  <2>1. WordBytes * 3 \in Nat /\ SigBytes \in Nat
    BY SizeFacts
  <2>2. /\ ShareBytes(n) \in Nat /\ CountAt = WordBytes * 3 + 1
        /\ RouteRecordLen(n) = CountAt + 2 * SigBytes + ShareBytes(n)
    BY <1>2, RouteSizes
  <2> QED BY <2>1, <2>2
<1>4. RouteRecordLen(n) \in Nat \ {0}
  <2> HIDE DEF n
  <2> QED BY <1>3
<1> QED BY <1>1, <1>4

\* The elements of a sequence with one more in front.
LEMMA Consed ==
  ASSUME NEW S, NEW x \in S, NEW s \in Seq(S)
  PROVE  /\ <<x>> \o s \in Seq(S) /\ Len(<<x>> \o s) = Len(s) + 1
         /\ (<<x>> \o s)[1] = x /\ \A i \in 1 .. Len(s) : (<<x>> \o s)[i + 1] = s[i]
<1> DEFINE o == <<x>>
<1>1. o \in Seq(S) /\ Len(o) = 1 /\ o[1] = x
  OBVIOUS
<1> HIDE DEF o
<1>2. /\ o \o s \in Seq(S) /\ Len(o \o s) = Len(o) + Len(s)
      /\ \A p \in 1 .. Len(o) : (o \o s)[p] = o[p]
      /\ \A p \in 1 .. Len(s) : (o \o s)[Len(o) + p] = s[p]
  BY <1>1, ConcatParts
<1>3. \A i \in 1 .. Len(s) : (o \o s)[i + 1] = s[i]
  <2> SUFFICES ASSUME NEW i \in 1 .. Len(s) PROVE (o \o s)[i + 1] = s[i]
    OBVIOUS
  <2>1. Len(o) + i = i + 1
    BY <1>1
  <2> QED BY <1>2, <2>1
<1> QED BY <1>1, <1>2, <1>3 DEF o

\* A sequence that is not empty is its first element and the rest.
LEMMA Unconsed ==
  ASSUME NEW S, NEW s \in Seq(S), s # <<>>
  PROVE  /\ s[1] \in S /\ Tail(s) \in Seq(S) /\ Len(s) = Len(Tail(s)) + 1
         /\ \A i \in 1 .. Len(Tail(s)) : Tail(s)[i] = s[i + 1]
         /\ s = <<s[1]>> \o Tail(s)
<1> DEFINE t == Tail(s)
           c == <<s[1]>> \o t
<1>1. /\ s[1] \in S /\ t \in Seq(S) /\ Len(s) = Len(t) + 1 /\ Len(s) \in Nat /\ Len(t) \in Nat
      /\ \A i \in 1 .. Len(t) : t[i] = s[i + 1]
  OBVIOUS
<1> HIDE DEF t
<1>2. /\ c \in Seq(S) /\ Len(c) = Len(t) + 1
      /\ c[1] = s[1] /\ \A i \in 1 .. Len(t) : c[i + 1] = t[i]
  BY <1>1, Consed
<1> HIDE DEF c
<1>3. \A p \in 1 .. Len(s) : s[p] = c[p]
  <2> SUFFICES ASSUME NEW p \in 1 .. Len(s) PROVE s[p] = c[p]
    OBVIOUS
  <2>1. CASE p = 1
    BY <1>2, <2>1
  <2>2. CASE p # 1
    <3>1. p - 1 \in 1 .. Len(t) /\ (p - 1) + 1 = p
      BY <1>1, <2>2
    <3>2. c[(p - 1) + 1] = t[p - 1] /\ t[p - 1] = s[(p - 1) + 1]
      BY <1>1, <1>2, <3>1
    <3> QED BY <3>1, <3>2
  <2> QED BY <2>1, <2>2
<1>4. Len(c) = Len(s)
  BY <1>1, <1>2
<1>5. s = c
  <2> DEFINE l == Len(s)
  <2>1. s \in [1 .. l -> S] /\ c \in [1 .. l -> S]
    <3>1. s \in Seq(S) /\ Len(s) = l /\ c \in Seq(S) /\ Len(c) = l /\ l \in Nat
      BY <1>1, <1>2, <1>4
    <3> HIDE DEF l
    <3> QED BY ONLY <3>1, SeqOfLen
  <2>2. s = [p \in 1 .. l |-> s[p]] /\ c = [p \in 1 .. l |-> c[p]]
    <3> HIDE DEF l
    <3> QED BY ONLY <2>1
  <2>3. [p \in 1 .. l |-> s[p]] = [p \in 1 .. l |-> c[p]]
    BY <1>3
  <2> QED BY ONLY <2>2, <2>3
<1> QED BY <1>1, <1>5 DEF c, t

\* At the end of the data no record follows.
LEMMA ChainEnds ==
  ASSUME NEW data \in Seq(Byte)
  PROVE  ReadFrom(data, Len(data)) = {<<>>}
<1> DEFINE l == Len(data)
<1>1. l \in Nat
  OBVIOUS
<1>2. ASSUME NEW rs \in Seq(RouteRecs), NEW f, Chain(data, l, rs, f)
      PROVE  rs = <<>>
  <2> SUFFICES ASSUME rs # <<>> PROVE FALSE
    OBVIOUS
  <2>1. 1 \in 1 .. Len(rs) /\ rs[1] \in RouteRecs /\ 1 - 1 = 0
    OBVIOUS
  <2>2. HoldsBytes(data, l, RecordBytes(rs[1]))
    BY <1>2, <2>1 DEF Chain
  <2>3. Len(RecordBytes(rs[1])) \in Nat \ {0}
    BY <2>1, RouteLenIs
  <2> QED BY <1>1, <2>2, <2>3 DEF HoldsBytes
<1>3. <<>> \in ReadFrom(data, l)
  <2> DEFINE e == <<>>
             f == [i \in 0 .. 0 |-> l]
  <2>1. e \in Seq(RouteRecs) /\ Len(e) = 0
    OBVIOUS
  <2>2. f \in [0 .. 0 -> Nat] /\ f[0] = l
    BY <1>1
  <2> HIDE DEF e, f, l
  <2>3. \A i \in 1 .. 0 : FALSE
    OBVIOUS
  <2>4. Chain(data, l, e, f)
    BY <2>1, <2>2, <2>3 DEF Chain, l
  <2>5. e \in ReadFrom(data, l)
    BY <2>1, <2>4 DEF ReadFrom
  <2> QED BY <2>5 DEF e
<1> HIDE DEF l
<1>4. ReadFrom(data, l) = {<<>>}
  BY <1>2, <1>3 DEF ReadFrom
<1> QED BY <1>4 DEF l

\* Records that follow one another begin with the one that is read, and the rest follow
\* from its end.
LEMMA ChainHead ==
  ASSUME NEW data \in Seq(Byte), NEW at \in Nat, NEW rs \in ReadFrom(data, at), rs # <<>>
  PROVE  /\ HasRecord(data, at) /\ rs[1] = RouteRecordAt(data, at) /\ rs \in Seq(RouteRecs)
         /\ Tail(rs) \in ReadFrom(data, Behind(data, at))
<1>1. PICK f : Chain(data, at, rs, f)
  BY DEF ReadFrom
<1>2. rs \in Seq(RouteRecs)
  BY DEF ReadFrom
<1> DEFINE t == Tail(rs)
           l == Len(rs)
           k == Len(t)
<1>3. /\ rs[1] \in RouteRecs /\ t \in Seq(RouteRecs) /\ l = k + 1 /\ k \in Nat
      /\ \A i \in 1 .. k : t[i] = rs[i + 1]
  BY <1>2, Unconsed
<1>4. /\ f \in [0 .. l -> Nat] /\ f[0] = at /\ f[l] = Len(data)
      /\ \A i \in 1 .. l : /\ f[i] = f[i - 1] + RouteRecordLen(CountOf(rs[i]))
                           /\ HoldsBytes(data, f[i - 1], RecordBytes(rs[i]))
  BY <1>1 DEF Chain
<1>5. 1 \in 1 .. l /\ 1 - 1 = 0
  BY <1>3
<1>6. f[1] = at + RouteRecordLen(CountOf(rs[1])) /\ HoldsBytes(data, at, RecordBytes(rs[1]))
  BY <1>4, <1>5
<1>7. HasRecord(data, at) /\ RouteRecordAt(data, at) = rs[1] /\ data[at + CountAt] = CountOf(rs[1])
  BY <1>3, <1>6, RouteReadsBack
<1>8. f[1] = Behind(data, at)
  BY <1>6, <1>7 DEF Behind
<1> DEFINE g == [i \in 0 .. k |-> f[i + 1]]
<1>9. Chain(data, f[1], t, g)
  <2>1. g \in [0 .. k -> Nat] /\ g[0] = f[1] /\ g[k] = Len(data)
    <3>1. \A i \in 0 .. k : i + 1 \in 0 .. l
      BY <1>3
    <3>2. 0 \in 0 .. k /\ 0 + 1 = 1 /\ k \in 0 .. k /\ k + 1 = l
      BY <1>3
    <3> HIDE DEF l, k
    <3> QED BY <1>4, <3>1, <3>2
  <2>2. ASSUME NEW i \in 1 .. k
        PROVE  /\ g[i] = g[i - 1] + RouteRecordLen(CountOf(t[i]))
               /\ HoldsBytes(data, g[i - 1], RecordBytes(t[i]))
    <3>1. i + 1 \in 1 .. l /\ (i + 1) - 1 = i /\ i - 1 \in 0 .. k /\ (i - 1) + 1 = i /\ i \in 0 .. k
      BY <1>3
    <3>2. g[i] = f[i + 1] /\ g[i - 1] = f[i] /\ t[i] = rs[i + 1]
      BY <1>3, <3>1
    <3>3. /\ f[i + 1] = f[i] + RouteRecordLen(CountOf(rs[i + 1]))
          /\ HoldsBytes(data, f[i], RecordBytes(rs[i + 1]))
      BY <1>4, <3>1
    <3> QED BY <3>2, <3>3
  <2> HIDE DEF g, t
  <2> QED BY <2>1, <2>2 DEF Chain
<1>10. t \in ReadFrom(data, f[1])
  <2> HIDE DEF t, g
  <2> QED BY <1>3, <1>9 DEF ReadFrom
<1> QED BY <1>2, <1>7, <1>8, <1>10

\* Those that follow from the end of a record follow, with it in front, from its beginning.
LEMMA ChainCons ==
  ASSUME NEW data \in Seq(Byte), NEW at \in Nat, HasRecord(data, at),
         NEW rest \in ReadFrom(data, Behind(data, at))
  PROVE  <<RouteRecordAt(data, at)>> \o rest \in ReadFrom(data, at)
<1> DEFINE r == RouteRecordAt(data, at)
           c == <<r>> \o rest
           k == Len(rest)
<1>1. r \in RouteRecs /\ CountOf(r) = data[at + CountAt] /\ HoldsBytes(data, at, RecordBytes(r))
  BY RouteReads
<1>2. rest \in Seq(RouteRecs) /\ k \in Nat
  BY DEF ReadFrom
<1>3. PICK f : Chain(data, Behind(data, at), rest, f)
  BY DEF ReadFrom
<1>4. /\ f \in [0 .. k -> Nat] /\ f[0] = Behind(data, at) /\ f[k] = Len(data)
      /\ \A i \in 1 .. k : /\ f[i] = f[i - 1] + RouteRecordLen(CountOf(rest[i]))
                           /\ HoldsBytes(data, f[i - 1], RecordBytes(rest[i]))
  BY <1>3 DEF Chain
<1>5. /\ c \in Seq(RouteRecs) /\ Len(c) = k + 1 /\ c[1] = r
      /\ \A i \in 1 .. k : c[i + 1] = rest[i]
  <2> HIDE DEF r
  <2> QED BY <1>1, <1>2, Consed
<1> DEFINE g == [i \in 0 .. k + 1 |-> IF i = 0 THEN at ELSE f[i - 1]]
<1>6. g \in [0 .. k + 1 -> Nat] /\ g[0] = at /\ g[k + 1] = Len(data)
  <2>1. \A i \in 0 .. k + 1 : i # 0 => i - 1 \in 0 .. k
    BY <1>2
  <2>2. 0 \in 0 .. k + 1 /\ k + 1 \in 0 .. k + 1 /\ k + 1 # 0 /\ (k + 1) - 1 = k
    BY <1>2
  <2> HIDE DEF k
  <2> QED BY <1>4, <2>1, <2>2
<1>7. ASSUME NEW i \in 1 .. k + 1
      PROVE  /\ g[i] = g[i - 1] + RouteRecordLen(CountOf(c[i]))
             /\ HoldsBytes(data, g[i - 1], RecordBytes(c[i]))
  <2>1. i \in 0 .. k + 1 /\ i - 1 \in 0 .. k + 1 /\ i # 0 /\ g[i] = f[i - 1]
    BY <1>2
  <2>2. CASE i = 1
    <3>1. g[i - 1] = at /\ c[i] = r /\ f[i - 1] = Behind(data, at)
      BY <1>4, <1>5, <1>6, <2>2
    <3> HIDE DEF g, r, c
    <3> QED BY <1>1, <2>1, <3>1 DEF Behind
  <2>3. CASE i # 1
    <3>1. i - 1 \in 1 .. k /\ (i - 1) + 1 = i /\ i - 1 # 0
      BY <1>2, <2>3
    <3>2. g[i - 1] = f[(i - 1) - 1] /\ c[i] = rest[i - 1]
      BY <1>5, <2>1, <3>1
    <3>3. /\ f[i - 1] = f[(i - 1) - 1] + RouteRecordLen(CountOf(rest[i - 1]))
          /\ HoldsBytes(data, f[(i - 1) - 1], RecordBytes(rest[i - 1]))
      BY <1>4, <3>1
    <3> HIDE DEF g, c
    <3> QED BY <2>1, <3>2, <3>3
  <2> QED BY <2>2, <2>3
<1> HIDE DEF c, g
<1>8. Chain(data, at, c, g)
  BY <1>5, <1>6, <1>7 DEF Chain
<1>9. c \in ReadFrom(data, at)
  BY <1>5, <1>8 DEF ReadFrom
<1> QED BY <1>9 DEF c, r

\* What the records from each offset on are, one step of the recursion of RouteRecords.
ReadStep(data, f) ==
    [at \in 0 .. Len(data) |->
       IF at = Len(data) THEN {<<>>}
       ELSE IF ~HasRecord(data, at) THEN {}
       ELSE {<<RouteRecordAt(data, at)>> \o rest :
               rest \in f[at + RouteRecordLen(data[at + CountAt])]}]

\* A record that fits ends behind its beginning, and in the data.
LEMMA BehindIs ==
  ASSUME NEW data \in Seq(Byte), NEW at \in 0 .. Len(data), HasRecord(data, at)
  PROVE  Behind(data, at) \in at + 1 .. Len(data)
<1> DEFINE n == data[at + CountAt]
<1>1. n \in Nat /\ at + RouteRecordLen(n) <= Len(data) /\ at \in Nat /\ Len(data) \in Nat
  BY SizeFacts DEF HasRecord
<1> HIDE DEF n
<1>2. /\ ShareBytes(n) \in Nat /\ CountAt = WordBytes * 3 + 1
      /\ RouteRecordLen(n) = CountAt + 2 * SigBytes + ShareBytes(n)
  BY <1>1, RouteSizes
<1>3. WordBytes * 3 \in Nat /\ SigBytes \in Nat
  BY SizeFacts
<1>4. RouteRecordLen(n) \in Nat \ {0}
  BY <1>2, <1>3
<1> QED BY <1>1, <1>4 DEF Behind, n

\* The records that follow from each offset unfold the recursion.
LEMMA ReadUnfolds ==
  ASSUME NEW data \in Seq(Byte)
  PROVE  LET f == [at \in 0 .. Len(data) |-> ReadFrom(data, at)]
         IN  f = ReadStep(data, f)
<1> DEFINE f == [at \in 0 .. Len(data) |-> ReadFrom(data, at)]
<1>1. ASSUME NEW at \in 0 .. Len(data)
      PROVE  f[at] = ReadStep(data, f)[at]
  <2>1. CASE at = Len(data)
    BY <2>1, ChainEnds DEF ReadStep
  <2>2. CASE at # Len(data) /\ ~HasRecord(data, at)
    <3>1. ReadStep(data, f)[at] = {}
      BY <2>2 DEF ReadStep
    <3>2. ASSUME NEW rs \in ReadFrom(data, at) PROVE FALSE
      <4>1. at \in Nat
        OBVIOUS
      <4>2. rs = <<>>
        BY <2>2, <4>1, ChainHead
      <4>3. PICK g : Chain(data, at, rs, g)
        BY DEF ReadFrom
      <4>4. Len(rs) = 0
        BY <4>2
      <4> QED BY <2>2, <4>3, <4>4 DEF Chain
    <3> QED BY <3>1, <3>2
  <2>3. CASE at # Len(data) /\ HasRecord(data, at)
    <3>1. Behind(data, at) \in 0 .. Len(data) /\ at \in Nat
      BY <2>3, BehindIs
    <3>2. ReadStep(data, f)[at] = {<<RouteRecordAt(data, at)>> \o rest : rest \in f[Behind(data, at)]}
      BY <2>3 DEF ReadStep, Behind
    <3>3. f[Behind(data, at)] = ReadFrom(data, Behind(data, at))
      BY <3>1
    <3>4. ASSUME NEW rs \in ReadFrom(data, at)
          PROVE  rs \in {<<RouteRecordAt(data, at)>> \o rest : rest \in ReadFrom(data, Behind(data, at))}
      <4>1. rs # <<>>
        <5> SUFFICES ASSUME rs = <<>> PROVE FALSE
          OBVIOUS
        <5>1. PICK g : Chain(data, at, rs, g)
          BY DEF ReadFrom
        <5>2. Len(rs) = 0
          OBVIOUS
        <5> QED BY <2>3, <5>1, <5>2 DEF Chain
      <4>2. /\ rs[1] = RouteRecordAt(data, at) /\ rs \in Seq(RouteRecs)
            /\ Tail(rs) \in ReadFrom(data, Behind(data, at))
        BY <3>1, <4>1, ChainHead
      <4>3. rs = <<rs[1]>> \o Tail(rs)
        BY <4>1, <4>2, Unconsed
      <4> QED BY <4>2, <4>3
    <3>5. ASSUME NEW rest \in ReadFrom(data, Behind(data, at))
          PROVE  <<RouteRecordAt(data, at)>> \o rest \in ReadFrom(data, at)
      BY <2>3, <3>1, ChainCons
    <3>6. ReadFrom(data, at)
            = {<<RouteRecordAt(data, at)>> \o rest : rest \in ReadFrom(data, Behind(data, at))}
      BY <3>4, <3>5
    <3> QED BY <3>2, <3>3, <3>6
  <2> QED BY <2>1, <2>2, <2>3
<1> HIDE DEF f
<1>2. f = [at \in 0 .. Len(data) |-> f[at]]
  BY DEF f
<1>3. ReadStep(data, f) = [at \in 0 .. Len(data) |-> ReadStep(data, f)[at]]
  BY DEF ReadStep
<1>4. f = ReadStep(data, f)
  BY <1>1, <1>2, <1>3
<1> QED BY <1>4 DEF f

\* Only one function unfolds it: each offset depends on later ones.
LEMMA ReadIsUnique ==
  ASSUME NEW data \in Seq(Byte), NEW f, f = ReadStep(data, f), NEW g, g = ReadStep(data, g)
  PROVE  f[0] = g[0]
<1> DEFINE l == Len(data)
           A == {k \in 0 .. l : \A at \in l - k .. l : f[at] = g[at]}
<1>1. l \in Nat
  OBVIOUS
<1>2. ASSUME NEW at \in 0 .. l
      PROVE  /\ f[at] = IF at = l THEN {<<>>} ELSE IF ~HasRecord(data, at) THEN {}
                        ELSE {<<RouteRecordAt(data, at)>> \o rest : rest \in f[Behind(data, at)]}
             /\ g[at] = IF at = l THEN {<<>>} ELSE IF ~HasRecord(data, at) THEN {}
                        ELSE {<<RouteRecordAt(data, at)>> \o rest : rest \in g[Behind(data, at)]}
  <2>1. /\ ReadStep(data, f)[at] = IF at = l THEN {<<>>} ELSE IF ~HasRecord(data, at) THEN {}
                        ELSE {<<RouteRecordAt(data, at)>> \o rest : rest \in f[Behind(data, at)]}
        /\ ReadStep(data, g)[at] = IF at = l THEN {<<>>} ELSE IF ~HasRecord(data, at) THEN {}
                        ELSE {<<RouteRecordAt(data, at)>> \o rest : rest \in g[Behind(data, at)]}
    BY DEF ReadStep, Behind
  <2>2. f[at] = ReadStep(data, f)[at] /\ g[at] = ReadStep(data, g)[at]
    OBVIOUS
  <2> QED BY <2>1, <2>2
<1>3. 0 \in A
  <2> SUFFICES ASSUME NEW at \in l - 0 .. l PROVE f[at] = g[at]
    BY <1>1
  <2>1. at \in 0 .. l /\ at = l
    BY <1>1
  <2> QED BY <1>2, <2>1
<1>4. \A k \in 0 .. l - 1 : k \in A => k + 1 \in A
  <2> SUFFICES ASSUME NEW k \in 0 .. l - 1, \A at \in l - k .. l : f[at] = g[at],
                      NEW at \in l - (k + 1) .. l
               PROVE  f[at] = g[at]
    BY <1>1
  <2>1. at \in 0 .. l
    BY <1>1
  <2>2. CASE at = l \/ ~HasRecord(data, at)
    BY <1>2, <2>1, <2>2
  <2>3. CASE at # l /\ HasRecord(data, at)
    <3>1. Behind(data, at) \in at + 1 .. l
      BY <2>1, <2>3, BehindIs
    <3>2. Behind(data, at) \in l - k .. l
      BY <1>1, <2>1, <3>1
    <3>3. f[Behind(data, at)] = g[Behind(data, at)]
      BY <3>2
    <3> QED BY <1>2, <2>1, <2>3, <3>3
  <2> QED BY <2>2, <2>3
<1>5. l \in A
  <2> HIDE DEF A, l
  <2>1. 0 .. l \subseteq A
    BY <1>1, <1>3, <1>4, Induction
  <2> QED BY <1>1, <2>1
<1>6. 0 \in l - l .. l
  BY <1>1
<1> QED BY <1>5, <1>6

\* The program reads the records that follow one another in the whole of the data.
LEMMA RouteRecordsAre ==
  ASSUME NEW data \in Seq(Byte)
  PROVE  RouteRecords(data) = IF data = <<>> THEN {} ELSE ReadFrom(data, 0)
<1> DEFINE records == CHOOSE f : f = [at \in 0 .. Len(data) |->
               IF at = Len(data) THEN {<<>>}
               ELSE IF ~HasRecord(data, at) THEN {}
               ELSE {<<RouteRecordAt(data, at)>> \o rest :
                       rest \in f[at + RouteRecordLen(data[at + CountAt])]}]
           h == [at \in 0 .. Len(data) |-> ReadFrom(data, at)]
<1>1. RouteRecords(data) = IF data = <<>> THEN {} ELSE records[0]
  BY DEF RouteRecords
<1>2. h = ReadStep(data, h)
  BY ReadUnfolds
<1>3. h[0] = ReadFrom(data, 0)
  BY 0 \in 0 .. Len(data)
<1> HIDE DEF h
<1>4. \E f : f = [at \in 0 .. Len(data) |->
               IF at = Len(data) THEN {<<>>}
               ELSE IF ~HasRecord(data, at) THEN {}
               ELSE {<<RouteRecordAt(data, at)>> \o rest :
                       rest \in f[at + RouteRecordLen(data[at + CountAt])]}]
  BY <1>2 DEF ReadStep
<1>5. records = [at \in 0 .. Len(data) |->
               IF at = Len(data) THEN {<<>>}
               ELSE IF ~HasRecord(data, at) THEN {}
               ELSE {<<RouteRecordAt(data, at)>> \o rest :
                       rest \in records[at + RouteRecordLen(data[at + CountAt])]}]
  BY <1>4, Zenon
<1> HIDE DEF records
<1>6. records = ReadStep(data, records)
  BY <1>5 DEF ReadStep
<1>7. records[0] = h[0]
  BY <1>2, <1>6, ReadIsUnique
<1> QED BY <1>1, <1>3, <1>7

\* Only one sequence of records follows in the data.
LEMMA ReadOnce ==
  ASSUME NEW data \in Seq(Byte), NEW rs \in ReadFrom(data, 0), NEW qs \in ReadFrom(data, 0)
  PROVE  rs = qs
<1> DEFINE l == Len(data)
           Once(at) == \A r, q \in ReadFrom(data, at) : r = q
           A == {k \in 0 .. l : \A at \in l - k .. l : Once(at)}
<1>1. l \in Nat
  OBVIOUS
<1>2. 0 \in A
  <2> SUFFICES ASSUME NEW at \in l - 0 .. l, NEW r \in ReadFrom(data, at), NEW q \in ReadFrom(data, at)
               PROVE  r = q
    BY <1>1
  <2>1. at = l
    BY <1>1
  <2> QED BY <2>1, ChainEnds
<1>3. \A k \in 0 .. l - 1 : k \in A => k + 1 \in A
  <2> SUFFICES ASSUME NEW k \in 0 .. l - 1, \A at \in l - k .. l : Once(at),
                      NEW at \in l - (k + 1) .. l,
                      NEW r \in ReadFrom(data, at), NEW q \in ReadFrom(data, at)
               PROVE  r = q
    BY <1>1
  <2>1. at \in 0 .. l /\ at \in Nat
    BY <1>1
  <2>2. CASE at = l
    BY <2>2, ChainEnds
  <2>3. CASE at # l
    <3>1. ASSUME NEW s \in ReadFrom(data, at)
          PROVE  /\ s # <<>> /\ HasRecord(data, at)
                 /\ s = <<RouteRecordAt(data, at)>> \o Tail(s)
                 /\ Tail(s) \in ReadFrom(data, Behind(data, at))
      <4>1. s # <<>>
        <5> SUFFICES ASSUME s = <<>> PROVE FALSE
          OBVIOUS
        <5>1. PICK g : Chain(data, at, s, g)
          BY DEF ReadFrom
        <5>2. Len(s) = 0
          OBVIOUS
        <5> QED BY <2>3, <5>1, <5>2 DEF Chain
      <4>2. /\ HasRecord(data, at) /\ s[1] = RouteRecordAt(data, at) /\ s \in Seq(RouteRecs)
            /\ Tail(s) \in ReadFrom(data, Behind(data, at))
        BY <2>1, <4>1, ChainHead
      <4>3. s = <<s[1]>> \o Tail(s)
        BY <4>1, <4>2, Unconsed
      <4> QED BY <4>1, <4>2, <4>3
    <3>2. Behind(data, at) \in l - k .. l
      <4>1. HasRecord(data, at)
        BY <3>1
      <4>2. Behind(data, at) \in at + 1 .. l
        BY <2>1, <4>1, BehindIs
      <4> QED BY <1>1, <2>1, <4>2
    <3>3. Tail(r) = Tail(q)
      BY <3>1, <3>2
    <3> QED BY <3>1, <3>3
  <2> QED BY <2>2, <2>3
<1>4. l \in A
  <2> HIDE DEF A, l
  <2>1. 0 .. l \subseteq A
    BY <1>1, <1>2, <1>3, Induction
  <2> QED BY <1>1, <2>1
<1>5. 0 \in l - l .. l
  BY <1>1
<1>6. Once(0)
  BY <1>4, <1>5
<1> QED BY <1>6

\* The bytes of each of some records.
RowsOf(rs) == [r \in DOMAIN rs |-> RecordBytes(rs[r])]

\* There are as many rows as records.
LEMMA RowsAre ==
  ASSUME NEW rs \in Seq(RecordType), rs # <<>>,
         \A n \in DOMAIN rs : RecordBytes(rs[n]) \in Seq(Byte)
  PROVE  /\ Len(rs) \in Nat \ {0} /\ Len(RowsOf(rs)) = Len(rs)
         /\ \A i \in 1 .. Len(rs) : RowsOf(rs)[i] = RecordBytes(rs[i]) /\ RowsOf(rs)[i] \in Seq(Byte)
<1> DEFINE n == Len(rs)
           rows == RowsOf(rs)
<1>1. n \in Nat \ {0} /\ DOMAIN rs = 1 .. n
  OBVIOUS
<1>2. /\ \A i \in 1 .. n : rows[i] = RecordBytes(rs[i])
      /\ rows = [i \in 1 .. n |-> RecordBytes(rs[i])]
  BY <1>1 DEF RowsOf
<1> HIDE DEF n, rows
<1>3. \A i \in 1 .. n : rows[i] \in Seq(Byte)
  BY <1>1, <1>2
<1>4. Len(rows) = n
  <2>1. rows \in [1 .. n -> Seq(Byte)]
    BY <1>2, <1>3
  <2> QED BY <1>1, <2>1
<1> QED BY <1>1, <1>2, <1>3, <1>4 DEF n, rows

\* Routes' records follow in the data when they flatten to it.
LEMMA RoutesFlatten ==
  ASSUME NEW data \in Seq(Byte), NEW rs \in Seq(RouteRecs), rs # <<>>
  PROVE  rs \in ReadFrom(data, 0) <=> FlattenSeq(RowsOf(rs)) = data
<1> DEFINE n == Len(rs)
           rows == RowsOf(rs)
<1>0. /\ rs \in Seq(RecordType)
      /\ \A i \in 1 .. n : RecordBytes(rs[i]) \in Seq(Byte)
                           /\ Len(RecordBytes(rs[i])) = RouteRecordLen(CountOf(rs[i]))
      /\ DOMAIN rs = 1 .. n
  <2>1. \A i \in 1 .. n : rs[i] \in RouteRecs
    OBVIOUS
  <2>2. RouteRecs \subseteq RecordType
    BY DEF RouteRecs
  <2> QED BY <2>1, <2>2, RouteLenIs
<1>1. /\ n \in Nat \ {0} /\ Len(rows) = n
      /\ \A i \in 1 .. n : rows[i] = RecordBytes(rs[i]) /\ rows[i] \in Seq(Byte)
  <2>1. \A i \in DOMAIN rs : RecordBytes(rs[i]) \in Seq(Byte)
    BY <1>0
  <2> QED BY <1>0, <2>1, RowsAre
<1> HIDE DEF rows
<1>2. \A f : Laid(data, rows, n, f) <=> Chain(data, 0, rs, f)
  <2> SUFFICES ASSUME NEW f PROVE Laid(data, rows, n, f) <=> Chain(data, 0, rs, f)
    OBVIOUS
  <2>1. \A i \in 1 .. n : /\ Len(rows[i]) = RouteRecordLen(CountOf(rs[i]))
                          /\ rows[i] = RecordBytes(rs[i])
    BY <1>0, <1>1
  <2> QED BY <2>1 DEF Laid, Chain
<1>3. rs \in ReadFrom(data, 0) <=> \E f : Laid(data, rows, n, f)
  BY <1>2 DEF ReadFrom
<1>4. ASSUME NEW f, Laid(data, rows, n, f) PROVE FlattenSeq(rows) = data
  <2> HIDE DEF n
  <2> QED BY <1>1, <1>4, LaidFlattens
<1>5. \E f : Laid(FlattenSeq(rows), rows, n, f)
  <2> HIDE DEF n
  <2> QED BY <1>1, FlattenLaid
<1> QED BY <1>3, <1>4, <1>5 DEF rows

\* What the program reads as routes' records flattens to the data, and records that flatten
\* to the data are what it reads.
LEMMA RoutesReadBack ==
  ASSUME NEW data \in Seq(Byte)
  PROVE  /\ \A rs \in RouteRecords(data) : rs \in Seq(RouteRecs) /\ FlattenSeq(RowsOf(rs)) = data
         /\ \A rs \in Seq(RouteRecs) :
              rs # <<>> /\ data = FlattenSeq(RowsOf(rs)) => RouteRecords(data) = {rs}
<1>1. RouteRecords(data) = IF data = <<>> THEN {} ELSE ReadFrom(data, 0)
  BY RouteRecordsAre
<1>2. ASSUME NEW rs \in RouteRecords(data)
      PROVE  rs \in Seq(RouteRecs) /\ FlattenSeq(RowsOf(rs)) = data
  <2>1. data # <<>> /\ rs \in ReadFrom(data, 0)
    BY <1>1, <1>2
  <2>2. rs \in Seq(RouteRecs)
    BY <2>1 DEF ReadFrom
  <2>3. rs # <<>>
    <3> SUFFICES ASSUME rs = <<>> PROVE FALSE
      OBVIOUS
    <3>1. PICK g : Chain(data, 0, rs, g)
      BY <2>1 DEF ReadFrom
    <3>2. Len(rs) = 0
      OBVIOUS
    <3>3. Len(data) = 0
      BY <3>1, <3>2 DEF Chain
    <3> QED BY <2>1, <3>3
  <2> QED BY <2>1, <2>2, <2>3, RoutesFlatten
<1>3. ASSUME NEW rs \in Seq(RouteRecs), rs # <<>>, data = FlattenSeq(RowsOf(rs))
      PROVE  RouteRecords(data) = {rs}
  <2>1. rs \in ReadFrom(data, 0)
    BY <1>3, RoutesFlatten
  <2>2. data # <<>>
    <3> SUFFICES ASSUME data = <<>> PROVE FALSE
      OBVIOUS
    <3>1. PICK g : Chain(data, 0, rs, g)
      BY <2>1 DEF ReadFrom
    <3>2. 1 \in 1 .. Len(rs) /\ 1 - 1 = 0 /\ rs[1] \in RouteRecs /\ Len(data) = 0
      BY <1>3
    <3>3. HoldsBytes(data, g[0], RecordBytes(rs[1])) /\ g[0] = 0
      BY <3>1, <3>2 DEF Chain
    <3>4. Len(RecordBytes(rs[1])) \in Nat \ {0}
      BY <3>2, RouteLenIs
    <3> QED BY <3>2, <3>3, <3>4 DEF HoldsBytes
  <2> QED BY <1>1, <2>1, <2>2, ReadOnce
<1> QED BY <1>2, <1>3

\* Records of one channel each fill data of n of their lengths when each is the one read at
\* its multiple of the length.
LEMMA UniOffsets ==
  ASSUME NEW data \in Seq(Byte), NEW n \in Nat \ {0}, NEW rs \in [1 .. n -> UniRecords],
         Len(data) = n * UnilateralRecordLen
  PROVE  (\E f : Laid(data, RowsOf(rs), n, f))
           <=> \A i \in 1 .. n :
                 UnilateralRecordAt(data, (i - 1) * UnilateralRecordLen) = rs[i]
<1> DEFINE L == UnilateralRecordLen
           rows == RowsOf(rs)
<1>1. L \in Nat \ {0}
  BY SizeFacts DEF UnilateralRecordLen
<1>2. \A i \in 1 .. n : rows[i] = RecordBytes(rs[i]) /\ Len(rows[i]) = L /\ rs[i] \in UniRecords
  <2>1. \A i \in 1 .. n : rows[i] = RecordBytes(rs[i]) /\ rs[i] \in UniRecords
    BY DEF RowsOf
  <2>2. \A i \in 1 .. n : Len(RecordBytes(rs[i])) = L
    BY <2>1, UniRecordIs
  <2> HIDE DEF rows, L
  <2> QED BY <2>1, <2>2
<1> HIDE DEF L, rows
<1>3. ASSUME NEW i \in 1 .. n
      PROVE  /\ (i - 1) * L \in Nat /\ i * L \in Nat /\ i * L = (i - 1) * L + L
             /\ (i - 1) * L + L <= n * L
  <2>1. PICK d \in Nat : n = i + d
    <3>1. n - i \in Nat /\ n = i + (n - i)
      OBVIOUS
    <3> QED BY <3>1
  <2>2. n * L = i * L + d * L /\ d * L \in Nat
    BY <1>1, <2>1
  <2>3. PICK e \in Nat : i = e + 1
    <3>1. i - 1 \in Nat /\ i = (i - 1) + 1
      OBVIOUS
    <3> QED BY <3>1
  <2>4. i * L = e * L + L /\ e * L \in Nat /\ i - 1 = e
    BY <1>1, <2>3
  <2> QED BY <1>1, <2>2, <2>4
<1>4. ASSUME NEW i \in 1 .. n
      PROVE  HoldsBytes(data, (i - 1) * L, rows[i])
               <=> UnilateralRecordAt(data, (i - 1) * L) = rs[i]
  <2> DEFINE at == (i - 1) * L
  <2>1. at \in Nat /\ at + UnilateralRecordLen <= Len(data) /\ rs[i] \in UniRecords
    BY <1>2, <1>3 DEF L
  <2> HIDE DEF at
  <2>2. HoldsBytes(data, at, RecordBytes(rs[i])) <=> UnilateralRecordAt(data, at) = rs[i]
    BY <2>1, UniRecordReads
  <2> QED BY <1>2, <2>2 DEF at
<1>5. ASSUME NEW f, Laid(data, rows, n, f), NEW i \in 1 .. n
      PROVE  HoldsBytes(data, (i - 1) * L, rows[i])
  <2>1. /\ f[0] = 0
        /\ \A j \in 1 .. n : f[j] = f[j - 1] + L /\ HoldsBytes(data, f[j - 1], rows[j])
    BY <1>2, <1>5 DEF Laid
  <2> DEFINE A == {j \in 0 .. n : f[j] = j * L}
  <2>2. 0 \in A
    BY <1>1, <2>1
  <2>3. \A j \in 0 .. n - 1 : j \in A => j + 1 \in A
    <3> SUFFICES ASSUME NEW j \in 0 .. n - 1, f[j] = j * L PROVE f[j + 1] = (j + 1) * L
      OBVIOUS
    <3>1. j + 1 \in 1 .. n /\ (j + 1) - 1 = j
      OBVIOUS
    <3>2. f[j + 1] = f[j] + L
      BY <2>1, <3>1
    <3> QED BY <1>3, <3>1, <3>2
  <2>4. 0 .. n \subseteq A
    <3> HIDE DEF A
    <3> QED BY <2>2, <2>3, Induction
  <2>5. f[i - 1] = (i - 1) * L
    BY <2>4, i - 1 \in 0 .. n
  <2> QED BY <2>1, <2>5
<1>6. ASSUME \A i \in 1 .. n : HoldsBytes(data, (i - 1) * L, rows[i])
      PROVE  \E f : Laid(data, rows, n, f)
  <2> DEFINE f == [i \in 0 .. n |-> i * L]
  <2>1. f \in [0 .. n -> Nat] /\ f[0] = 0 /\ f[n] = Len(data)
    <3>1. \A i \in 0 .. n : i * L \in Nat
      BY <1>1
    <3>2. 0 * L = 0 /\ Len(data) = n * L
      BY <1>1 DEF L
    <3> QED BY <3>1, <3>2
  <2>2. ASSUME NEW i \in 1 .. n
        PROVE  f[i] = f[i - 1] + Len(rows[i]) /\ HoldsBytes(data, f[i - 1], rows[i])
    <3>1. f[i] = i * L /\ f[i - 1] = (i - 1) * L
      BY i \in 0 .. n, i - 1 \in 0 .. n
    <3> HIDE DEF f
    <3> QED BY <1>2, <1>3, <1>6, <3>1
  <2> HIDE DEF f
  <2> QED BY <2>1, <2>2 DEF Laid
<1> QED BY <1>4, <1>5, <1>6 DEF L, rows

\* What the program reads as records of one channel each flattens to the data, and records
\* that flatten to the data are what it reads.
LEMMA UnisReadBack ==
  ASSUME NEW data \in Seq(Byte)
  PROVE  /\ \A rs \in UnilateralRecords(data) : rs \in Seq(UniRecords) /\ FlattenSeq(RowsOf(rs)) = data
         /\ \A rs \in Seq(UniRecords) :
              rs # <<>> /\ data = FlattenSeq(RowsOf(rs)) => UnilateralRecords(data) = {rs}
<1> DEFINE L == UnilateralRecordLen
           read(n) == [r \in 1 .. n |-> UnilateralRecordAt(data, (r - 1) * L)]
<1>1. L \in Nat \ {0}
  BY SizeFacts DEF UnilateralRecordLen
<1>2. UnilateralRecords(data) = IF data # <<>> /\ Len(data) % L = 0 THEN {read(Len(data) \div L)} ELSE {}
  BY DEF UnilateralRecords
<1> HIDE DEF L
<1>3. ASSUME NEW n \in Nat \ {0}, Len(data) = n * L
      PROVE  read(n) \in [1 .. n -> UniRecords]
  <2> SUFFICES ASSUME NEW i \in 1 .. n
               PROVE  UnilateralRecordAt(data, (i - 1) * L) \in UniRecords
    OBVIOUS
  <2> DEFINE at == (i - 1) * L
  <2>1. at \in Nat /\ at + L <= n * L
    <3>1. PICK d \in Nat : n = i + d
      <4>1. n - i \in Nat /\ n = i + (n - i)
        OBVIOUS
      <4> QED BY <4>1
    <3>2. PICK e \in Nat : i = e + 1
      <4>1. i - 1 \in Nat /\ i = (i - 1) + 1
        OBVIOUS
      <4> QED BY <4>1
    <3>3. n * L = e * L + L + d * L /\ d * L \in Nat /\ e * L \in Nat /\ i - 1 = e
      BY <1>1, <3>1, <3>2
    <3> QED BY <1>1, <3>3
  <2>2. at + UnilateralRecordLen <= Len(data)
    BY <1>3, <2>1 DEF L
  <2> HIDE DEF at
  <2>3. UnilateralRecordAt(data, at) \in UniRecords
    BY <2>1, <2>2, UniRecordReads
  <2> QED BY <2>3 DEF at
<1>4. ASSUME NEW n \in Nat \ {0}, NEW rs \in [1 .. n -> UniRecords]
      PROVE  /\ Len(rs) = n /\ Len(RowsOf(rs)) = n /\ rs \in Seq(UniRecords) /\ rs # <<>>
             /\ \A i \in 1 .. n : RowsOf(rs)[i] \in Seq(Byte) /\ Len(RowsOf(rs)[i]) = L
  <2>1. /\ rs \in Seq(UniRecords) /\ rs # <<>> /\ Len(rs) = n /\ DOMAIN rs = 1 .. n
    OBVIOUS
  <2>2. \A i \in 1 .. n : RecordBytes(rs[i]) \in Seq(Byte) /\ Len(RecordBytes(rs[i])) = L
    <3> SUFFICES ASSUME NEW i \in 1 .. n
                 PROVE  RecordBytes(rs[i]) \in Seq(Byte) /\ Len(RecordBytes(rs[i])) = UnilateralRecordLen
      BY DEF L
    <3>1. rs[i] \in UniRecords
      OBVIOUS
    <3> QED BY <3>1, UniRecordIs
  <2>3. rs \in Seq(RecordType)
    <3>1. UniRecords \subseteq RecordType
      BY DEF UniRecords
    <3> QED BY <2>1, <3>1
  <2>4. /\ Len(RowsOf(rs)) = Len(rs)
        /\ \A i \in 1 .. Len(rs) : RowsOf(rs)[i] = RecordBytes(rs[i]) /\ RowsOf(rs)[i] \in Seq(Byte)
    <3>1. \A i \in DOMAIN rs : RecordBytes(rs[i]) \in Seq(Byte)
      BY <2>1, <2>2
    <3> QED BY <2>1, <2>3, <3>1, RowsAre
  <2> QED BY <2>1, <2>2, <2>4
<1>5. ASSUME NEW n \in Nat \ {0}, NEW rs \in [1 .. n -> UniRecords], Len(data) = n * L
      PROVE  FlattenSeq(RowsOf(rs)) = data <=> rs = read(n)
  <2>1. (\E f : Laid(data, RowsOf(rs), n, f))
           <=> \A i \in 1 .. n : UnilateralRecordAt(data, (i - 1) * L) = rs[i]
    BY <1>5, UniOffsets DEF L
  <2>2. (\A i \in 1 .. n : UnilateralRecordAt(data, (i - 1) * L) = rs[i]) <=> rs = read(n)
    <3>1. rs = [i \in 1 .. n |-> rs[i]]
      OBVIOUS
    <3> QED BY <3>1
  <2> DEFINE rows == RowsOf(rs)
  <2>3. Len(rows) = n /\ \A i \in 1 .. n : rows[i] \in Seq(Byte)
    BY <1>4
  <2> HIDE DEF rows
  <2>4. ASSUME NEW f, Laid(data, rows, n, f) PROVE FlattenSeq(rows) = data
    BY <2>3, <2>4, LaidFlattens
  <2>5. \E f : Laid(FlattenSeq(rows), rows, n, f)
    BY <2>3, FlattenLaid
  <2>6. (\E f : Laid(data, rows, n, f)) <=> FlattenSeq(rows) = data
    BY <2>4, <2>5
  <2> HIDE DEF read
  <2> QED BY <2>1, <2>2, <2>6 DEF rows
<1>6. ASSUME NEW rs \in UnilateralRecords(data)
      PROVE  rs \in Seq(UniRecords) /\ FlattenSeq(RowsOf(rs)) = data
  <2> DEFINE n == Len(data) \div L
  <2>1. data # <<>> /\ Len(data) % L = 0 /\ rs = read(n)
    BY <1>2, <1>6
  <2>2. n \in Nat \ {0} /\ Len(data) = n * L
    <3>1. Len(data) \in Nat /\ Len(data) # 0
      BY <2>1
    <3> DEFINE v == Len(data)
               r == v % L
    <3>2. v \in Nat /\ v # 0 /\ r = 0 /\ n = v \div L
      BY <2>1, <3>1
    <3> HIDE DEF v
    <3>3. v \div L \in Nat /\ v = (v \div L) * L + (v % L)
      BY <1>1, <3>2, Quotient
    <3> HIDE DEF r, n
    <3>4. n \in Nat /\ v = n * L + r
      BY <3>2, <3>3 DEF r
    <3>5. v = n * L /\ n # 0
      BY <1>1, <3>2, <3>4
    <3> QED BY <3>4, <3>5 DEF v
  <2> HIDE DEF n
  <2>3. rs \in [1 .. n -> UniRecords]
    BY <1>3, <2>1, <2>2
  <2> HIDE DEF read
  <2> QED BY <1>4, <1>5, <2>1, <2>2, <2>3
<1>7. ASSUME NEW rs \in Seq(UniRecords), rs # <<>>, data = FlattenSeq(RowsOf(rs))
      PROVE  UnilateralRecords(data) = {rs}
  <2> DEFINE n == Len(rs)
             rows == RowsOf(rs)
  <2>1. n \in Nat \ {0} /\ rs \in [1 .. n -> UniRecords]
    BY <1>7
  <2> HIDE DEF n
  <2>2. Len(rows) = n /\ \A i \in 1 .. n : rows[i] \in Seq(Byte) /\ Len(rows[i]) = L
    BY <1>4, <2>1
  <2>3. Len(FlattenSeq(rows)) = L * n
    <3> HIDE DEF rows
    <3> QED BY <1>1, <2>1, <2>2, FlattenRows
  <2>4. Len(data) = n * L /\ Len(data) \in Nat /\ Len(data) # 0
    <3>1. L * n = n * L /\ n * L # 0
      BY <1>1, <2>1
    <3> QED BY <1>7, <2>3, <3>1
  <2>5. rs = read(n)
    <3> HIDE DEF read
    <3> QED BY <1>5, <1>7, <2>1, <2>4
  <2>6. Len(data) % L = 0 /\ Len(data) \div L = n
    <3> DEFINE z == 0
    <3>1. n \in Nat /\ z \in 0 .. L - 1 /\ n * L + z = n * L
      BY <1>1, <2>1
    <3>2. z = 0
      OBVIOUS
    <3> HIDE DEF z
    <3>3. (n * L + z) \div L = n /\ (n * L + z) % L = z
      BY <1>1, <3>1, Divides
    <3> QED BY <2>4, <3>1, <3>2, <3>3
  <2>7. data # <<>>
    BY <2>4
  <2> HIDE DEF read
  <2> QED BY <1>2, <2>5, <2>6, <2>7
<1> QED BY <1>6, <1>7

-----------------------------------------------------------------------------
(* Arithmetic of rows of equal width.                                      *)

\* A part of row i ends before row n of the same width begins.
LEMMA RowFits ==
    ASSUME NEW w \in Nat, NEW i \in Nat, NEW n \in Nat, i < n,
           NEW part \in 0 .. w - 1
    PROVE  w * i + part < w * n
<1>1. w * (i + 1) <= w * n
  <2>1. PICK d \in Nat : n = i + 1 + d
    <3>1. n - (i + 1) \in Nat /\ n = i + 1 + (n - (i + 1))
      OBVIOUS
    <3> QED BY <3>1
  <2>2. w * n = w * (i + 1) + w * d /\ w * d \in Nat
    BY <2>1
  <2> QED BY <2>2
<1>2. w * (i + 1) = w * i + w
  OBVIOUS
<1> QED BY <1>1, <1>2

\* A slot of a column belongs to one row, at one place.
LEMMA RowUnique ==
    ASSUME NEW w \in Nat, NEW i \in Nat, NEW j \in Nat,
           NEW s \in 0 .. w - 1, NEW t \in 0 .. w - 1, w * i + s = w * j + t
    PROVE  i = j /\ s = t
<1>1. ~(i < j)
  BY RowFits
<1>2. ~(j < i)
  BY RowFits
<1>3. i = j
  BY <1>1, <1>2
<1> QED BY <1>3

-----------------------------------------------------------------------------
(* Columns.                                                                *)

\* Sizes are natural numbers.
LEMMA Sizes ==
    /\ MaxAllocations \in Nat /\ MaxAllocations >= 1
    /\ NUni \in Nat /\ NUni >= 1 /\ NRoute \in Nat /\ NRoute >= 1
    /\ \A k : BatchSize(k) \in Nat /\ BatchSize(k) >= 1
BY ByteSizes, LayoutSizes DEF BatchSize, MaxRouteAllocations

\* Every column has a width and begins where an earlier one ends, within the slots a
\* record has.
LEMMA Widths ==
    ASSUME NEW k \in Kinds, NEW name \in Names(k)
    PROVE  /\ Width(name) \in Nat /\ Width(name) >= 1 /\ Before(name) \in Nat
           /\ Before(name) + Width(name) <=
                (IF k = RouteKind THEN 2 + MaxAllocations + 2 * SigSlots + KeySlots + 1 ELSE 7)
BY Sizes DEF Names, UniNames, RouteNames, Width, Before, SigSlots, KeySlots, Kinds,
             Unilateral, RouteKind

\* Two columns never share the slots of a record.
LEMMA ColumnsApart ==
    ASSUME NEW k \in Kinds, NEW a \in Names(k), NEW b \in Names(k), a # b
    PROVE  \/ Before(a) + Width(a) <= Before(b)
           \/ Before(b) + Width(b) <= Before(a)
BY Sizes DEF Names, UniNames, RouteNames, Width, Before, SigSlots, KeySlots, Kinds,
             Unilateral, RouteKind

\* The slots of a record of a batch lie in its column.
LEMMA InColumn ==
    ASSUME NEW k \in Kinds, NEW name \in Names(k), NEW i \in 0 .. BatchSize(k) - 1,
           NEW part \in 0 .. Width(name) - 1
    PROVE  /\ Position(k, name, i, part) \in Nat
           /\ Before(name) * BatchSize(k) <= Position(k, name, i, part)
           /\ Position(k, name, i, part) < (Before(name) + Width(name)) * BatchSize(k)
<1>1. Width(name) \in Nat /\ Before(name) \in Nat /\ BatchSize(k) \in Nat
  BY Widths, Sizes
<1>2. Width(name) * i + part < Width(name) * BatchSize(k)
  BY <1>1, RowFits
<1>3. (Before(name) + Width(name)) * BatchSize(k)
        = Before(name) * BatchSize(k) + Width(name) * BatchSize(k)
  BY <1>1
<1>4. Before(name) * BatchSize(k) \in Nat /\ Width(name) * i \in Nat
  BY <1>1
<1> QED BY <1>1, <1>2, <1>3, <1>4 DEF Position, Column

\* The gateway key comes after every column of a batch of routes, and the buffer has
\* room for all of it.
LEMMA SlotsSuffice ==
    ASSUME NEW k \in Kinds, NEW name \in Names(k), NEW i \in 0 .. BatchSize(k) - 1,
           NEW part \in 0 .. Width(name) - 1
    PROVE  /\ Position(k, name, i, part) \in SlotNumbers
           /\ k = RouteKind => Position(k, name, i, part) < GatewayKeyAt
<1> DEFINE rows == IF k = RouteKind THEN 2 + MaxAllocations + 2 * SigSlots + KeySlots + 1 ELSE 7
<1>1. rows \in Nat /\ BatchSize(k) \in Nat
  BY Sizes DEF SigSlots, KeySlots
<1>2. (Before(name) + Width(name)) * BatchSize(k) <= rows * BatchSize(k)
  BY <1>1, Widths, TimesMonotone
<1>3. Position(k, name, i, part) < rows * BatchSize(k)
  BY <1>1, <1>2, InColumn, Widths
<1>4. rows * BatchSize(k) \in Nat
  BY <1>1
<1>5. CASE k = RouteKind
  <2>1. rows * BatchSize(k) = GatewayKeyAt /\ RouteSlots = GatewayKeyAt + 2
    BY <1>4, <1>5 DEF GatewayKeyAt, RouteSlots, BatchSize, KeySlots
  <2>2. UniSlots \in Nat
    BY Sizes DEF UniSlots
  <2>3. Position(k, name, i, part) < RouteSlots /\ RouteSlots <= MaxSlots
    BY <1>3, <1>4, <2>1, <2>2, InColumn DEF MaxSlots
  <2> QED BY <1>3, <2>1, <2>2, <2>3, <1>4, InColumn DEF SlotNumbers, MaxSlots
<1>6. CASE k # RouteKind
  <2>1. rows * BatchSize(k) = UniSlots
    BY <1>6 DEF UniSlots, BatchSize
  <2>2. RouteSlots \in Nat
    <3>1. (2 + MaxAllocations + 2 * SigSlots + KeySlots + 1) \in Nat
      BY Sizes DEF SigSlots, KeySlots
    <3> QED BY <3>1, Sizes DEF RouteSlots, KeySlots
  <2> QED BY <1>3, <1>4, <1>6, <2>1, <2>2, InColumn DEF SlotNumbers, MaxSlots
<1> QED BY <1>5, <1>6

\* A slot belongs to one record, in one column, at one place.
LEMMA SlotUnique ==
    ASSUME NEW k \in Kinds, NEW a \in Names(k), NEW b \in Names(k),
           NEW i \in 0 .. BatchSize(k) - 1, NEW j \in 0 .. BatchSize(k) - 1,
           NEW s \in 0 .. Width(a) - 1, NEW t \in 0 .. Width(b) - 1,
           Position(k, a, i, s) = Position(k, b, j, t)
    PROVE  a = b /\ i = j /\ s = t
<1>1. BatchSize(k) \in Nat /\ Width(a) \in Nat /\ Before(a) \in Nat
        /\ Width(b) \in Nat /\ Before(b) \in Nat
  BY Widths, Sizes
<1>2. a = b
  <2>1. ASSUME Before(a) + Width(a) <= Before(b) PROVE FALSE
    <3>1. (Before(a) + Width(a)) * BatchSize(k) <= Before(b) * BatchSize(k)
      BY <1>1, <2>1, TimesMonotone
    <3> DEFINE p == Position(k, a, i, s)
               x == (Before(a) + Width(a)) * BatchSize(k)
               y == Before(b) * BatchSize(k)
    <3>2. p \in Nat /\ x \in Nat /\ y \in Nat /\ x <= y /\ p < x /\ y <= p
      BY <1>1, <3>1, InColumn
    <3> QED BY ONLY <3>2
  <2>2. ASSUME Before(b) + Width(b) <= Before(a) PROVE FALSE
    <3>1. (Before(b) + Width(b)) * BatchSize(k) <= Before(a) * BatchSize(k)
      BY <1>1, <2>2, TimesMonotone
    <3> DEFINE p == Position(k, a, i, s)
               x == (Before(b) + Width(b)) * BatchSize(k)
               y == Before(a) * BatchSize(k)
    <3>2. p \in Nat /\ x \in Nat /\ y \in Nat /\ x <= y /\ p < x /\ y <= p
      BY <1>1, <3>1, InColumn
    <3> QED BY ONLY <3>2
  <2> QED BY <2>1, <2>2, ColumnsApart
<1>3. Width(a) * i + s = Width(a) * j + t
  <2>1. Width(a) * i \in Nat /\ Width(a) * j \in Nat /\ Before(a) * BatchSize(k) \in Nat
    BY <1>1
  <2> QED BY <1>1, <1>2, <2>1 DEF Position, Column
<1> QED BY <1>1, <1>2, <1>3, RowUnique

\* The gateway key lies behind the columns and inside the buffer.
LEMMA GatewayKeyAtNat ==
    /\ GatewayKeyAt \in Nat
    /\ \A part \in 0 .. KeySlots - 1 :
          GatewayKeyAt + part \in SlotNumbers /\ GatewayKeyAt + part - GatewayKeyAt = part
<1> DEFINE rows == 2 + MaxAllocations + 2 * SigSlots + KeySlots + 1
<1>1. rows * NRoute \in Nat
  <2>1. rows \in Nat
    BY Sizes DEF SigSlots, KeySlots
  <2> QED BY <2>1, Sizes
<1>2. GatewayKeyAt = rows * NRoute /\ RouteSlots = rows * NRoute + 2
  BY <1>1 DEF GatewayKeyAt, RouteSlots, KeySlots
<1>3. UniSlots \in Nat
  BY Sizes DEF UniSlots
<1> QED BY <1>1, <1>2, <1>3 DEF SlotNumbers, MaxSlots, KeySlots

\* No column reaches the gateway key.
LEMMA BeforeGatewayKey ==
    ASSUME NEW name \in Names(RouteKind), NEW i \in 0 .. BatchSize(RouteKind) - 1,
           NEW part \in 0 .. KeySlots - 1
    PROVE  ~Within(RouteKind, name, i, GatewayKeyAt + part)
<1> DEFINE q == GatewayKeyAt + part
           s == q - Position(RouteKind, name, i, 0)
<1>1. RouteKind \in Kinds
  BY DEF Kinds
<1>2. Width(name) \in Nat /\ Before(name) \in Nat
  BY <1>1, Widths
<1>3. /\ BatchSize(RouteKind) \in Nat
      /\ Before(name) * BatchSize(RouteKind) \in Nat /\ Width(name) * i \in Nat
  BY <1>2, Sizes
<1>4. ASSUME Within(RouteKind, name, i, q) PROVE FALSE
  <2>1. s \in 0 .. Width(name) - 1
    BY <1>4 DEF Within
  <2>2. Position(RouteKind, name, i, s) = q
    <3>1. /\ Position(RouteKind, name, i, 0) = Before(name) * BatchSize(RouteKind) + Width(name) * i
          /\ Position(RouteKind, name, i, s) = Before(name) * BatchSize(RouteKind) + Width(name) * i + s
      BY <1>2, <1>3, <2>1 DEF Position, Column
    <3>2. q \in Nat
      BY GatewayKeyAtNat
    <3> QED BY <1>3, <2>1, <3>1, <3>2
  <2>3. Position(RouteKind, name, i, s) < GatewayKeyAt
    BY <1>1, <2>1, SlotsSuffice
  <2> QED BY <2>2, <2>3, GatewayKeyAtNat
<1> QED BY <1>4

\* Within names the one record, column and part of a slot.
LEMMA WithinOnly ==
    ASSUME NEW k \in Kinds, NEW a \in Names(k), NEW b \in Names(k),
           NEW i \in 0 .. BatchSize(k) - 1, NEW j \in 0 .. BatchSize(k) - 1,
           NEW t \in 0 .. Width(b) - 1
    PROVE  /\ Within(k, a, i, Position(k, b, j, t)) <=> a = b /\ i = j
           /\ Position(k, b, j, t) - Position(k, b, j, 0) = t
<1> DEFINE p == Position(k, b, j, t)
           s == p - Position(k, a, i, 0)
<1>1. BatchSize(k) \in Nat /\ Width(a) \in Nat /\ Before(a) \in Nat /\ Width(a) >= 1
        /\ Width(b) \in Nat /\ Before(b) \in Nat /\ Width(b) >= 1
  BY Widths, Sizes
<1>2. /\ Before(a) * BatchSize(k) \in Nat /\ Width(a) * i \in Nat
      /\ Before(b) * BatchSize(k) \in Nat /\ Width(b) * j \in Nat
  BY <1>1
<1>3. /\ Position(k, a, i, 0) = Before(a) * BatchSize(k) + Width(a) * i
      /\ Position(k, b, j, 0) = Before(b) * BatchSize(k) + Width(b) * j
      /\ p = Before(b) * BatchSize(k) + Width(b) * j + t
  BY <1>2 DEF Position, Column
<1>4. Position(k, b, j, t) - Position(k, b, j, 0) = t
  BY <1>2, <1>3
<1>5. ASSUME Within(k, a, i, p) PROVE a = b /\ i = j
  <2>1. s \in 0 .. Width(a) - 1
    BY <1>5 DEF Within
  <2>2. Position(k, a, i, s) = p
    <3>1. Position(k, a, i, s) = Before(a) * BatchSize(k) + Width(a) * i + s
      BY DEF Position, Column
    <3> QED BY <3>1, <2>1, <1>2, <1>3
  <2> QED BY <2>1, <2>2, SlotUnique
<1>6. Within(k, b, j, p)
  BY <1>4 DEF Within
<1> QED BY <1>4, <1>5, <1>6

-----------------------------------------------------------------------------
(* What the two instructions do to the slots.                              *)

\* stage_records puts the whole record at its index and no part of it anywhere else.
LEMMA WritesOneRecord ==
    ASSUME NEW k \in Kinds, NEW i \in 0 .. BatchSize(k) - 1, NEW r,
           NEW j \in 0 .. BatchSize(k) - 1, NEW name \in Names(k),
           NEW part \in 0 .. Width(name) - 1
    PROVE  Written(k, i, r)[Position(k, name, j, part)] =
             IF i = j THEN Image(r)[name][part + 1] ELSE slots[Position(k, name, j, part)]
<1> DEFINE p == Position(k, name, j, part)
<1>1. p \in SlotNumbers /\ (k = RouteKind => p < GatewayKeyAt)
  BY SlotsSuffice
<1>2. \A n \in Names(k) : Within(k, n, i, p) <=> n = name /\ i = j
  BY WithinOnly
<1>3. p - Position(k, name, j, 0) = part
  BY WithinOnly
<1>4. CASE i = j
  <2>1. (CHOOSE n \in Names(k) : Within(k, n, i, p)) = name
    BY <1>2, <1>4
  <2> QED BY <1>1, <1>2, <1>3, <1>4, <2>1 DEF Written
<1>5. CASE i # j
  <2>1. ~\E n \in Names(k) : Within(k, n, i, p)
    BY <1>2, <1>5
  <2>2. k = RouteKind => ~(p - GatewayKeyAt \in 0 .. KeySlots - 1)
    <3>1. SUFFICES ASSUME k = RouteKind PROVE ~(p - GatewayKeyAt \in 0 .. KeySlots - 1)
      OBVIOUS
    <3>2. GatewayKeyAt \in Int /\ p \in Int
      BY <1>1, GatewayKeyAtNat DEF SlotNumbers
    <3> QED BY <1>1, <3>1, <3>2
  <2> QED BY <1>1, <1>5, <2>1, <2>2 DEF Written
<1> QED BY <1>4, <1>5

\* It leaves the key of the batch's gateway in the last slots of a batch of routes.
LEMMA WritesGatewayKey ==
    ASSUME NEW i \in 0 .. BatchSize(RouteKind) - 1, NEW r, NEW part \in 0 .. KeySlots - 1
    PROVE  Written(RouteKind, i, r)[GatewayKeyAt + part] = PackBytes(GatewayKey, KeySlots)[part + 1]
<1> DEFINE p == GatewayKeyAt + part
<1>1. GatewayKeyAt \in Nat /\ p \in SlotNumbers /\ p - GatewayKeyAt = part
  BY GatewayKeyAtNat
<1>2. ~\E n \in Names(RouteKind) : Within(RouteKind, n, i, p)
  BY BeforeGatewayKey, <1>1
<1> QED BY <1>1, <1>2 DEF Written

\* copy_record gives every index past the count the record at index 0, and leaves the
\* other records and the gateway's key alone.
LEMMA PadsWholeRecords ==
    ASSUME kind \in Kinds, NEW n \in 1 .. BatchSize(kind),
           NEW j \in 0 .. BatchSize(kind) - 1, NEW name \in Names(kind),
           NEW part \in 0 .. Width(name) - 1
    PROVE  PaddedFrom(n)[Position(kind, name, j, part)] =
             slots[Position(kind, name, IF j < n THEN j ELSE 0, part)]
<1> DEFINE p == Position(kind, name, j, part)
           Copied(c) == \E i \in n .. BatchSize(kind) - 1 : Within(kind, c, i, p)
<1>1. p \in SlotNumbers
  BY SlotsSuffice
<1>2. BatchSize(kind) \in Nat
  BY Sizes
<1>3. \A c \in Names(kind) : Copied(c) <=> c = name /\ j >= n
  BY <1>2, WithinOnly
<1> DEFINE column == CHOOSE c \in Names(kind) : Copied(c)
           row == CHOOSE i \in n .. BatchSize(kind) - 1 : Within(kind, column, i, p)
<1>4. PaddedFrom(n)[p] =
        IF \E c \in Names(kind) : Copied(c) THEN slots[p - Width(column) * row] ELSE slots[p]
  BY <1>1 DEF PaddedFrom, RecordColumns
<1>5. CASE j < n
  BY <1>2, <1>3, <1>4, <1>5
<1>6. CASE j >= n
  <2>1. column = name
    BY <1>3, <1>6
  <2>2. row = j
    <3>1. \A i \in n .. BatchSize(kind) - 1 : Within(kind, name, i, p) <=> i = j
      BY <1>2, WithinOnly
    <3>2. j \in n .. BatchSize(kind) - 1
      BY <1>2, <1>6
    <3> QED BY <2>1, <3>1, <3>2
  <2>3. p - Width(name) * j = Position(kind, name, 0, part)
    <3>1. Width(name) \in Nat /\ Before(name) \in Nat
      BY Widths
    <3>2. Column(kind, name) \in Nat
      BY <1>2, <3>1 DEF Column
    <3>3. Width(name) * j \in Nat /\ Width(name) * 0 = 0
      BY <1>2, <3>1
    <3>4. /\ p = Column(kind, name) + Width(name) * j + part
          /\ Position(kind, name, 0, part) = Column(kind, name) + Width(name) * 0 + part
      BY DEF Position
    <3>5. part \in Nat
      BY <3>1
    <3> QED BY <3>2, <3>3, <3>4, <3>5
  <2>4. \E c \in Names(kind) : Copied(c)
    BY <1>3, <1>6
  <2>5. PaddedFrom(n)[p] = slots[p - Width(name) * j]
    BY <1>4, <2>1, <2>2, <2>4
  <2>6. (IF j < n THEN j ELSE 0) = 0
    BY <1>2, <1>6
  <2> QED BY <2>3, <2>5, <2>6
<1> QED BY <1>2, <1>5, <1>6

\* Padding leaves the gateway's key alone.
LEMMA PadsKeepGatewayKey ==
    ASSUME kind = RouteKind, NEW n \in 1 .. BatchSize(kind), NEW part \in 0 .. KeySlots - 1
    PROVE  PaddedFrom(n)[GatewayKeyAt + part] = slots[GatewayKeyAt + part]
<1> DEFINE p == GatewayKeyAt + part
<1>1. p \in SlotNumbers
  BY GatewayKeyAtNat
<1>2. \A c \in Names(kind), i \in n .. BatchSize(kind) - 1 : ~Within(kind, c, i, p)
  BY BeforeGatewayKey, Sizes
<1>3. PaddedFrom(n)[p] =
        IF \E c \in Names(kind) : \E i \in n .. BatchSize(kind) - 1 : Within(kind, c, i, p)
        THEN PaddedFrom(n)[p]
        ELSE slots[p]
  BY <1>1 DEF PaddedFrom, RecordColumns
<1> QED BY <1>2, <1>3

-----------------------------------------------------------------------------
(* The invariant.                                                          *)

\* What is needed besides RecordsWhole: the indices and the count are those of the
\* batch, and a sealed batch has record 0.
LayoutInv ==
    /\ kind \in Kinds /\ sealed \in BOOLEAN
    /\ mask \subseteq 0 .. BatchSize(kind) - 1
    /\ sealed => count \in 1 .. BatchSize(kind) /\ 0 .. count - 1 \subseteq mask
    /\ RecordsWhole

\* An empty buffer holds no record.
LEMMA InitLayout == LInit => LayoutInv
BY DEF LInit, LayoutInv, RecordsWhole, Filled

\* A reset buffer holds no record.
LEMMA ResetLayout == ASSUME NEW k \in Kinds, ResetStaging(k) PROVE LayoutInv'
BY DEF ResetStaging, LayoutInv, RecordsWhole, Filled

\* Staging a record keeps all the others, in whatever order indices are written.
LEMMA StageLayout ==
    ASSUME LayoutInv, NEW i \in 0 .. BatchSize(kind) - 1, NEW r, StageRecord(i, r)
    PROVE  LayoutInv'
<1>1. /\ ~sealed /\ ~sealed' /\ kind' = kind /\ mask' = mask \cup {i}
      /\ slots' = Written(kind, i, r) /\ kind \in Kinds
      /\ \A j \in mask' : given'[j] = IF j = i THEN r ELSE given[j]
  BY DEF StageRecord, LayoutInv
<1>2. BatchSize(kind)' = BatchSize(kind) /\ mask' \subseteq 0 .. BatchSize(kind) - 1
  BY <1>1 DEF LayoutInv, BatchSize
<1>3. Filled = mask /\ Filled' = mask'
  BY <1>1 DEF Filled
<1>4. ASSUME NEW j \in Filled', NEW name \in Names(kind'), NEW part \in 0 .. Width(name) - 1
      PROVE  slots'[Position(kind', name, j, part)] = Image(RecordAt(j)')[name][part + 1]
  <2>1. j \in mask' /\ j \in 0 .. BatchSize(kind) - 1 /\ name \in Names(kind)
    BY <1>1, <1>2, <1>3, <1>4
  <2>2. Position(kind', name, j, part) = Position(kind, name, j, part)
    BY <1>1
  <2>3. RecordAt(j)' = given'[j]
    BY <1>1 DEF RecordAt
  <2>4. CASE j = i
    <3>1. Written(kind, i, r)[Position(kind, name, j, part)] = Image(r)[name][part + 1]
      BY <1>1, <2>1, <2>4, WritesOneRecord
    <3>2. given'[j] = r
      BY <1>1, <2>1, <2>4
    <3>3. Image(RecordAt(j)') = Image(r)
      BY <2>3, <3>2
    <3> QED BY <1>1, <2>2, <3>1, <3>3
  <2>5. CASE j # i
    <3>1. j \in Filled /\ RecordAt(j) = given[j]
      BY <1>1, <1>3, <2>1, <2>5 DEF RecordAt
    <3>2. slots[Position(kind, name, j, part)] = Image(given[j])[name][part + 1]
      BY <2>1, <3>1 DEF LayoutInv, RecordsWhole
    <3> QED BY <1>1, <2>1, <2>2, <2>3, <2>5, <3>2, WritesOneRecord
  <2> QED BY <2>4, <2>5
<1>5. ASSUME kind' = RouteKind, NEW part \in 0 .. KeySlots - 1
      PROVE  slots'[GatewayKeyAt + part] = PackBytes(GatewayKey, KeySlots)[part + 1]
  <2>1. slots' = Written(RouteKind, i, r) /\ i \in 0 .. BatchSize(RouteKind) - 1
    BY <1>1, <1>5
  <2>2. Written(RouteKind, i, r)[GatewayKeyAt + part] = PackBytes(GatewayKey, KeySlots)[part + 1]
    BY <2>1, WritesGatewayKey
  <2> QED BY <2>1, <2>2
<1>6. RecordsWhole'
  BY <1>4, <1>5 DEF RecordsWhole
<1>7. kind' \in Kinds /\ sealed' = FALSE
  BY <1>1 DEF StageRecord, LayoutInv
<1>8. mask' \subseteq 0 .. BatchSize(kind') - 1
  BY <1>1, <1>2
<1> QED BY <1>6, <1>7, <1>8 DEF LayoutInv

\* Sealing keeps the batch and copies record 0, whole, over the rest.
LEMMA SealLayout ==
    ASSUME LayoutInv, NEW n \in 0 .. BatchSize(kind), SealAndQueue(n)
    PROVE  LayoutInv'
<1>1. /\ ~sealed /\ sealed' = TRUE /\ kind' = kind /\ mask' = mask /\ given' = given
      /\ count' = n /\ slots' = PaddedFrom(n) /\ kind \in Kinds
      /\ n \in 1 .. BatchSize(kind) /\ 0 .. n - 1 \subseteq mask
  BY DEF SealAndQueue, Complete, LayoutInv
<1>2. BatchSize(kind)' = BatchSize(kind) /\ mask' \subseteq 0 .. BatchSize(kind) - 1
        /\ BatchSize(kind) \in Nat
  BY <1>1, Sizes DEF LayoutInv, BatchSize
<1>3. Filled = mask /\ Filled' = 0 .. BatchSize(kind) - 1
  BY <1>1, <1>2 DEF Filled
<1>4. ASSUME NEW j \in Filled', NEW name \in Names(kind'), NEW part \in 0 .. Width(name) - 1
      PROVE  slots'[Position(kind', name, j, part)] = Image(RecordAt(j)')[name][part + 1]
  <2> DEFINE from == IF j < n THEN j ELSE 0
  <2>1. j \in 0 .. BatchSize(kind) - 1 /\ name \in Names(kind) /\ from \in 0 .. n - 1
    BY <1>1, <1>2, <1>3, <1>4
  <2>2. RecordAt(j)' = given[from] /\ RecordAt(from) = given[from] /\ from \in Filled
    BY <1>1, <1>2, <1>3, <2>1 DEF RecordAt
  <2>3. slots'[Position(kind', name, j, part)] = slots[Position(kind, name, from, part)]
    BY <1>1, <2>1, PadsWholeRecords
  <2>4. slots[Position(kind, name, from, part)] = Image(RecordAt(from))[name][part + 1]
    BY <2>1, <2>2 DEF LayoutInv, RecordsWhole
  <2> QED BY <2>2, <2>3, <2>4
<1>5. ASSUME kind' = RouteKind, NEW part \in 0 .. KeySlots - 1
      PROVE  slots'[GatewayKeyAt + part] = PackBytes(GatewayKey, KeySlots)[part + 1]
  <2>1. 0 \in mask
    BY <1>1, <1>2
  <2>2. slots[GatewayKeyAt + part] = PackBytes(GatewayKey, KeySlots)[part + 1]
    BY <1>1, <1>3, <1>5, <2>1 DEF LayoutInv, RecordsWhole
  <2> QED BY <1>1, <1>5, <2>2, PadsKeepGatewayKey
<1>6. RecordsWhole'
  BY <1>4, <1>5 DEF RecordsWhole
<1> QED BY <1>1, <1>2, <1>6 DEF LayoutInv

\* Every index of a buffer holds one whole record, under every order of staging, over-
\* writing, resetting and sealing, for every batch size: the columns of clearing/mod.rs

\* Every instruction on a buffer keeps its records whole.
LEMMA LayoutStep == LayoutInv /\ [LNext]_layoutVars => LayoutInv'
<1> SUFFICES ASSUME LayoutInv, [LNext]_layoutVars PROVE LayoutInv'
  OBVIOUS
<1>1. CASE \E k \in Kinds : ResetStaging(k)
  BY <1>1, ResetLayout
<1>2. CASE \E i \in 0 .. BatchSize(kind) - 1, r \in Records : StageRecord(i, r)
  BY <1>2, StageLayout
<1>3. CASE \E n \in 0 .. BatchSize(kind) : SealAndQueue(n)
  BY <1>3, SealLayout
<1>4. CASE UNCHANGED layoutVars
  BY <1>4 DEF layoutVars, LayoutInv, RecordsWhole, Filled, RecordAt
<1> QED BY <1>1, <1>2, <1>3, <1>4 DEF LNext

-----------------------------------------------------------------------------
(* Slots read back.                                                        *)

\* n pairs of words, each in a slot.
PairSlots(ns, n) == [q \in 1 .. n |-> U128Slot(PackPair(ns[2 * q - 1], ns[2 * q]))]

\* staged_u128 and u128_to_le_bytes give the number u128_slot wrote.
LEMMA SlotReadsBack ==
  ASSUME NEW v \in Nat, v < Powers[2 * WordBytes]
  PROVE  /\ StagedU128(U128Slot(v)) = v /\ Body16(U128Slot(v)) = LE(v, 2 * WordBytes)
<1> DEFINE b == LE(v, 2 * WordBytes)
<1>1. 2 * WordBytes \in 0 .. 2 * WordBytes /\ 2 * WordBytes \in Nat /\ 2 * WordBytes <= SlotBytes
      /\ SlotBytes \in Nat
  BY SizeFacts
<1>2. b \in Seq(Byte) /\ Len(b) = 2 * WordBytes
  BY <1>1, LETypes
<1> HIDE DEF b
<1>3. SubSeq(InSlot(b), 1, 2 * WordBytes) = b
  <2> DEFINE t == SubSeq(InSlot(b), 1, 2 * WordBytes)
  <2>1. \A d \in 1 .. 2 * WordBytes : InSlot(b)[d] = b[d] /\ b[d] \in Byte
    BY <1>1, <1>2 DEF InSlot
  <2>2. t = [d \in 1 .. 2 * WordBytes |-> InSlot(b)[d]]
    BY <1>1
  <2>3. b = [d \in 1 .. 2 * WordBytes |-> b[d]]
    BY <1>2
  <2> QED BY <2>1, <2>2, <2>3
<1>4. LEValue(b) = v
  BY <1>1, NumberReadsBack DEF b
<1> QED BY <1>3, <1>4 DEF b, U128Slot, StagedU128, Body16

\* The bytes a circuit takes out of slots of pairs are those of the words.
LEMMA PairsAreWords ==
  ASSUME NEW n \in Nat \ {0}, NEW ns \in [1 .. 2 * n -> Word],
         NEW slotted, slotted = PairSlots(ns, n)
  PROVE  FlattenSeq([q \in DOMAIN slotted |-> Body16(slotted[q])]) = Words(ns)
<1> DEFINE rows == [q \in DOMAIN slotted |-> Body16(slotted[q])]
           w == 2 * WordBytes
           f == FlattenSeq(rows)
<1>1. w \in Nat \ {0} /\ WordBytes \in Nat \ {0} /\ w \in 0 .. 2 * WordBytes
  BY SizeFacts
<1>2. Len(rows) = n
  BY DEF PairSlots
<1>3. ASSUME NEW q \in 1 .. n
      PROVE  /\ rows[q] \in Seq(Byte) /\ Len(rows[q]) = w
             /\ \A d \in 1 .. WordBytes : /\ rows[q][d] = LE(ns[2 * q - 1], WordBytes)[d]
                                          /\ rows[q][d + WordBytes] = LE(ns[2 * q], WordBytes)[d]
  <2> DEFINE lo == ns[2 * q - 1]
             hi == ns[2 * q]
             v == PackPair(lo, hi)
  <2>1. lo \in Word /\ hi \in Word
    OBVIOUS
  <2>2. v \in Nat /\ v < Powers[2 * WordBytes]
    <3> HIDE DEF lo, hi
    <3> QED BY <2>1, PairReadsBack
  <2>3. rows[q] = Body16(U128Slot(v))
    BY DEF PairSlots
  <2> HIDE DEF rows
  <2>4. rows[q] = LE(v, 2 * WordBytes)
    <3> HIDE DEF v
    <3> QED BY <2>2, <2>3, SlotReadsBack
  <2>5. rows[q] \in Seq(Byte) /\ Len(rows[q]) = w
    <3> HIDE DEF v
    <3> QED BY <1>1, <2>2, <2>4, LETypes
  <2> HIDE DEF lo, hi
  <2>6. ASSUME NEW d \in 1 .. WordBytes
        PROVE  /\ rows[q][d] = LE(lo, WordBytes)[d]
               /\ rows[q][d + WordBytes] = LE(hi, WordBytes)[d]
    <3>1. d + WordBytes \in WordBytes + 1 .. 2 * WordBytes /\ (d + WordBytes) - WordBytes = d
      BY <1>1
    <3> QED BY <2>1, <2>4, <3>1, PairBytes
  <2> QED BY <2>5, <2>6 DEF lo, hi
<1> HIDE DEF rows
<1>4. /\ f \in Seq(Byte) /\ Len(f) = w * n
      /\ \A q \in 1 .. n, d \in 1 .. w : f[(q - 1) * w + d] = rows[q][d]
  <2>1. w \in Nat \ {0}
    BY <1>1
  <2> HIDE DEF w, f
  <2>2. \A q \in 1 .. n : rows[q] \in Seq(Byte) /\ Len(rows[q]) = w
    BY <1>3
  <2>3. /\ FlattenSeq(rows) \in Seq(Byte) /\ Len(FlattenSeq(rows)) = w * n
        /\ \A q \in 1 .. n, d \in 1 .. w : FlattenSeq(rows)[(q - 1) * w + d] = rows[q][d]
    BY <1>2, <2>1, <2>2, FlattenRows
  <2> QED BY <2>3 DEF f
<1> HIDE DEF f
<1>5. /\ Words(ns) \in Seq(Byte) /\ Len(Words(ns)) = WordBytes * (2 * n)
      /\ \A j \in 1 .. 2 * n, d \in 1 .. WordBytes :
            Words(ns)[(j - 1) * WordBytes + d] = LE(ns[j], WordBytes)[d]
  <2>1. 2 * n \in Nat \ {0}
    OBVIOUS
  <2> QED BY <2>1, WordsAre
<1>6. Len(f) = Len(Words(ns)) /\ Len(f) = WordBytes * (2 * n)
  <2>1. w * n = WordBytes * (2 * n)
    BY <1>1
  <2> QED BY <1>4, <1>5, <2>1
<1>7. ASSUME NEW p \in 1 .. Len(f) PROVE f[p] = Words(ns)[p]
  <2>1. PICK j \in 1 .. 2 * n, d \in 1 .. WordBytes : p = (j - 1) * WordBytes + d
    <3>1. InRows(p, WordBytes, 2 * n)
      BY <1>1, <1>6, PlaceRow
    <3> QED BY <3>1 DEF InRows, AtPlace
  <2>2. Words(ns)[p] = LE(ns[j], WordBytes)[d]
    BY <1>5, <2>1
  <2>3. PICK q \in 1 .. n : j = 2 * q - 1 \/ j = 2 * q
    <3>1. \/ j = 2 * ((j + 1) \div 2) - 1 /\ (j + 1) \div 2 \in 1 .. n
          \/ j = 2 * (j \div 2) /\ j \div 2 \in 1 .. n
      OBVIOUS
    <3> QED BY <3>1
  <2>4. CASE j = 2 * q - 1
    <3>1. p = (q - 1) * w + d /\ d \in 1 .. w
      BY <1>1, <2>1, <2>4
    <3>2. f[p] = rows[q][d]
      BY <1>4, <3>1
    <3> QED BY <1>3, <2>2, <2>4, <3>2
  <2>5. CASE j = 2 * q
    <3>1. p = (q - 1) * w + (d + WordBytes) /\ d + WordBytes \in 1 .. w
      BY <1>1, <2>1, <2>5
    <3>2. f[p] = rows[q][d + WordBytes]
      BY <1>4, <3>1
    <3> QED BY <1>3, <2>2, <2>5, <3>2
  <2> QED BY <2>3, <2>4, <2>5
<1>8. f = Words(ns)
  BY <1>4, <1>5, <1>6, <1>7, SeqEqual
<1> QED BY <1>8 DEF f, rows

\* Slots that hold the bytes x, packed.
HoldsPacked(parts, x, k) == \A s \in 1 .. k : parts[s] = PackBytes(x, k)[s]

\* Slots that hold packed bytes unpack to them.
LEMMA PackReadsBack ==
  ASSUME NEW n \in Nat, NEW k \in Nat, n <= k * BytesPerSlot, NEW x \in [1 .. n -> Byte], NEW parts,
         HoldsPacked(parts, x, k)
  PROVE  UnpackBytes(parts, n) = x
<1>1. BytesPerSlot \in Nat \ {0} /\ SlotBytes \in Nat /\ BytesPerSlot <= SlotBytes
  BY SizeFacts
<1>2. ASSUME NEW b \in 1 .. n
      PROVE  parts[1 + ((b - 1) \div BytesPerSlot)][1 + ((b - 1) % BytesPerSlot)] = x[b]
  <2> DEFINE q == (b - 1) \div BytesPerSlot
             d == (b - 1) % BytesPerSlot
             from == q * BytesPerSlot
             to == IF from + BytesPerSlot <= n THEN from + BytesPerSlot ELSE n
             piece == SubSeq(x, from + 1, to)
  <2>1. b - 1 \in Nat /\ b \in Nat
    OBVIOUS
  <2>2. q \in Nat /\ d \in 0 .. BytesPerSlot - 1 /\ b - 1 = from + d
    <3> HIDE DEF d, q
    <3>1. q \in Nat /\ d \in 0 .. BytesPerSlot - 1 /\ b - 1 = q * BytesPerSlot + d
      BY <1>1, <2>1, Quotient DEF q, d
    <3> QED BY <3>1
  <2> HIDE DEF q, d
  <2>3. from \in Nat
    BY <1>1, <2>2
  <2>4. q + 1 \in 1 .. k
    <3>1. ASSUME k <= q PROVE FALSE
      <4>1. k * BytesPerSlot <= q * BytesPerSlot
        BY <1>1, <2>2, <3>1, TimesMonotone
      <4>2. k * BytesPerSlot \in Nat
        BY <1>1
      <4> QED BY <2>2, <2>3, <4>1, <4>2
    <3> QED BY <2>2, <3>1
  <2>5. ((q + 1) - 1) * BytesPerSlot = from /\ (q + 1) * BytesPerSlot = from + BytesPerSlot
    BY <1>1, <2>2
  <2> HIDE DEF from
  <2>6. to \in Nat /\ b <= to /\ to <= n /\ Len(x) = n
    BY <1>1, <2>1, <2>2, <2>3
  <2>7. parts[q + 1] = InSlot(piece)
    BY <2>4, <2>5, <2>6 DEF PackBytes, HoldsPacked
  <2> HIDE DEF to
  <2>8. d + 1 \in 1 .. Len(piece) /\ piece[d + 1] = x[b]
    <3>1. Len(piece) = to - from /\ \A p \in 1 .. to - from : piece[p] = x[from + p]
      <4> DEFINE f == from + 1
      <4>1. f \in Int /\ to \in Int /\ f <= to /\ to - f + 1 = to - from
        BY <2>1, <2>2, <2>3, <2>6
      <4>2. \A p \in f .. to : x[p] \in Byte
        BY <2>3, <2>6
      <4>3. \A p \in 1 .. to - from : f + p - 1 = from + p
        BY <2>3
      <4>4. piece = SubSeq(x, f, to)
        OBVIOUS
      <4> HIDE DEF f, piece
      <4>5. Len(SubSeq(x, f, to)) = to - f + 1
              /\ \A p \in 1 .. to - f + 1 : SubSeq(x, f, to)[p] = x[f + p - 1]
        BY ONLY <4>1, <4>2, SubSeqProperties
      <4> QED BY <4>1, <4>3, <4>4, <4>5
    <3>2. d + 1 \in 1 .. to - from /\ from + (d + 1) = b
      BY <1>1, <2>1, <2>2, <2>3, <2>6
    <3> QED BY <3>1, <3>2
  <2> HIDE DEF piece
  <2>9. InSlot(piece)[d + 1] = x[b]
    <3>1. d + 1 \in 1 .. SlotBytes /\ d + 1 <= Len(piece)
      BY <1>1, <2>2, <2>8
    <3> QED BY <2>8, <3>1 DEF InSlot
  <2>10. 1 + q = q + 1 /\ 1 + d = d + 1
    BY <1>1, <2>2
  <2> QED BY <2>7, <2>9, <2>10 DEF q, d
<1>3. UnpackBytes(parts, n) = [b \in 1 .. n |-> x[b]]
  BY <1>2 DEF UnpackBytes
<1> QED BY <1>3

\* A circuit that is given the words of a message in pairs rebuilds the bytes that were
\* signed.
LEMMA PreimageIs ==
  ASSUME kind \in Kinds, NEW m \in MessageType, m.kind = kind, NEW arguments,
         arguments = PairSlots(BodyWords(m), Pairs(kind))
  PROVE  Preimage(arguments) = Tag \o Encode(Domain, m)
<1> DEFINE w == Words(BodyWords(m))
           k == <<kind, Version>>
<1>1. Domain \in Seq(Byte) /\ Len(Domain) = DomainBytes /\ Tag \in Seq(Byte) /\ DomainBytes \in 0 .. 2 * WordBytes
  BY SharedBytes, SizeFacts DEF DomainBytes
<1>2. LE(LEValue(Domain), DomainBytes) = Domain
  BY <1>1, BytesReadBack
<1>3. Pairs(kind) \in Nat \ {0} /\ 2 * Pairs(kind) \in Nat \ {0}
        /\ BodyWords(m) \in [1 .. 2 * Pairs(kind) -> Word]
  BY BodyWordsAre, PairsNat
<1>4. w \in Seq(Byte)
  BY <1>3, WordsAre
<1>5. FlattenSeq([q \in DOMAIN arguments |-> Body16(arguments[q])]) = w
  BY <1>3, PairsAreWords
<1>6. k \in Seq(Byte)
  BY KindBytes
<1>7. Encode(Domain, m) = (Domain \o k) \o w
  BY DEF Encode
<1>8. Preimage(arguments) = ((Tag \o Domain) \o k) \o w
  BY <1>2, <1>5 DEF Preimage
<1> HIDE DEF w, k
<1>9. Domain \o k \in Seq(Byte) /\ (Tag \o Domain) \o k = Tag \o (Domain \o k)
  BY <1>1, <1>6, ConcatAssociative, SMTT(30)
<1>10. (Tag \o (Domain \o k)) \o w = Tag \o ((Domain \o k) \o w)
  <2> DEFINE body == Domain \o k
  <2>1. body \in Seq(Byte)
    BY <1>9
  <2> HIDE DEF body
  <2>2. (Tag \o body) \o w = Tag \o (body \o w)
    BY <1>1, <1>4, <2>1, ConcatAssociative, SMTT(30)
  <2> QED BY <2>2 DEF body
<1> QED BY <1>7, <1>8, <1>9, <1>10

\* A signature verifies over these bytes when it was made over that message.
LEMMA VerifyIs ==
  ASSUME NEW m \in MessageType, NEW key, NEW sig
  PROVE  Verify(key, Tag \o Encode(Domain, m), sig)
           <=> \E g \in Genuine : g.key = key /\ g.com = m /\ g.sig = sig
<1>1. \A g \in Genuine : g.com \in MessageType
  BY StagedBytes
<1>2. \A g \in Genuine : Tag \o Encode(Domain, g.com) = Tag \o Encode(Domain, m) <=> g.com = m
  BY <1>1, EncodeDiffers
<1> QED BY <1>2 DEF Verify

\* Index i holds record r whole, and the batch its gateway's key.
HoldsRecord(i, r) ==
    \A name \in Names(kind) : \A s \in 1 .. Width(name) :
       slots[Column(kind, name) + Width(name) * i + s - 1] = Image(r)[name][s]
HoldsGatewayKey ==
    \A s \in 1 .. KeySlots : slots[GatewayKeyAt + s - 1] = PackBytes(GatewayKey, KeySlots)[s]

\* Every filled index of a whole buffer holds its record.
LEMMA WholeHolds ==
  ASSUME kind \in Kinds, RecordsWhole, NEW i \in Filled, i \in 0 .. BatchSize(kind) - 1
  PROVE  HoldsRecord(i, RecordAt(i)) /\ (kind = RouteKind => HoldsGatewayKey)
<1>1. ASSUME NEW name \in Names(kind), NEW s \in 1 .. Width(name)
      PROVE  slots[Column(kind, name) + Width(name) * i + s - 1] = Image(RecordAt(i))[name][s]
  <2>1. Width(name) \in Nat /\ Before(name) \in Nat /\ BatchSize(kind) \in Nat /\ i \in Nat
    BY Widths, Sizes
  <2>2. Column(kind, name) \in Nat
    BY <2>1 DEF Column
  <2>3. Width(name) * i \in Nat
    BY <2>1
  <2>4. s - 1 \in 0 .. Width(name) - 1 /\ (s - 1) + 1 = s /\ s \in Nat
    BY <2>1
  <2>5. Position(kind, name, i, s - 1) = Column(kind, name) + Width(name) * i + s - 1
    BY <2>2, <2>3, <2>4 DEF Position
  <2>6. slots[Position(kind, name, i, s - 1)] = Image(RecordAt(i))[name][(s - 1) + 1]
    BY <2>4 DEF RecordsWhole
  <2> QED BY <2>4, <2>5, <2>6
<1>2. ASSUME kind = RouteKind, NEW s \in 1 .. KeySlots
      PROVE  slots[GatewayKeyAt + s - 1] = PackBytes(GatewayKey, KeySlots)[s]
  <2>1. s - 1 \in 0 .. KeySlots - 1 /\ (s - 1) + 1 = s /\ GatewayKeyAt + (s - 1) = GatewayKeyAt + s - 1
    BY GatewayKeyAtNat DEF KeySlots
  <2>2. slots[GatewayKeyAt + (s - 1)] = PackBytes(GatewayKey, KeySlots)[(s - 1) + 1]
    BY <1>2, <2>1 DEF RecordsWhole
  <2> QED BY <2>1, <2>2
<1> QED BY <1>1, <1>2 DEF HoldsRecord, HoldsGatewayKey

-----------------------------------------------------------------------------
(* What is verified is what is settled.                                    *)

\* A record of the batch's kind and of a registered channel.
OfBatch(r) ==
    r \in RecordType /\ r.com.kind = kind /\ r.com.channel \in DOMAIN RegisteredKey

\* The key and the signatures of such a record.
LEMMA OfBatchFacts ==
  ASSUME NEW r, OfBatch(r)
  PROVE  /\ r.com \in MessageType /\ RegisteredKey[r.com.channel] \in KeyType
         /\ r.sigs[1] \in SignatureType /\ (kind = RouteKind => r.sigs[2] \in SignatureType)
<1>1. /\ r.com \in MessageType /\ r.sigs \in Seq(SignatureType)
      /\ Len(r.sigs) = IF r.com.kind = RouteKind THEN 2 ELSE 1
  BY DEF OfBatch, RecordType
<1>2. RegisteredKey[r.com.channel] \in KeyType
  BY StagedBytes DEF OfBatch
<1> QED BY <1>1, <1>2 DEF OfBatch

\* A parameter of a circuit is the column of the record.
LEMMA ParameterIs ==
  ASSUME NEW i, NEW r, HoldsRecord(i, r), NEW n, NEW name \in Names(kind), kind \in Kinds,
         Arguments(kind)[n] = name, NEW w, w = Width(name)
  PROVE  /\ \A s \in 1 .. w : Parameter(n, i, w)[s] = Image(r)[name][s]
         /\ DOMAIN Parameter(n, i, w) = 1 .. w
<1>1. name # "gatewayKey"
  BY DEF Names, RouteNames, UniNames
<1>2. Parameter(n, i, w) = [s \in 1 .. w |-> slots[Column(kind, name) + w * i + s - 1]]
  BY <1>1 DEF Parameter
<1> QED BY <1>2 DEF HoldsRecord

\* A key out of its slots.
LEMMA KeyReadsBack ==
  ASSUME NEW x \in KeyType, NEW parts, HoldsPacked(parts, x, KeySlots)
  PROVE  UnpackBytes(parts, KeyBytes) = x
BY SizeFacts, PackReadsBack DEF KeyType, KeySlots

\* A signature out of its slots.
LEMMA SigReadsBack ==
  ASSUME NEW x \in SignatureType, NEW parts, HoldsPacked(parts, x, SigSlots)
  PROVE  UnpackBytes(parts, SigBytes) = x
BY SizeFacts, PackReadsBack DEF SignatureType, SigSlots

\* A pair of words out of its slot.
LEMMA SlotOfPair ==
  ASSUME NEW lo \in Word, NEW hi \in Word
  PROVE  UnpackPair(StagedU128(U128Slot(PackPair(lo, hi)))) = <<lo, hi>>
<1> DEFINE v == PackPair(lo, hi)
<1>1. v \in Nat /\ v < Powers[2 * WordBytes] /\ UnpackPair(v) = <<lo, hi>>
  BY PairReadsBack
<1> HIDE DEF v
<1>2. StagedU128(U128Slot(v)) = v
  BY <1>1, SlotReadsBack
<1> QED BY <1>1, <1>2 DEF v

\* In a column of one slot per record, a record's slot is at its index.
LEMMA StagedIs ==
  ASSUME kind \in Kinds, NEW i \in Nat, NEW r, HoldsRecord(i, r),
         NEW name \in Names(kind), Width(name) = 1
  PROVE  Staged(name, i) = Image(r)[name][1]
<1>1. Column(kind, name) \in Nat
  BY Widths, Sizes DEF Column
<1>2. 1 \in 1 .. Width(name) /\ Column(kind, name) + Width(name) * i + 1 - 1 = Column(kind, name) + i
  BY <1>1
<1>3. slots[Column(kind, name) + Width(name) * i + 1 - 1] = Image(r)[name][1]
  BY <1>2 DEF HoldsRecord
<1> QED BY <1>2, <1>3 DEF Staged

\* What the columns of a unilateral commitment give: to settle_channels the commitment and
\* its bucket, to the circuit the bit of its signature.
LEMMA UniSettles ==
  ASSUME kind = Unilateral, NEW i \in Nat, NEW r, OfBatch(r), HoldsRecord(i, r)
  PROVE  /\ SettledCommitment(i) = r.com
         /\ SettledBucket(i) = BucketAddress[r.com.channel]
         /\ CircuitBit(i) = SignedRecord(r)
<1> DEFINE m == r.com
<1>1. /\ m \in MessageType /\ m.kind = Unilateral /\ m.channel \in Word /\ m.target \in Word
      /\ m = [kind |-> Unilateral, channel |-> m.channel, target |-> m.target]
      /\ kind \in Kinds /\ kind # RouteKind
  BY OfBatchFacts, MessageKinds DEF OfBatch, Kinds, Unilateral, RouteKind
<1>2. /\ {"ids", "sig", "key", "bucket"} = Names(kind)
      /\ Width("ids") = 1 /\ Width("sig") = SigSlots /\ Width("key") = KeySlots /\ Width("bucket") = 1
  BY <1>1 DEF Names, UniNames, Width
<1>3. /\ Image(r)["ids"][1] = U128Slot(PackPair(m.channel, m.target))
      /\ Image(r)["sig"] = PackBytes(r.sigs[1], SigSlots)
      /\ Image(r)["key"] = PackBytes(RegisteredKey[m.channel], KeySlots)
      /\ Image(r)["bucket"][1] = BucketAddress[m.channel]
  BY <1>1 DEF Image, UniImage
<1>4. SettledCommitment(i) = m
  <2>1. PairAt("ids", i) = <<m.channel, m.target>>
    <3>1. Staged("ids", i) = U128Slot(PackPair(m.channel, m.target))
      BY <1>1, <1>2, <1>3, StagedIs
    <3> QED BY <1>1, <3>1, SlotOfPair DEF PairAt
  <2> QED BY <1>1, <2>1 DEF SettledCommitment
<1>5. SettledBucket(i) = BucketAddress[m.channel]
  <2>1. Staged("bucket", i) = BucketAddress[m.channel]
    BY <1>1, <1>2, <1>3, StagedIs
  <2> QED BY <2>1 DEF SettledBucket
<1>6. CircuitBit(i) = SignedRecord(r)
  <2>1. Arguments(kind)[1] = "ids" /\ Arguments(kind)[2] = "key" /\ Arguments(kind)[3] = "sig"
    BY DEF Arguments
  <2>2. UnpackBytes(Parameter(2, i, KeySlots), KeyBytes) = RegisteredKey[m.channel]
    <3>1. HoldsPacked(Parameter(2, i, KeySlots), RegisteredKey[m.channel], KeySlots)
      BY <1>1, <1>2, <1>3, <2>1, ParameterIs DEF HoldsPacked
    <3> QED BY <3>1, OfBatchFacts, KeyReadsBack
  <2>3. UnpackBytes(Parameter(3, i, SigSlots), SigBytes) = r.sigs[1]
    <3>1. HoldsPacked(Parameter(3, i, SigSlots), r.sigs[1], SigSlots)
      BY <1>1, <1>2, <1>3, <2>1, ParameterIs DEF HoldsPacked
    <3> QED BY <3>1, OfBatchFacts, SigReadsBack
  <2>4. Preimage(Parameter(1, i, 1)) = Tag \o Encode(Domain, m)
    <3> DEFINE p == Parameter(1, i, 1)
    <3>1. p[1] = U128Slot(PackPair(m.channel, m.target)) /\ DOMAIN p = 1 .. 1
      <4>1. (\A s \in 1 .. 1 : p[s] = Image(r)["ids"][s]) /\ DOMAIN p = 1 .. 1
        <5> DEFINE w == 1
                   name == "ids"
        <5>1. w = Width(name) /\ name \in Names(kind) /\ Arguments(kind)[1] = name
          BY <1>2, <2>1
        <5> HIDE DEF w, name, p
        <5>2. (\A s \in 1 .. w : Parameter(1, i, w)[s] = Image(r)[name][s]) /\ DOMAIN Parameter(1, i, w) = 1 .. w
          BY <1>1, <5>1, ParameterIs
        <5> QED BY <5>2 DEF w, name, p
      <4> QED BY <1>3, <4>1
    <3>2. p = [q \in 1 .. 1 |-> p[q]]
      BY DEF Parameter
    <3> HIDE DEF p
    <3>3. BodyWords(m)[1] = m.channel /\ BodyWords(m)[2] = m.target
      BY <1>1, BodyWordsAre
    <3>4. p = PairSlots(BodyWords(m), Pairs(kind))
      BY <1>1, <3>1, <3>2, <3>3 DEF PairSlots, Pairs
    <3>5. m.kind = kind
      BY <1>1
    <3> HIDE DEF m
    <3>6. Preimage(p) = Tag \o Encode(Domain, m)
      BY <1>1, <3>4, <3>5, PreimageIs
    <3> QED BY <3>6 DEF p
  <2>5. UniBit(i) = Verify(RegisteredKey[m.channel], Tag \o Encode(Domain, m), r.sigs[1])
    BY <2>2, <2>3, <2>4 DEF UniBit
  <2>6. Verify(RegisteredKey[m.channel], Tag \o Encode(Domain, m), r.sigs[1])
          <=> SignedBy(r, RegisteredKey[m.channel], 1)
    BY <1>1, VerifyIs DEF SignedBy
  <2>7. CircuitBit(i) = UniBit(i)
    BY <1>1 DEF CircuitBit
  <2>8. UniBit(i) \in BOOLEAN /\ SignedRecord(r) \in BOOLEAN
    BY DEF UniBit, Verify, SignedRecord, SignedBy
  <2>9. SignedRecord(r) <=> SignedBy(r, RegisteredKey[m.channel], 1)
    BY <1>1 DEF SignedRecord
  <2> QED BY <2>5, <2>6, <2>7, <2>8, <2>9
<1> QED BY <1>4, <1>5, <1>6

\* What the columns of a route give settle_channels: the commitment and its bucket.
LEMMA RouteSettled ==
  ASSUME kind = RouteKind, NEW i \in Nat, NEW r, OfBatch(r), HoldsRecord(i, r)
  PROVE  SettledCommitment(i) = r.com /\ SettledBucket(i) = BucketAddress[r.com.channel]
<1> DEFINE m == r.com
           size == Len(m.allocations)
<1>1. /\ m \in MessageType /\ m.kind = RouteKind /\ m.channel \in Word /\ m.base \in Word
      /\ m.target \in Word /\ m.allocations \in AllocationsType
      /\ m = [kind |-> RouteKind, channel |-> m.channel, base |-> m.base,
              target |-> m.target, allocations |-> m.allocations]
      /\ kind \in Kinds /\ kind # Unilateral
  BY OfBatchFacts, MessageKinds DEF OfBatch, Kinds, Unilateral, RouteKind
<1>2. /\ {"sourceBase", "targetCount", "allocations", "sourceBucket"} \subseteq Names(kind)
      /\ Width("sourceBase") = 1 /\ Width("targetCount") = 1 /\ Width("sourceBucket") = 1
      /\ Width("allocations") = MaxAllocations
  BY <1>1 DEF Names, RouteNames, Width
<1>3. /\ Image(r)["sourceBase"][1] = U128Slot(PackPair(m.channel, m.base))
      /\ Image(r)["targetCount"][1] = U128Slot(PackPair(m.target, size))
      /\ Image(r)["sourceBucket"][1] = BucketAddress[m.channel]
      /\ \A a \in 1 .. MaxAllocations :
            Image(r)["allocations"][a] =
              U128Slot(PackPair(Padded(m.allocations)[a].id, Padded(m.allocations)[a].amount))
  BY <1>1 DEF Image, RouteImage
<1>4. /\ size \in 0 .. MaxAllocations /\ size \in Word /\ m.allocations \in [1 .. size -> AllocationType]
      /\ \A a \in 1 .. size : Padded(m.allocations)[a] = m.allocations[a]
  BY <1>1, PaddedIs, WordFacts
<1>5. PairAt("sourceBase", i) = <<m.channel, m.base>>
  <2>1. Staged("sourceBase", i) = U128Slot(PackPair(m.channel, m.base))
    BY <1>1, <1>2, <1>3, StagedIs
  <2> QED BY <1>1, <2>1, SlotOfPair DEF PairAt
<1>6. PairAt("targetCount", i) = <<m.target, size>>
  <2>1. Staged("targetCount", i) = U128Slot(PackPair(m.target, size))
    BY <1>1, <1>2, <1>3, StagedIs
  <2> HIDE DEF size
  <2> QED BY <1>1, <1>4, <2>1, SlotOfPair DEF PairAt
<1>7. ASSUME NEW a \in 1 .. size
      PROVE  PairAt("allocations", i * MaxAllocations + a - 1)
               = <<m.allocations[a].id, m.allocations[a].amount>>
  <2>1. a \in 1 .. MaxAllocations /\ m.allocations[a] \in AllocationType
    BY <1>4, SizeFacts
  <2>2. Column(kind, "allocations") + MaxAllocations * i + a - 1
          = Column(kind, "allocations") + (i * MaxAllocations + a - 1)
    <3>1. Column(kind, "allocations") \in Nat
      <4>1. Before("allocations") \in Nat /\ BatchSize(kind) \in Nat
        BY <1>1, <1>2, Widths, Sizes
      <4> QED BY <4>1 DEF Column
    <3>2. MaxAllocations * i = i * MaxAllocations /\ i * MaxAllocations \in Nat /\ a \in Nat
      BY SizeFacts, <2>1
    <3> QED BY <3>1, <3>2
  <2>3. slots[Column(kind, "allocations") + MaxAllocations * i + a - 1] = Image(r)["allocations"][a]
    BY <1>2, <2>1 DEF HoldsRecord
  <2>4. Staged("allocations", i * MaxAllocations + a - 1)
          = U128Slot(PackPair(m.allocations[a].id, m.allocations[a].amount))
    BY <1>3, <1>4, <2>1, <2>2, <2>3 DEF Staged
  <2>5. m.allocations[a].id \in Word /\ m.allocations[a].amount \in Word
    BY <2>1 DEF AllocationType
  <2> QED BY <2>4, <2>5, SlotOfPair DEF PairAt
<1>8. SettledCommitment(i) = m
  <2> DEFINE read == [a \in 1 .. size |->
                        LET pair == PairAt("allocations", i * MaxAllocations + a - 1)
                        IN  [id |-> pair[1], amount |-> pair[2]]]
  <2>1. \A a \in 1 .. size : read[a] = m.allocations[a]
    BY <1>4, <1>7 DEF AllocationType
  <2>2. read = m.allocations
    BY <1>4, <2>1
  <2>3. SettledCommitment(i) = [kind |-> kind, channel |-> m.channel, base |-> m.base,
                                target |-> m.target, allocations |-> read]
    <3>1. /\ PairAt("sourceBase", i)[1] = m.channel /\ PairAt("sourceBase", i)[2] = m.base
          /\ PairAt("targetCount", i)[1] = m.target /\ PairAt("targetCount", i)[2] = size
      BY <1>5, <1>6
    <3> HIDE DEF m, size
    <3> QED BY <1>1, <3>1 DEF SettledCommitment
  <2> QED BY <1>1, <2>2, <2>3
<1>9. SettledBucket(i) = BucketAddress[m.channel]
  <2>1. Staged("sourceBucket", i) = BucketAddress[m.channel]
    BY <1>1, <1>2, <1>3, StagedIs
  <2> QED BY <1>1, <2>1 DEF SettledBucket
<1> QED BY <1>8, <1>9

\* What they give the circuit to verify over: the bytes both signers signed.
LEMMA RoutePreimage ==
  ASSUME kind = RouteKind, NEW i \in Nat, NEW r, OfBatch(r), HoldsRecord(i, r)
  PROVE  Preimage(Parameter(1, i, 1) \o Parameter(2, i, 1) \o Parameter(3, i, MaxAllocations))
           = Tag \o Encode(Domain, r.com)
<1> DEFINE m == r.com
           S == {U128Slot(v) : v \in Nat}
           one == Parameter(1, i, 1)
           two == Parameter(2, i, 1)
           rest == Parameter(3, i, MaxAllocations)
           ws == BodyWords(m)
<1>1. /\ m \in MessageType /\ m.kind = RouteKind /\ kind \in Kinds /\ m.kind = kind
  BY OfBatchFacts DEF OfBatch, Kinds
<1>2. /\ {"sourceBase", "targetCount", "allocations"} \subseteq Names(kind)
      /\ Width("sourceBase") = 1 /\ Width("targetCount") = 1 /\ Width("allocations") = MaxAllocations
      /\ Arguments(kind)[1] = "sourceBase" /\ Arguments(kind)[2] = "targetCount"
      /\ Arguments(kind)[3] = "allocations"
  BY <1>1 DEF Names, RouteNames, Width, Arguments, RouteKind, Unilateral
<1>3. /\ Image(r)["sourceBase"][1] = U128Slot(PackPair(m.channel, m.base))
      /\ Image(r)["targetCount"][1] = U128Slot(PackPair(m.target, Len(m.allocations)))
      /\ \A a \in 1 .. MaxAllocations :
            Image(r)["allocations"][a] =
              U128Slot(PackPair(Padded(m.allocations)[a].id, Padded(m.allocations)[a].amount))
  BY <1>1 DEF Image, RouteImage
<1>4. /\ ws \in [1 .. 2 * Pairs(kind) -> Word] /\ Pairs(kind) = 2 + MaxAllocations
      /\ ws[1] = m.channel /\ ws[2] = m.base /\ ws[3] = m.target /\ ws[4] = Len(m.allocations)
      /\ \A a \in 1 .. MaxAllocations : /\ ws[2 * a + 3] = Padded(m.allocations)[a].id
                                        /\ ws[2 * a + 4] = Padded(m.allocations)[a].amount
  BY <1>1, BodyWordsAre DEF Pairs
<1> HIDE DEF ws
<1>5. ASSUME NEW q \in 1 .. 2 + MaxAllocations
      PROVE  U128Slot(PackPair(ws[2 * q - 1], ws[2 * q])) \in S
  <2>1. 2 * q - 1 \in 1 .. 2 * Pairs(kind) /\ 2 * q \in 1 .. 2 * Pairs(kind)
    BY <1>4, SizeFacts
  <2>2. ws[2 * q - 1] \in Word /\ ws[2 * q] \in Word
    BY <1>4, <2>1
  <2>3. PackPair(ws[2 * q - 1], ws[2 * q]) \in Nat
    BY <2>2, PairReadsBack
  <2> QED BY <2>3
<1>6. /\ one[1] = U128Slot(PackPair(ws[1], ws[2])) /\ one \in Seq(S) /\ Len(one) = 1
      /\ two[1] = U128Slot(PackPair(ws[3], ws[4])) /\ two \in Seq(S) /\ Len(two) = 1
  <2> DEFINE w == 1
  <2>1. w = Width("sourceBase") /\ w = Width("targetCount")
    BY <1>2
  <2> HIDE DEF w
  <2>2. /\ \A s \in 1 .. w : /\ Parameter(1, i, w)[s] = Image(r)["sourceBase"][s]
                             /\ Parameter(2, i, w)[s] = Image(r)["targetCount"][s]
    BY <1>1, <1>2, <2>1, ParameterIs
  <2>3. one[1] = Image(r)["sourceBase"][1] /\ two[1] = Image(r)["targetCount"][1]
    BY <2>2 DEF w
  <2>4. one[1] = U128Slot(PackPair(ws[1], ws[2])) /\ two[1] = U128Slot(PackPair(ws[3], ws[4]))
    BY <1>3, <1>4, <2>3
  <2>5. one[1] \in S /\ two[1] \in S
    <3>1. 1 \in 1 .. 2 + MaxAllocations /\ 2 \in 1 .. 2 + MaxAllocations
      BY SizeFacts
    <3>2. U128Slot(PackPair(ws[2 * 1 - 1], ws[2 * 1])) \in S /\ U128Slot(PackPair(ws[2 * 2 - 1], ws[2 * 2])) \in S
      <4> HIDE DEF S
      <4> QED BY <1>5, <3>1
    <3> QED BY <2>4, <3>2
  <2>6. one = [s \in 1 .. 1 |-> one[s]] /\ two = [s \in 1 .. 1 |-> two[s]]
    BY DEF Parameter
  <2> HIDE DEF one, two, S
  <2> QED BY <2>4, <2>5, <2>6
<1>7. /\ rest \in Seq(S) /\ Len(rest) = MaxAllocations
      /\ \A a \in 1 .. MaxAllocations : rest[a] = U128Slot(PackPair(ws[2 * a + 3], ws[2 * a + 4]))
  <2>1. \A a \in 1 .. MaxAllocations : rest[a] = Image(r)["allocations"][a]
    BY <1>1, <1>2, ParameterIs
  <2>2. rest = [a \in 1 .. MaxAllocations |-> rest[a]]
    BY DEF Parameter
  <2> HIDE DEF rest
  <2>3. ASSUME NEW a \in 1 .. MaxAllocations
        PROVE  rest[a] = U128Slot(PackPair(ws[2 * a + 3], ws[2 * a + 4])) /\ rest[a] \in S
    <3>1. rest[a] = U128Slot(PackPair(ws[2 * a + 3], ws[2 * a + 4]))
      BY <1>3, <1>4, <2>1
    <3>2. 2 + a \in 1 .. 2 + MaxAllocations /\ 2 * (2 + a) - 1 = 2 * a + 3 /\ 2 * (2 + a) = 2 * a + 4
      BY SizeFacts
    <3>3. U128Slot(PackPair(ws[2 * (2 + a) - 1], ws[2 * (2 + a)])) \in S
      <4> HIDE DEF S
      <4> QED BY <1>5, <3>2
    <3> QED BY <3>1, <3>2, <3>3
  <2> HIDE DEF S
  <2>4. rest \in [1 .. MaxAllocations -> S] /\ MaxAllocations \in Nat
    BY <2>2, <2>3, SizeFacts
  <2>5. rest \in Seq(S) /\ Len(rest) = MaxAllocations
    BY ONLY <2>4
  <2> QED BY <2>3, <2>5
<1> DEFINE all == (one \o two) \o rest
<1> HIDE DEF one, two, rest, S
<1>8. one \o two \in Seq(S) /\ Len(one \o two) = 2 /\ (one \o two)[1] = one[1] /\ (one \o two)[2] = two[1]
  <2>1. /\ one \o two \in Seq(S) /\ Len(one \o two) = Len(one) + Len(two)
        /\ \A p \in 1 .. Len(one) : (one \o two)[p] = one[p]
        /\ \A p \in 1 .. Len(two) : (one \o two)[Len(one) + p] = two[p]
    <3>1. one \in Seq(S) /\ two \in Seq(S)
      BY <1>6
    <3> QED BY ONLY <3>1, ConcatParts
  <2>2. 1 \in 1 .. Len(one) /\ 1 \in 1 .. Len(two) /\ Len(one) + 1 = 2
    BY <1>6
  <2> QED BY <1>6, <2>1, <2>2
<1> DEFINE both == one \o two
<1>9. both \in Seq(S) /\ Len(both) = 2 /\ both[1] = one[1] /\ both[2] = two[1]
  BY <1>8
<1> HIDE DEF both
<1>10. /\ both \o rest \in Seq(S) /\ Len(both \o rest) = 2 + MaxAllocations
       /\ (both \o rest)[1] = one[1] /\ (both \o rest)[2] = two[1]
       /\ \A a \in 1 .. MaxAllocations : (both \o rest)[2 + a] = rest[a]
  <2>1. /\ both \o rest \in Seq(S) /\ Len(both \o rest) = Len(both) + Len(rest)
        /\ \A p \in 1 .. Len(both) : (both \o rest)[p] = both[p]
        /\ \A p \in 1 .. Len(rest) : (both \o rest)[Len(both) + p] = rest[p]
    <3>1. both \in Seq(S) /\ rest \in Seq(S)
      BY <1>7, <1>9
    <3> QED BY ONLY <3>1, ConcatParts
  <2>2. 1 \in 1 .. Len(both) /\ 2 \in 1 .. Len(both)
    BY <1>9
  <2> QED BY <1>7, <1>9, <2>1, <2>2
<1> DEFINE slotted == both \o rest
<1> HIDE DEF slotted
<1>11. ASSUME NEW q \in 1 .. 2 + MaxAllocations
       PROVE  slotted[q] = U128Slot(PackPair(ws[2 * q - 1], ws[2 * q]))
  <2>1. q \in Nat /\ (q = 1 \/ q = 2 \/ q - 2 \in 1 .. MaxAllocations)
    BY SizeFacts
  <2>2. CASE q = 1
    <3>1. 2 * q - 1 = 1 /\ 2 * q = 2
      BY <2>2
    <3> QED BY <1>6, <1>10, <2>2, <3>1 DEF slotted
  <2>3. CASE q = 2
    <3>1. 2 * q - 1 = 3 /\ 2 * q = 4
      BY <2>3
    <3> QED BY <1>6, <1>10, <2>3, <3>1 DEF slotted
  <2>4. CASE q - 2 \in 1 .. MaxAllocations
    <3>1. 2 + (q - 2) = q /\ 2 * (q - 2) + 3 = 2 * q - 1 /\ 2 * (q - 2) + 4 = 2 * q
      BY <2>1
    <3>2. slotted[2 + (q - 2)] = rest[q - 2]
      BY <1>10, <2>4 DEF slotted
    <3>3. rest[q - 2] = U128Slot(PackPair(ws[2 * (q - 2) + 3], ws[2 * (q - 2) + 4]))
      BY <1>7, <2>4
    <3> QED BY <3>1, <3>2, <3>3
  <2> QED BY <2>1, <2>2, <2>3, <2>4
<1>12. slotted = PairSlots(ws, Pairs(kind))
  <2>1. slotted \in [1 .. 2 + MaxAllocations -> S]
    <3>1. 2 + MaxAllocations \in Nat
      BY SizeFacts
    <3> QED BY <1>10, <3>1, SeqOfLen DEF slotted
  <2>2. slotted = [q \in 1 .. 2 + MaxAllocations |-> slotted[q]]
    BY <2>1
  <2> QED BY <1>4, <1>11, <2>2 DEF PairSlots
<1>13. Preimage(slotted) = Tag \o Encode(Domain, m)
  <2> HIDE DEF m
  <2> QED BY <1>1, <1>12, PreimageIs DEF ws
<1> QED BY <1>13 DEF slotted, both, one, two, rest

\* What they make the circuit answer: whether both did.
LEMMA RouteBitIs ==
  ASSUME kind = RouteKind, NEW i \in Nat, NEW r, OfBatch(r), HoldsRecord(i, r), HoldsGatewayKey
  PROVE  CircuitBit(i) = SignedRecord(r)
<1> DEFINE m == r.com
<1>1. m \in MessageType /\ kind \in Kinds /\ m.kind = RouteKind
  BY OfBatchFacts DEF OfBatch, Kinds
<1>2. /\ {"sigAgent", "sigGateway", "keyAgent"} \subseteq Names(kind)
      /\ Width("sigAgent") = SigSlots /\ Width("sigGateway") = SigSlots /\ Width("keyAgent") = KeySlots
      /\ Arguments(kind)[4] = "keyAgent" /\ Arguments(kind)[5] = "gatewayKey"
      /\ Arguments(kind)[6] = "sigAgent" /\ Arguments(kind)[7] = "sigGateway"
  BY <1>1 DEF Names, RouteNames, Width, Arguments, RouteKind, Unilateral
<1>3. /\ Image(r)["sigAgent"] = PackBytes(r.sigs[1], SigSlots)
      /\ Image(r)["sigGateway"] = PackBytes(r.sigs[2], SigSlots)
      /\ Image(r)["keyAgent"] = PackBytes(RegisteredKey[m.channel], KeySlots)
  BY <1>1 DEF Image, RouteImage
<1>4. UnpackBytes(Parameter(4, i, KeySlots), KeyBytes) = RegisteredKey[m.channel]
  <2>1. HoldsPacked(Parameter(4, i, KeySlots), RegisteredKey[m.channel], KeySlots)
    BY <1>1, <1>2, <1>3, ParameterIs DEF HoldsPacked
  <2> QED BY <2>1, OfBatchFacts, KeyReadsBack
<1>5. UnpackBytes(Parameter(6, i, SigSlots), SigBytes) = r.sigs[1]
  <2>1. HoldsPacked(Parameter(6, i, SigSlots), r.sigs[1], SigSlots)
    BY <1>1, <1>2, <1>3, ParameterIs DEF HoldsPacked
  <2> QED BY <2>1, OfBatchFacts, SigReadsBack
<1>6. UnpackBytes(Parameter(7, i, SigSlots), SigBytes) = r.sigs[2]
  <2>1. HoldsPacked(Parameter(7, i, SigSlots), r.sigs[2], SigSlots)
    BY <1>1, <1>2, <1>3, ParameterIs DEF HoldsPacked
  <2> QED BY <2>1, OfBatchFacts, SigReadsBack
<1>7. UnpackBytes(Parameter(5, 0, KeySlots), KeyBytes) = GatewayKey
  <2>1. Parameter(5, 0, KeySlots) = [s \in 1 .. KeySlots |-> slots[GatewayKeyAt + KeySlots * 0 + s - 1]]
    BY <1>2 DEF Parameter
  <2>2. HoldsPacked(Parameter(5, 0, KeySlots), GatewayKey, KeySlots)
    <3>1. \A s \in 1 .. KeySlots : GatewayKeyAt + KeySlots * 0 + s - 1 = GatewayKeyAt + s - 1
      BY GatewayKeyAtNat DEF KeySlots
    <3> QED BY <2>1, <3>1 DEF HoldsPacked, HoldsGatewayKey
  <2> QED BY <2>2, StagedBytes, KeyReadsBack
<1>8. Preimage(Parameter(1, i, 1) \o Parameter(2, i, 1) \o Parameter(3, i, MaxAllocations))
        = Tag \o Encode(Domain, m)
  BY RoutePreimage
<1>9. RouteBit(i) <=> /\ Verify(RegisteredKey[m.channel], Tag \o Encode(Domain, m), r.sigs[1])
                      /\ Verify(GatewayKey, Tag \o Encode(Domain, m), r.sigs[2])
  BY <1>4, <1>5, <1>6, <1>7, <1>8 DEF RouteBit
<1>10. /\ Verify(RegisteredKey[m.channel], Tag \o Encode(Domain, m), r.sigs[1])
            <=> SignedBy(r, RegisteredKey[m.channel], 1)
       /\ Verify(GatewayKey, Tag \o Encode(Domain, m), r.sigs[2]) <=> SignedBy(r, GatewayKey, 2)
  BY <1>1, VerifyIs DEF SignedBy
<1>11. SignedRecord(r) <=> SignedBy(r, RegisteredKey[m.channel], 1) /\ SignedBy(r, GatewayKey, 2)
  BY <1>1 DEF SignedRecord
<1>12. CircuitBit(i) = RouteBit(i) /\ RouteBit(i) \in BOOLEAN /\ SignedRecord(r) \in BOOLEAN
  BY DEF CircuitBit, RouteBit, Verify, SignedRecord, SignedBy
<1> QED BY <1>9, <1>10, <1>11, <1>12

\* Every index that is staged holds a record of the batch.
StagedOfBatch == \A i \in mask : OfBatch(given[i])

\* A whole record of a sealed batch settles as it was verified.
LEMMA WholeIsSettled == LayoutInv /\ StagedOfBatch => VerifiedIsSettled
<1> SUFFICES ASSUME LayoutInv, StagedOfBatch, sealed, NEW i \in 0 .. count - 1
             PROVE  /\ SettledCommitment(i) = given[i].com
                    /\ SettledBucket(i) = BucketAddress[given[i].com.channel]
                    /\ CircuitBit(i) = SignedRecord(given[i])
  BY DEF VerifiedIsSettled
<1>1. /\ kind \in Kinds /\ BatchSize(kind) \in Nat /\ i \in mask /\ i \in 0 .. BatchSize(kind) - 1
      /\ count \in Nat /\ i < count /\ i \in Nat /\ RecordsWhole
  BY Sizes DEF LayoutInv
<1>2. i \in Filled /\ RecordAt(i) = given[i] /\ OfBatch(given[i])
  BY <1>1 DEF Filled, RecordAt, StagedOfBatch
<1>3. HoldsRecord(i, given[i]) /\ (kind = RouteKind => HoldsGatewayKey)
  BY <1>1, <1>2, WholeHolds
<1> DEFINE r == given[i]
<1>4. HoldsRecord(i, r) /\ (kind = RouteKind => HoldsGatewayKey) /\ OfBatch(r)
  BY <1>2, <1>3
<1> HIDE DEF r
<1>5. /\ SettledCommitment(i) = r.com
      /\ SettledBucket(i) = BucketAddress[r.com.channel]
      /\ CircuitBit(i) = SignedRecord(r)
  <2>1. CASE kind = Unilateral
    BY <1>1, <1>4, <2>1, UniSettles
  <2>2. CASE kind = RouteKind
    BY <1>1, <1>4, <2>2, RouteSettled, RouteBitIs
  <2> QED BY <1>1, <2>1, <2>2 DEF Kinds
<1> QED BY <1>5 DEF r

\* What relayers stage is of the batch's kind.
LEMMA StagedStep ==
  ASSUME StagedOfBatch, [LNext]_layoutVars
  PROVE  StagedOfBatch'
<1>1. CASE \E k \in Kinds : ResetStaging(k)
  BY <1>1 DEF ResetStaging, StagedOfBatch
<1>2. CASE \E i \in 0 .. BatchSize(kind) - 1, r \in Records : StageRecord(i, r)
  <2>1. PICK i \in 0 .. BatchSize(kind) - 1, r \in Records : StageRecord(i, r)
    BY <1>2
  <2>2. /\ r \in RecordType /\ r.com.channel \in DOMAIN RegisteredKey /\ r.com.kind = kind
        /\ kind' = kind /\ mask' = mask \cup {i}
        /\ \A j \in mask' : given'[j] = IF j = i THEN r ELSE given[j]
    BY <2>1, StagedBytes DEF StageRecord
  <2> QED BY <2>2 DEF StagedOfBatch, OfBatch
<1>3. CASE \E n \in 0 .. BatchSize(kind) : SealAndQueue(n)
  BY <1>3 DEF SealAndQueue, StagedOfBatch, OfBatch
<1>4. CASE UNCHANGED layoutVars
  BY <1>4 DEF layoutVars, StagedOfBatch, OfBatch
<1> QED BY <1>1, <1>2, <1>3, <1>4 DEF LNext

-----------------------------------------------------------------------------
(* Messages on their way.                                                  *)

\* A message on its way is bytes, and until it is altered its encoding.
CanonicalInv ==
    form = "canonical" =>
       /\ bytes \in Seq(Byte) /\ edits \in Nat /\ sent \in Messages
       /\ edits = 0 => bytes = Encode(Domain, sent)

\* It is when it is sent.
LEMMA CanonicalInit == TInit => CanonicalInv
<1> SUFFICES ASSUME TInit, form = "canonical"
             PROVE  /\ bytes \in Seq(Byte) /\ edits \in Nat /\ sent \in Messages
                    /\ edits = 0 => bytes = Encode(Domain, sent)
  BY DEF CanonicalInv
<1>1. edits = 0 /\ sent \in Messages /\ bytes = Encode(Domain, sent)
  BY DEF TInit, SendMessage, SendRecords
<1>2. sent \in MessageType /\ Domain \in Seq(Byte) /\ Len(Domain) = DomainBytes
  BY <1>1, SentMessages, SharedBytes, DomainBytesNat
<1>3. bytes \in Seq(Byte)
  BY <1>1, <1>2, EncodeIs DEF IsEncoding
<1> QED BY <1>1, <1>3

\* An alteration leaves bytes.
LEMMA EditedBytes ==
  ASSUME bytes \in Seq(Byte), TNext
  PROVE  bytes' \in Seq(Byte)
<1>1. CASE Alter
  BY <1>1 DEF Alter, Edit, Byte
<1>2. CASE Cut
  <2>1. bytes # <<>> /\ bytes' = SubSeq(bytes, 1, Len(bytes) - 1)
    BY <1>2 DEF Cut, Edit, Front
  <2> QED BY <2>1
<1>3. CASE Lengthen
  BY <1>3 DEF Lengthen, Edit, Byte
<1> QED BY <1>1, <1>2, <1>3 DEF TNext

\* It stays so.
LEMMA CanonicalStep == CanonicalInv /\ [TNext]_transitVars => CanonicalInv'
<1> SUFFICES ASSUME CanonicalInv, [TNext]_transitVars, form' = "canonical"
             PROVE  /\ bytes' \in Seq(Byte) /\ edits' \in Nat /\ sent' \in Messages
                    /\ edits' = 0 => bytes' = Encode(Domain, sent')
  BY DEF CanonicalInv
<1>1. CASE TNext
  <2>1. form' = form /\ sent' = sent /\ edits' = edits + 1
    BY <1>1 DEF TNext, Alter, Cut, Lengthen, Edit
  <2> QED BY <1>1, <2>1, EditedBytes DEF CanonicalInv
<1>2. CASE UNCHANGED transitVars
  BY <1>2 DEF transitVars, CanonicalInv
<1> QED BY <1>1, <1>2

\* Then both decoders read in it the one message it encodes, or none.
LEMMA CanonicalDecodes == CanonicalInv => OneEncodingPerMessage /\ ClientAgrees
<1> SUFFICES ASSUME CanonicalInv, form = "canonical"
             PROVE  /\ \A m \in Decode(bytes) :
                          m.kind \in {Unilateral, RouteKind}
                            /\ Encode(SubSeq(bytes, 1, DomainBytes), m) = bytes
                    /\ edits = 0 => Decode(bytes) = {sent}
                    /\ Decode(bytes) = ClientDecode(bytes)
  BY DEF OneEncodingPerMessage, ClientAgrees
<1>1. bytes \in Seq(Byte) /\ sent \in Messages /\ (edits = 0 => bytes = Encode(Domain, sent))
  BY DEF CanonicalInv
<1>2. ASSUME NEW m \in Decode(bytes)
      PROVE  m.kind \in {Unilateral, RouteKind} /\ Encode(SubSeq(bytes, 1, DomainBytes), m) = bytes
  <2> DEFINE domain == SubSeq(bytes, 1, DomainBytes)
  <2>1. m \in MessageType /\ IsEncoding(bytes, domain, m)
    BY <1>1, DecodedIs
  <2>2. domain \in Seq(Byte) /\ Len(domain) = DomainBytes
    <3>1. DomainBytes <= Len(bytes) /\ DomainBytes \in Nat
      <4>1. Len(bytes) = BodyAt + WordBytes * (2 * Pairs(m.kind))
        BY <2>1 DEF IsEncoding
      <4>2. WordBytes * (2 * Pairs(m.kind)) \in Nat
        BY <2>1, MessageKinds, PairsNat, SizeFacts
      <4> QED BY <4>1, <4>2, DomainBytesNat
    <3> QED BY <1>1, <3>1
  <2> HIDE DEF domain
  <2>3. IsEncoding(Encode(domain, m), domain, m)
    BY <2>1, <2>2, EncodeIs
  <2>4. Encode(domain, m) = bytes
    BY <2>1, <2>3, EncodingIsUnique
  <2> QED BY <2>1, <2>4, MessageKinds DEF domain, Kinds
<1>3. ASSUME edits = 0 PROVE Decode(bytes) = {sent}
  <2>1. sent \in MessageType /\ (sent.kind = RouteKind => Validate(sent))
          /\ Domain \in Seq(Byte) /\ Len(Domain) = DomainBytes
    BY <1>1, SentMessages, SharedBytes, DomainBytesNat
  <2>2. IsEncoding(bytes, Domain, sent)
    BY <1>1, <1>3, <2>1, EncodeIs
  <2> QED BY <2>1, <2>2, EncodedDecodes
<1> QED BY <1>1, <1>2, <1>3, DecodersAgree

\* A record of the batch's kind and of a registered channel may be staged.
LEMMA StageOfBatch ==
  ASSUME StagedOfBatch, NEW i, NEW r \in RecordType, r.com.channel \in DOMAIN RegisteredKey,
         StageRecord(i, r)
  PROVE  StagedOfBatch'
<1>1. /\ r.com.kind = kind /\ kind' = kind /\ mask' = mask \cup {i}
      /\ \A j \in mask' : given'[j] = IF j = i THEN r ELSE given[j]
  BY DEF StageRecord
<1> QED BY <1>1 DEF StagedOfBatch, OfBatch

-----------------------------------------------------------------------------
(* Deliveries.                                                             *)

\* The records an instruction of each kind may carry.
RecordsOf(f) == IF f = "route" THEN RouteRecs ELSE UniRecords

\* A delivery on its way is bytes, and until it is altered those of its records.
DeliveredInv ==
    form # "canonical" =>
       /\ form \in {"unilateral", "route"}
       /\ bytes \in Seq(Byte) /\ edits \in Nat
       /\ sent \in Seq(RecordsOf(form)) /\ sent # <<>>
       /\ edits = 0 => bytes = FlattenSeq(RowsOf(sent))

\* It is when it is sent.
LEMMA DeliveredInit == TInit => DeliveredInv
<1> SUFFICES ASSUME TInit, form # "canonical"
             PROVE  /\ form \in {"unilateral", "route"}
                    /\ bytes \in Seq(Byte) /\ edits \in Nat
                    /\ sent \in Seq(RecordsOf(form)) /\ sent # <<>>
                    /\ edits = 0 => bytes = FlattenSeq(RowsOf(sent))
  BY DEF DeliveredInv
<1>1. /\ form \in {"unilateral", "route"} /\ sent \in Deliveries /\ edits = 0
      /\ (form = "unilateral") = (sent[1].com.kind = Unilateral)
      /\ bytes = FlattenSeq(RowsOf(sent))
  BY DEF TInit, SendMessage, SendRecords, RowsOf
<1>2. /\ sent \in Seq(RecordType) /\ sent # <<>>
      /\ \A n \in DOMAIN sent :
           /\ sent[n].com.kind = sent[1].com.kind
           /\ sent[n].com.kind = RouteKind => sent[n].com.allocations # <<>>
  BY <1>1, SentDeliveries
<1>3. \A n \in DOMAIN sent : sent[n] \in RecordsOf(form)
  <2> SUFFICES ASSUME NEW n \in DOMAIN sent PROVE sent[n] \in RecordsOf(form)
    OBVIOUS
  <2> DEFINE r == sent[n]
  <2>1. r \in RecordType /\ r.com.kind = sent[1].com.kind
          /\ (r.com.kind = RouteKind => r.com.allocations # <<>>)
    BY <1>2
  <2> HIDE DEF r
  <2>2. r.com \in MessageType
    BY <2>1 DEF RecordType
  <2>3. r.com.kind \in {Unilateral, RouteKind} /\ Unilateral # RouteKind
    BY <2>2, MessageKinds DEF Kinds, Unilateral, RouteKind
  <2>4. CASE form = "unilateral"
    <3>1. r.com.kind = Unilateral
      BY <1>1, <2>1, <2>4
    <3> QED BY <2>1, <2>4, <3>1 DEF r, RecordsOf, UniRecords
  <2>5. CASE form = "route"
    <3>1. r.com.kind = RouteKind
      BY <1>1, <2>1, <2>3, <2>5
    <3> QED BY <2>1, <2>5, <3>1 DEF r, RecordsOf, RouteRecs
  <2> QED BY <1>1, <2>4, <2>5
<1>4. sent \in Seq(RecordsOf(form))
  BY <1>2, <1>3
<1>5. \A n \in DOMAIN sent : RecordBytes(sent[n]) \in Seq(Byte)
  BY <1>1, <1>3, RouteLenIs, UniRecordIs DEF RecordsOf
<1>6. bytes \in Seq(Byte)
  <2> DEFINE rows == RowsOf(sent)
             n == Len(sent)
  <2>1. n \in Nat \ {0} /\ Len(rows) = n /\ \A i \in 1 .. n : rows[i] \in Seq(Byte)
    BY <1>2, <1>5, RowsAre
  <2> HIDE DEF rows, n
  <2>2. FlattenSeq(rows) \in Seq(Byte)
    BY <2>1, FlattenLaid
  <2> QED BY <1>1, <2>2 DEF rows
<1> QED BY <1>1, <1>2, <1>4, <1>6

\* It stays so.
LEMMA DeliveredStep == DeliveredInv /\ [TNext]_transitVars => DeliveredInv'
<1> SUFFICES ASSUME DeliveredInv, [TNext]_transitVars, form' # "canonical"
             PROVE  /\ form' \in {"unilateral", "route"}
                    /\ bytes' \in Seq(Byte) /\ edits' \in Nat
                    /\ sent' \in Seq(RecordsOf(form')) /\ sent' # <<>>
                    /\ edits' = 0 => bytes' = FlattenSeq(RowsOf(sent'))
  BY DEF DeliveredInv, RecordsOf, RowsOf
<1>1. CASE TNext
  <2>1. form' = form /\ sent' = sent /\ edits' = edits + 1
    BY <1>1 DEF TNext, Alter, Cut, Lengthen, Edit
  <2> QED BY <1>1, <2>1, EditedBytes DEF DeliveredInv
<1>2. CASE UNCHANGED transitVars
  BY <1>2 DEF transitVars, DeliveredInv
<1> QED BY <1>1, <1>2

\* What the program reads of a delivery.
ReadOf(f, data) == IF f = "route" THEN RouteRecords(data) ELSE UnilateralRecords(data)

\* What it reads flattens to the data, and records that flatten to the data are read.
LEMMA DeliveryReads ==
  ASSUME NEW f \in {"unilateral", "route"}, NEW data \in Seq(Byte)
  PROVE  /\ \A rs \in ReadOf(f, data) : rs \in Seq(RecordsOf(f)) /\ FlattenSeq(RowsOf(rs)) = data
         /\ \A rs \in Seq(RecordsOf(f)) :
              rs # <<>> /\ data = FlattenSeq(RowsOf(rs)) => ReadOf(f, data) = {rs}
<1>1. CASE f = "route"
  BY <1>1, RoutesReadBack DEF ReadOf, RecordsOf
<1>2. CASE f = "unilateral"
  BY <1>2, UnisReadBack DEF ReadOf, RecordsOf
<1> QED BY <1>1, <1>2

\* Then a delivery reads back as the records it was made of.
LEMMA DeliveriesReadBack == DeliveredInv => RecordsReadBack
<1> SUFFICES ASSUME DeliveredInv, form # "canonical"
             PROVE  /\ \A records \in ReadOf(form, bytes) : FlattenSeq(RowsOf(records)) = bytes
                    /\ edits = 0 => ReadOf(form, bytes) = {sent}
  BY DEF RecordsReadBack, ReadOf, RowsOf
<1> QED BY DeliveryReads DEF DeliveredInv

-----------------------------------------------------------------------------
(* From the bytes that arrive to the buffer.                               *)

\* What holds of the bytes and of the buffer together.
WireInv == CanonicalInv /\ DeliveredInv /\ LayoutInv /\ StagedOfBatch

\* It holds when a buffer is opened and something is sent.
LEMMA WireInit == WInit => WireInv
<1> SUFFICES ASSUME WInit PROVE WireInv
  OBVIOUS
<1>1. TInit /\ LInit
  BY DEF WInit
<1>2. StagedOfBatch
  BY <1>1 DEF LInit, StagedOfBatch
<1> QED BY <1>1, <1>2, CanonicalInit, DeliveredInit, InitLayout DEF WireInv

\* Staging a record read in the data that arrives keeps the buffer's records whole and of
\* the batch.
LEMMA ArrivingStep ==
  ASSUME WireInv, form # "canonical", StageArriving
  PROVE  LayoutInv' /\ StagedOfBatch'
<1>1. PICK records \in Arriving :
        \E n \in DOMAIN records, i \in 0 .. BatchSize(kind) - 1 :
           Stageable(records[n]) /\ StageRecord(i, records[n])
  BY DEF StageArriving
<1>2. PICK n \in DOMAIN records, i \in 0 .. BatchSize(kind) - 1 :
        Stageable(records[n]) /\ StageRecord(i, records[n])
  BY <1>1
<1>3. /\ form \in {"unilateral", "route"} /\ bytes \in Seq(Byte)
      /\ LayoutInv /\ StagedOfBatch
  BY DEF WireInv, DeliveredInv
<1>4. Arriving = ReadOf(form, bytes)
  <2>1. kind = (IF form = "route" THEN RouteKind ELSE Unilateral) /\ RouteKind # Unilateral
    BY DEF StageArriving, KindOf, RouteKind, Unilateral
  <2> QED BY <2>1 DEF Arriving, ReadOf
<1>5. records \in Seq(RecordsOf(form))
  BY <1>1, <1>3, <1>4, DeliveryReads
<1>6. records[n] \in RecordType
  <2>1. records[n] \in RecordsOf(form)
    BY <1>5
  <2> QED BY <2>1 DEF RecordsOf, RouteRecs, UniRecords
<1>7. records[n].com.channel \in DOMAIN RegisteredKey
  BY <1>2 DEF Stageable
<1> DEFINE r == records[n]
<1>8. r \in RecordType /\ r.com.channel \in DOMAIN RegisteredKey /\ StageRecord(i, r)
  BY <1>2, <1>6, <1>7
<1> HIDE DEF r
<1> QED BY <1>3, <1>8, StageLayout, StageOfBatch

\* Every step keeps it: bytes and buffer meet only where arriving records are staged.
LEMMA WireStep == WireInv /\ [WNext]_wireVars => WireInv'
<1> SUFFICES ASSUME WireInv, [WNext]_wireVars PROVE WireInv'
  OBVIOUS
<1>1. CASE AlterArriving
  <2>1. TNext /\ UNCHANGED layoutVars
    BY <1>1 DEF AlterArriving
  <2> QED BY <2>1, CanonicalStep, DeliveredStep, LayoutStep, StagedStep DEF WireInv
<1>2. CASE form # "canonical" /\ StageArriving
  <2>1. UNCHANGED transitVars
    BY <1>2 DEF StageArriving
  <2> QED BY <1>2, <2>1, ArrivingStep, CanonicalStep, DeliveredStep DEF WireInv
<1>3. CASE StageOther \/ ResetOrSeal
  <2>1. LNext /\ UNCHANGED transitVars
    BY <1>3 DEF StageOther, ResetOrSeal, LNext
  <2> QED BY <2>1, CanonicalStep, DeliveredStep, LayoutStep, StagedStep DEF WireInv
<1>4. CASE UNCHANGED wireVars
  <2>1. UNCHANGED transitVars /\ UNCHANGED layoutVars
    BY <1>4 DEF wireVars
  <2> QED BY <2>1, CanonicalStep, DeliveredStep, LayoutStep, StagedStep DEF WireInv
<1> QED BY <1>1, <1>2, <1>3, <1>4 DEF WNext

-----------------------------------------------------------------------------
(* Theorems.                                                               *)

\* stage_records in any order, over earlier records, and the padding of seal_and_queue
\* leave every record of the buffer whole and the gateway's key in its place.
THEOREM LayoutKeepsRecordsWhole == LSpec => []RecordsWhole
<1>1. LayoutInv => RecordsWhole
  BY DEF LayoutInv
<1> QED BY <1>1, InitLayout, LayoutStep, PTL DEF LSpec

\* So they do when what is staged is read in data that was altered on its way.
THEOREM WireKeepsRecordsWhole == WSpec => []RecordsWhole
<1>1. WireInv => RecordsWhole
  BY DEF WireInv, LayoutInv
<1> QED BY <1>1, WireInit, WireStep, PTL DEF WSpec

\* commitment.rs decode() and encode(): bytes that decode are the one encoding of what
\* they decode to, however they were altered, and a message decodes to itself.
THEOREM OneMessageOneEncoding == WSpec => []OneEncodingPerMessage
<1>1. WireInv => OneEncodingPerMessage
  BY CanonicalDecodes DEF WireInv
<1> QED BY <1>1, WireInit, WireStep, PTL DEF WSpec

\* commitment.rs decode() and commitment-client.ts decodeCommitment(): the program and
\* the client accept the same bytes, as the same message.
THEOREM ClientDecodesTheSame == WSpec => []ClientAgrees
<1>1. WireInv => ClientAgrees
  BY CanonicalDecodes DEF WireInv
<1> QED BY <1>1, WireInit, WireStep, PTL DEF WSpec

\* stage_records splits its data into the records it was made of; data that was altered
\* is refused, or is the encoding of the records it is split into.
THEOREM RecordsKeptApart == WSpec => []RecordsReadBack
<1>1. WireInv => RecordsReadBack
  BY DeliveriesReadBack DEF WireInv
<1> QED BY <1>1, WireInit, WireStep, PTL DEF WSpec

\* The bit a circuit returns for an index of a sealed batch says that the registered
\* signers signed exactly what settle_channels reads at that index.
THEOREM VerifiedSettlesAsSigned == WSpec => []VerifiedIsSettled
<1>1. WireInv => VerifiedIsSettled
  BY WholeIsSettled DEF WireInv
<1> QED BY <1>1, WireInit, WireStep, PTL DEF WSpec
=============================================================================
