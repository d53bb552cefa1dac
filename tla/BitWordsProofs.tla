--------------------------- MODULE BitWordsProofs ---------------------------
(***************************************************************************)
(* Facts about words of any width that the generators' proofs cite: the    *)
(* operators return words, XOR can be cancelled, and the shift-and-XOR     *)
(* steps the xorshift generators are composed of lose no information.      *)
(***************************************************************************)
EXTENDS BitWords, FiniteSetTheorems, TLAPS

-----------------------------------------------------------------------------
(***************************************************************************)
(* Least and greatest elements, the only induction these proofs need.      *)
(***************************************************************************)
LessThan == {pair \in Nat \X Nat : pair[1] < pair[2]}

\* Every nonempty set of naturals has a least element: the lowest bit two
\* words differ in exists.
LEMMA LeastNatural ==
  ASSUME NEW T \in SUBSET Nat, T # {}
  PROVE  \E m \in T : \A n \in T : m <= n
<1>1. IsWellFoundedOn(LessThan, Nat)
  BY NatLessThanWellFounded DEF OpToRel, LessThan
<1>2. PICK m \in T : \A n \in T : <<n, m>> \notin LessThan
  BY <1>1, WFMin
<1>3. \A n \in T : m <= n
  <2> SUFFICES ASSUME NEW n \in T PROVE ~(n < m)
    OBVIOUS
  <2>1. <<n, m>> \in Nat \X Nat
    OBVIOUS
  <2> QED BY <1>2, <2>1 DEF LessThan
<1> QED BY <1>3

\* Every nonempty set of bit numbers has a greatest element: the highest bit
\* two words differ in exists.
LEMMA GreatestBit ==
  ASSUME NEW T \in SUBSET Bit, T # {}
  PROVE  \E m \in T : \A n \in T : n <= m
<1> DEFINE Mirror == {W - 1 - n : n \in T}
<1> USE WAssumption DEF Bit
<1>1. Mirror \in SUBSET Nat /\ Mirror # {}
  OBVIOUS
<1>2. PICK k \in Mirror : \A n \in Mirror : k <= n
  BY <1>1, LeastNatural
<1>3. PICK m \in T : k = W - 1 - m
  OBVIOUS
<1>4. \A n \in T : n <= m
  <2> SUFFICES ASSUME NEW n \in T PROVE n <= m
    OBVIOUS
  <2>1. W - 1 - m <= W - 1 - n
    BY <1>2, <1>3
  <2> QED BY <2>1
<1> QED BY <1>4

-----------------------------------------------------------------------------
(***************************************************************************)
(* Closure and cancellation.                                               *)
(***************************************************************************)

\* Every operator of BitWords returns a word, whatever its arguments.
LEMMA WordClosure ==
  /\ Zero \in Word
  /\ \A a, b : Xor(a, b) \in Word /\ And(a, b) \in Word /\ Or(a, b) \in Word
  /\ \A a, k : Shl(a, k) \in Word /\ Shr(a, k) \in Word /\ rotl(a, k) \in Word
  /\ \A a, b : Add(a, b) \in Word /\ Mul(a, b) \in Word
  /\ \A n : FromNat(n) \in Word
<1>1. \A a, b : Xor(a, b) \in Word /\ And(a, b) \in Word /\ Or(a, b) \in Word
  BY DEF Xor, And, Or, Word
<1>2. \A a, k : Shl(a, k) \in Word /\ Shr(a, k) \in Word
  BY DEF Shl, Shr, Word
<1>3. \A a, k : rotl(a, k) \in Word
  BY <1>1 DEF rotl
<1>4. \A a, b : Add(a, b) \in Word
  BY DEF Add, Word
<1>5. \A a, b : Mul(a, b) \in Word
  BY DEF Mul, Word
<1>6. Zero \in Word /\ \A n : FromNat(n) \in Word
  BY DEF Zero, FromNat, Word
<1> QED BY <1>1, <1>2, <1>3, <1>4, <1>5, <1>6

\* Two words that agree in every bit are the same word.
LEMMA WordExtensional ==
  ASSUME NEW a \in Word, NEW b \in Word, \A i \in Bit : a[i] = b[i]
  PROVE  a = b
BY DEF Word

\* Shifting zero, and XOR of zeros, give zero.
LEMMA ZeroStaysZero ==
  ASSUME NEW k \in Nat
  PROVE  Shl(Zero, k) = Zero /\ Shr(Zero, k) = Zero /\ Xor(Zero, Zero) = Zero
<1>1. ASSUME NEW i \in Bit PROVE (i >= k /\ Zero[i - k]) = FALSE
  <2>1. CASE i >= k
    <3>1. i - k \in Bit
      BY <2>1, WAssumption DEF Bit
    <3> QED BY <3>1 DEF Zero
  <2> QED BY <2>1
<1>2. ASSUME NEW i \in Bit PROVE (i + k < W /\ Zero[i + k]) = FALSE
  <2>1. CASE i + k < W
    <3>1. i + k \in Bit
      BY <2>1, WAssumption DEF Bit
    <3> QED BY <3>1 DEF Zero
  <2> QED BY <2>1
<1>3. Shl(Zero, k) = Zero
  BY <1>1 DEF Shl, Zero
<1>4. Shr(Zero, k) = Zero
  BY <1>2 DEF Shr, Zero
<1>5. Xor(Zero, Zero) = Zero
  BY DEF Xor, Zero
<1> QED BY <1>3, <1>4, <1>5

\* XOR with the same word on the right can be cancelled.
LEMMA XorCancelRight ==
  ASSUME NEW a \in Word, NEW b \in Word, NEW c \in Word,
         Xor(a, c) = Xor(b, c)
  PROVE  a = b
<1> SUFFICES ASSUME NEW i \in Bit PROVE a[i] = b[i]
  BY WordExtensional
<1>1. Xor(a, c)[i] = Xor(b, c)[i]
  OBVIOUS
<1>2. (a[i] # c[i]) = (b[i] # c[i])
  BY <1>1 DEF Xor
<1>3. a[i] \in BOOLEAN /\ b[i] \in BOOLEAN /\ c[i] \in BOOLEAN
  BY DEF Word
<1> QED BY <1>2, <1>3

\* XOR commutes, so it can be cancelled on the left too.
LEMMA XorCommutes ==
  ASSUME NEW a \in Word, NEW b \in Word
  PROVE  Xor(a, b) = Xor(b, a)
BY DEF Xor, Word

LEMMA XorCancelLeft ==
  ASSUME NEW a \in Word, NEW b \in Word, NEW c \in Word,
         Xor(c, a) = Xor(c, b)
  PROVE  a = b
BY XorCommutes, XorCancelRight

-----------------------------------------------------------------------------
(***************************************************************************)
(* Shift-and-XOR steps are injective.                                      *)
(***************************************************************************)

\* x ^= x << k, for k > 0, loses nothing: the lowest bit two words differ in
\* is XORed with a lower bit, in which they agree.
LEMMA XorShlInjective ==
  ASSUME NEW a \in Word, NEW b \in Word, NEW k \in Nat \ {0},
         Xor(a, Shl(a, k)) = Xor(b, Shl(b, k))
  PROVE  a = b
<1> DEFINE D == {i \in Bit : a[i] # b[i]}
<1>1. SUFFICES ASSUME D # {} PROVE FALSE
  BY WordExtensional
<1>2. PICK m \in D : \A n \in D : m <= n
  BY <1>1, LeastNatural, D \subseteq Nat DEF Bit
<1>3. (a[m] # Shl(a, k)[m]) = (b[m] # Shl(b, k)[m])
  <2>1. Xor(a, Shl(a, k))[m] = Xor(b, Shl(b, k))[m]
    OBVIOUS
  <2> QED BY <2>1 DEF Xor
<1>4. Shl(a, k)[m] = Shl(b, k)[m]
  <2>1. CASE m >= k
    <3>1. m - k \in Bit /\ m - k \notin D
      BY <1>2, <2>1, WAssumption DEF Bit
    <3>2. a[m - k] = b[m - k]
      BY <3>1
    <3> QED BY <3>2, <2>1 DEF Shl
  <2>2. CASE ~(m >= k)
    BY <2>2 DEF Shl
  <2> QED BY <2>1, <2>2
<1>5. a[m] \in BOOLEAN /\ b[m] \in BOOLEAN /\ Shl(a, k)[m] \in BOOLEAN
  BY DEF Word, Shl
<1> QED BY <1>2, <1>3, <1>4, <1>5

\* x ^= x >> k, for k > 0, loses nothing: the same argument from the top.
LEMMA XorShrInjective ==
  ASSUME NEW a \in Word, NEW b \in Word, NEW k \in Nat \ {0},
         Xor(a, Shr(a, k)) = Xor(b, Shr(b, k))
  PROVE  a = b
<1> DEFINE D == {i \in Bit : a[i] # b[i]}
<1>1. SUFFICES ASSUME D # {} PROVE FALSE
  BY WordExtensional
<1>2. PICK m \in D : \A n \in D : n <= m
  BY <1>1, GreatestBit
<1>3. (a[m] # Shr(a, k)[m]) = (b[m] # Shr(b, k)[m])
  <2>1. Xor(a, Shr(a, k))[m] = Xor(b, Shr(b, k))[m]
    OBVIOUS
  <2> QED BY <2>1 DEF Xor
<1>4. Shr(a, k)[m] = Shr(b, k)[m]
  <2>1. CASE m + k < W
    <3>1. m + k \in Bit /\ m + k \notin D
      BY <1>2, <2>1, WAssumption DEF Bit
    <3>2. a[m + k] = b[m + k]
      BY <3>1
    <3> QED BY <3>2, <2>1 DEF Shr
  <2>2. CASE ~(m + k < W)
    BY <2>2 DEF Shr
  <2> QED BY <2>1, <2>2
<1>5. a[m] \in BOOLEAN /\ b[m] \in BOOLEAN /\ Shr(a, k)[m] \in BOOLEAN
  BY DEF Word, Shr
<1> QED BY <1>2, <1>3, <1>4, <1>5

\* A rotation loses nothing: bit j of x is bit j + k, or j + k - W, of the
\* rotated word.
LEMMA RotlInjective ==
  ASSUME NEW a \in Word, NEW b \in Word, NEW k \in 0 .. W,
         rotl(a, k) = rotl(b, k)
  PROVE  a = b
<1> USE WAssumption DEF Bit
<1> SUFFICES ASSUME NEW j \in Bit PROVE a[j] = b[j]
  BY WordExtensional
<1> DEFINE i == IF j + k < W THEN j + k ELSE j + k - W
<1>1. i \in Bit
  OBVIOUS
<1>2. \A x \in Word : rotl(x, k)[i] = x[j]
  <2> TAKE x \in Word
  <2>0. x[j] \in BOOLEAN
    BY DEF Word
  <2>1. CASE j + k < W
    <3>1. i >= k /\ i - k = j /\ ~(i + (W - k) < W)
      BY <2>1
    <3>2. Shl(x, k)[i] = x[j] /\ Shr(x, W - k)[i] = FALSE
      BY <1>1, <3>1, <2>0 DEF Shl, Shr
    <3> QED BY <1>1, <3>2, <2>0 DEF rotl, Or
  <2>2. CASE ~(j + k < W)
    <3>1. ~(i >= k) /\ i + (W - k) = j
      BY <2>2
    <3> HIDE DEF i
    <3>2. ~Shl(x, k)[i]
      BY <1>1, <3>1 DEF Shl
    <3>3. Shr(x, W - k)[i] = x[j]
      BY <1>1, <3>1, <2>0 DEF Shr
    <3>4. rotl(x, k)[i] = (Shl(x, k)[i] \/ Shr(x, W - k)[i])
      BY <1>1 DEF rotl, Or
    <3> QED BY <3>2, <3>3, <3>4, <2>0
  <2> QED BY <2>1, <2>2
<1> QED BY <1>2

-----------------------------------------------------------------------------
(***************************************************************************)
(* Counters that wrap: addition modulo m.                                  *)
(***************************************************************************)

\* The quotient and the remainder of a, and that nothing else divides it.
LEMMA DivMod ==
  ASSUME NEW a \in Int, NEW m \in Nat \ {0}
  PROVE  /\ a \div m \in Int
         /\ a % m \in 0 .. (m - 1)
         /\ a = (m * (a \div m)) + (a % m)
OBVIOUS

LEMMA ModUnique ==
  ASSUME NEW m \in Nat \ {0}, NEW q \in Int, NEW r \in 0 .. (m - 1)
  PROVE  ((m * q) + r) % m = r
OBVIOUS

\* Adding a multiple of m changes nothing modulo m.
LEMMA ModShift ==
  ASSUME NEW a \in Int, NEW m \in Nat \ {0}, NEW q \in Int
  PROVE  (a + (m * q)) % m = a % m
<1> DEFINE d == a \div m
           r == a % m
<1>1. d \in Int /\ r \in 0 .. (m - 1) /\ a = (m * d) + r
  BY DivMod
<1> HIDE DEF d, r
<1>2. a + (m * q) = (m * (d + q)) + r
  BY <1>1
<1>3. ((m * (d + q)) + r) % m = r
  BY <1>1, ModUnique
<1> QED BY <1>2, <1>3 DEF r

\* A summand may be reduced before or after the addition.
LEMMA ModAdd ==
  ASSUME NEW a \in Int, NEW b \in Int, NEW m \in Nat \ {0}
  PROVE  ((a % m) + b) % m = (a + b) % m
<1> DEFINE d == a \div m
           r == a % m
<1>1. d \in Int /\ r \in 0 .. (m - 1) /\ a = (m * d) + r
  BY DivMod
<1> HIDE DEF d, r
<1> DEFINE c == r + b
<1>2. c \in Int /\ a + b = c + (m * d)
  BY <1>1
<1> HIDE DEF c
<1>3. (c + (m * d)) % m = c % m
  BY <1>1, <1>2, ModShift
<1> QED BY <1>2, <1>3 DEF c, r

\* Reducing modulo a multiple of m first changes nothing modulo m.
LEMMA ModOfMultiple ==
  ASSUME NEW a \in Int, NEW m \in Nat \ {0}, NEW k \in Nat \ {0}
  PROVE  (a % (k * m)) % m = a % m
<1> DEFINE n == k * m
           d == a \div n
           r == a % n
<1>1. n \in Nat \ {0}
  <2>1. k * m > 0
    OBVIOUS
  <2> QED BY <2>1
<1>2. d \in Int /\ r \in 0 .. (n - 1) /\ a = (n * d) + r
  BY <1>1, DivMod
<1> HIDE DEF d, r
<1>3. k * d \in Int /\ a = r + (m * (k * d))
  BY <1>2
<1>4. r \in Int
  BY <1>1, <1>2
<1>5. (r + (m * (k * d))) % m = r % m
  BY <1>3, <1>4, ModShift
<1> QED BY <1>3, <1>5 DEF r

\* Numbers with the same remainder differ by a multiple of m.
LEMMA ModDifference ==
  ASSUME NEW a \in Int, NEW b \in Int, NEW m \in Nat \ {0}, a % m = b % m
  PROVE  (b - a) % m = 0
<1> DEFINE d == a \div m
           e == b \div m
           r == a % m
<1>1. /\ d \in Int /\ e \in Int /\ r \in 0 .. (m - 1)
      /\ a = (m * d) + r
      /\ b = (m * e) + r
  BY DivMod
<1> HIDE DEF d, e, r
<1>2. b - a = (m * (e - d)) + 0 /\ e - d \in Int /\ 0 \in 0 .. (m - 1)
  BY <1>1
<1>3. ((m * (e - d)) + 0) % m = 0
  BY <1>2, ModUnique
<1> QED BY <1>2, <1>3

\* A multiple of m is 0 modulo m, and the other way round.
LEMMA ModMultiple ==
  ASSUME NEW m \in Nat \ {0}
  PROVE  /\ \A q \in Int : (m * q) % m = 0
         /\ \A a \in Int : a % m = 0 => \E q \in Int : a = m * q
<1>1. ASSUME NEW q \in Int PROVE (m * q) % m = 0
  <2>1. ((m * q) + 0) % m = 0
    BY ModUnique
  <2> DEFINE p == m * q
  <2>2. p \in Int
    OBVIOUS
  <2> HIDE DEF p
  <2>3. p + 0 = p
    BY <2>2
  <2> QED BY <2>1, <2>3 DEF p
<1>2. ASSUME NEW a \in Int, a % m = 0 PROVE \E q \in Int : a = m * q
  <2>1. a \div m \in Int /\ a = (m * (a \div m)) + (a % m)
    BY DivMod
  <2> DEFINE q == a \div m
  <2>2. q \in Int /\ m * q \in Int /\ a = (m * q) + 0
    BY <1>2, <2>1
  <2> HIDE DEF q
  <2>3. a = m * q
    BY <2>2
  <2> QED BY <2>2, <2>3
<1> QED BY <1>1, <1>2

\* A power of two, told by its divisors.
PowerOfTwo(m) == m \in Nat \ {0} /\ \A d \in 2 .. m : m % d = 0 => d % 2 = 0

\* An odd number's multiples go through every residue of a power of two before
\* they come back to 0: the first that does is a divisor of m, and what is left
\* of m divides the odd number.
LEMMA OddMultiples ==
  ASSUME NEW m, PowerOfTwo(m), NEW o \in Nat, o % 2 = 1, NEW n \in 1 .. (m - 1)
  PROVE  (n * o) % m # 0
<1> SUFFICES ASSUME (n * o) % m = 0 PROVE FALSE
  OBVIOUS
<1>1. m \in Nat \ {0} /\ n \in Nat \ {0}
  BY DEF PowerOfTwo
<1> DEFINE S == {k \in Nat : k > 0 /\ (k * o) % m = 0}
<1>2. PICK q \in S : \A k \in S : q <= k
  <2>1. n \in S /\ S \subseteq Nat
    BY <1>1
  <2> HIDE DEF S
  <2> QED BY <2>1, LeastNatural
<1>3. q \in Nat /\ q > 0 /\ q <= n /\ q < m /\ (q * o) % m = 0
  BY <1>1, <1>2
<1>4. PICK t \in Int : q * o = m * t
  BY <1>1, <1>3, ModMultiple
<1>5. PICK e \in Int, r \in 0 .. (q - 1) : m = (q * e) + r
  <2>1. m \div q \in Int /\ m % q \in 0 .. (q - 1) /\ m = (q * (m \div q)) + (m % q)
    BY <1>1, <1>3, DivMod
  <2> QED BY <2>1
<1>6. r = 0
  <2> SUFFICES ASSUME r # 0 PROVE FALSE
    OBVIOUS
  <2>1. r * o = m * (o - e * t)
    <3>1. r * o = (m * o) - ((q * e) * o)
      BY <1>1, <1>3, <1>5
    <3>2. (q * e) * o = e * (q * o)
      BY <1>3
    <3>3. e * (q * o) = e * (m * t)
      BY <1>4
    <3>4. e * (m * t) = m * (e * t)
      BY <1>1
    <3>5. (m * o) - (m * (e * t)) = m * (o - e * t)
      BY <1>1
    <3> QED BY <3>1, <3>2, <3>3, <3>4, <3>5
  <2>2. (r * o) % m = 0
    <3>1. o - e * t \in Int
      OBVIOUS
    <3> QED BY <1>1, <2>1, <3>1, ModMultiple
  <2>3. r \in S /\ r < q
    <3>1. r \in Nat /\ r > 0
      BY <1>3
    <3> QED BY <1>3, <2>2, <3>1
  <2>4. q <= r
    <3> HIDE DEF S
    <3> QED BY <1>2, <2>3
  <2> HIDE DEF S
  <2> QED BY <1>3, <2>3, <2>4
<1>7. m = q * e /\ e >= 2
  <2>1. m = q * e
    BY <1>1, <1>3, <1>5, <1>6
  <2>2. e > 0
    BY <1>1, <1>3, <2>1
  <2>3. e # 1
    BY <1>1, <1>3, <2>1
  <2> QED BY <2>1, <2>2, <2>3
<1>8. o = e * t
  <2>1. q * o = q * (e * t)
    BY <1>3, <1>4, <1>7
  <2>2. e * t \in Int
    OBVIOUS
  <2> QED BY <1>3, <2>1, <2>2
<1>9. e % 2 = 0
  <2>1. m = e * q /\ q \in Int /\ e \in Nat \ {0}
    BY <1>3, <1>7
  <2>2. m % e = 0
    BY <2>1, ModMultiple
  <2>3. e <= m
    BY <1>3, <1>7
  <2>4. e \in 2 .. m
    BY <1>7, <2>1, <2>3
  <2>5. \A d \in 2 .. m : m % d = 0 => d % 2 = 0
    BY DEF PowerOfTwo
  <2> QED BY <2>2, <2>4, <2>5, Zenon
<1>10. o % 2 = 0
  <2>1. PICK f \in Int : e = 2 * f
    BY <1>9, ModMultiple
  <2>2. o = 2 * (f * t) /\ f * t \in Int
    BY <1>8, <2>1
  <2> QED BY <2>2, ModMultiple
<1> QED BY <1>10

-----------------------------------------------------------------------------
(***************************************************************************)
(* The functions that BitWords defines by recursion: the carries of a sum, *)
(* the partial sums of a product.                                          *)
(***************************************************************************)
\* A function defined by recursion on 0 .. n exists: what tlapm needs to know
\* of the LET functions of BitWords.
Iterates(f, n, T, x, F) ==
  f \in [0 .. n -> T] /\ f[0] = x /\ \A i \in 1 .. n : f[i] = F[<<i, f[i - 1]>>]

LEMMA RecursionExists ==
  ASSUME NEW n \in Nat, NEW T, NEW x \in T, NEW F \in [(1 .. n) \X T -> T]
  PROVE  \E f : Iterates(f, n, T, x, F)
<1> DEFINE Good(k) == \E f \in [0 .. k -> T] : f[0] = x /\ \A i \in 1 .. k : f[i] = F[<<i, f[i - 1]>>]
           S == {k \in 0 .. n : ~ Good(k)}
<1> SUFFICES ASSUME S # {} PROVE FALSE
  <2>1. n \in 0 .. n
    OBVIOUS
  <2>2. S = {} => Good(n)
    BY <2>1
  <2>3. Good(n) => \E f : Iterates(f, n, T, x, F)
    BY DEF Iterates
  <2> HIDE DEF Good, S
  <2> QED BY <2>2, <2>3
<1>1. PICK m \in S : \A k \in S : m <= k
  <2>1. S \subseteq Nat
    OBVIOUS
  <2> HIDE DEF S
  <2> QED BY <2>1, LeastNatural
<1>2. m \in 0 .. n /\ ~ Good(m)
  OBVIOUS
<1>3. m # 0
  <2>1. Good(0)
    <3> DEFINE f == [i \in 0 .. 0 |-> x]
    <3>1. f \in [0 .. 0 -> T] /\ f[0] = x /\ \A i \in 1 .. 0 : f[i] = F[<<i, f[i - 1]>>]
      OBVIOUS
    <3> QED BY <3>1
  <2> HIDE DEF Good
  <2> QED BY <1>2, <2>1
<1>4. m - 1 \in 0 .. n /\ Good(m - 1)
  <2>1. m - 1 \in 0 .. n
    BY <1>2, <1>3
  <2>2. m - 1 \notin S
    <3> HIDE DEF S
    <3> QED BY <1>1, <1>2, <2>1
  <2> HIDE DEF Good
  <2> QED BY <2>1, <2>2
<1>5. PICK g \in [0 .. (m - 1) -> T] :
        g[0] = x /\ \A i \in 1 .. (m - 1) : g[i] = F[<<i, g[i - 1]>>]
  BY <1>4
<1> DEFINE f == [i \in 0 .. m |-> IF i = m THEN F[<<m, g[m - 1]>>] ELSE g[i]]
<1>6. f \in [0 .. m -> T]
  <2>1. m \in 1 .. n /\ m - 1 \in 0 .. (m - 1)
    BY <1>2, <1>3
  <2>2. F[<<m, g[m - 1]>>] \in T
    BY <2>1, <1>5
  <2>3. \A i \in 0 .. m : i # m => g[i] \in T
    BY <1>2, <1>5
  <2> HIDE DEF Good, S
  <2> QED BY <2>2, <2>3
<1>7. f[0] = x /\ \A i \in 1 .. m : f[i] = F[<<i, f[i - 1]>>]
  <2>1. 0 \in 0 .. m /\ f[0] = g[0]
    BY <1>2, <1>3
  <2>2. \A i \in 1 .. m : f[i] = F[<<i, f[i - 1]>>]
    <3> TAKE i \in 1 .. m
    <3>1. m \in Nat /\ i \in 0 .. m /\ i - 1 \in 0 .. m /\ i - 1 # m
      BY <1>2
    <3>2. f[i - 1] = g[i - 1]
      BY <3>1
    <3>3. CASE i = m
      BY <3>1, <3>2, <3>3
    <3>4. CASE i # m
      <4>1. i \in 1 .. (m - 1)
        BY <3>1, <3>4
      <4> QED BY <1>5, <3>1, <3>2, <3>4, <4>1
    <3> QED BY <3>3, <3>4
  <2> HIDE DEF f
  <2> QED BY <1>5, <2>1, <2>2
<1>8. Good(m)
  <2> HIDE DEF f
  <2> QED BY <1>6, <1>7
<1> HIDE DEF Good
<1> QED BY <1>2, <1>8

\* The carries of a sum.
LEMMA AddCarries ==
  ASSUME NEW a \in Word, NEW b \in Word
  PROVE  \E c \in [0 .. W -> BOOLEAN] :
           /\ c[0] = FALSE
           /\ \A i \in Bit : c[i + 1] = (\/ a[i] /\ b[i]
                                         \/ c[i] /\ (a[i] \/ b[i]))
           /\ \A i \in Bit : Add(a, b)[i] = ((a[i] # b[i]) # c[i])
<1> DEFINE Rule(c, i) == IF i = 0 THEN FALSE
                         ELSE \/ a[i - 1] /\ b[i - 1]
                              \/ c[i - 1] /\ (a[i - 1] \/ b[i - 1])
           carry == CHOOSE c : c = [i \in 0 .. W |-> Rule(c, i)]
           F == [p \in (1 .. W) \X BOOLEAN |->
                   \/ a[p[1] - 1] /\ b[p[1] - 1]
                   \/ p[2] /\ (a[p[1] - 1] \/ b[p[1] - 1])]
<1>1. PICK f : Iterates(f, W, BOOLEAN, FALSE, F)
  <2>1. F \in [(1 .. W) \X BOOLEAN -> BOOLEAN] /\ FALSE \in BOOLEAN /\ W \in Nat
    BY WAssumption
  <2> HIDE DEF F
  <2> QED BY <2>1, RecursionExists, Zenon
<1>2. f = [i \in 0 .. W |-> Rule(f, i)]
  <2>1. \A i \in 1 .. W : f[i] = Rule(f, i)
    <3> TAKE i \in 1 .. W
    <3>1. i \in Nat /\ i # 0 /\ i - 1 \in 0 .. W
      BY WAssumption
    <3>2. f[i - 1] \in BOOLEAN /\ f[i] = F[<<i, f[i - 1]>>]
      BY <1>1, <3>1 DEF Iterates
    <3>3. F[<<i, f[i - 1]>>] = (\/ a[i - 1] /\ b[i - 1]
                                \/ f[i - 1] /\ (a[i - 1] \/ b[i - 1]))
      BY <3>2
    <3> QED BY <3>1, <3>2, <3>3
  <2>2. f[0] = Rule(f, 0)
    BY <1>1 DEF Iterates
  <2>3. \A i \in 0 .. W : f[i] = Rule(f, i)
    <3> HIDE DEF Rule
    <3> QED BY <2>1, <2>2, WAssumption
  <2> HIDE DEF Rule
  <2> QED BY <1>1, <2>3 DEF Iterates
<1>3. carry = [i \in 0 .. W |-> Rule(carry, i)]
  <2> HIDE DEF Rule
  <2> QED BY <1>2
<1>4. Add(a, b) = [i \in Bit |-> (a[i] # b[i]) # carry[i]]
  BY DEF Add
<1> HIDE DEF carry
<1>5. carry \in [0 .. W -> BOOLEAN]
  BY <1>3
<1>6. carry[0] = FALSE
  BY <1>3, WAssumption
<1>7. \A i \in Bit : carry[i + 1] = (\/ a[i] /\ b[i]
                                     \/ carry[i] /\ (a[i] \/ b[i]))
  <2> TAKE i \in Bit
  <2>1. i + 1 \in 0 .. W /\ i + 1 # 0 /\ (i + 1) - 1 = i
    BY WAssumption DEF Bit
  <2>2. carry[i + 1] = Rule(carry, i + 1)
    <3> HIDE DEF Rule
    <3> QED BY <1>3, <2>1
  <2>3. Rule(carry, i + 1) = (\/ a[i] /\ b[i]
                              \/ carry[i] /\ (a[i] \/ b[i]))
    BY <2>1, Zenon
  <2> QED BY <2>2, <2>3, Zenon
<1> QED BY <1>4, <1>5, <1>6, <1>7

\* Induction on 0 .. n.
LEMMA UpTo ==
  ASSUME NEW n \in Nat, NEW S, 0 \in S, \A i \in 0 .. (n - 1) : i \in S => i + 1 \in S
  PROVE  \A i \in 0 .. n : i \in S
<1> SUFFICES ASSUME NEW k \in 0 .. n, k \notin S PROVE FALSE
  OBVIOUS
<1> DEFINE Out == {i \in 0 .. n : i \notin S}
<1>1. Out \in SUBSET Nat /\ Out # {}
  OBVIOUS
<1> HIDE DEF Out
<1>2. PICK m \in Out : \A i \in Out : m <= i
  BY <1>1, LeastNatural
<1>3. m \in 0 .. n /\ m \notin S /\ m # 0
  BY <1>2 DEF Out
<1>4. m - 1 \in 0 .. (n - 1) /\ m - 1 \in 0 .. n /\ (m - 1) + 1 = m /\ ~(m <= m - 1)
  BY <1>3
<1>5. m - 1 \in S
  BY <1>2, <1>4 DEF Out
<1>6. (m - 1) + 1 \in S
  BY <1>4, <1>5, Zenon
<1> QED BY <1>3, <1>4, <1>6

\* Sums whose operands agree below bit j agree there, and in bit j if the
\* operands' bits j make up for each other.
LEMMA AddAgrees ==
  ASSUME NEW a \in Word, NEW b \in Word, NEW d \in Word, NEW e \in Word, NEW j \in Bit,
         \A k \in Bit : k < j => a[k] = d[k] /\ b[k] = e[k]
  PROVE  /\ \A k \in Bit : k < j => Add(a, b)[k] = Add(d, e)[k]
         /\ (Add(a, b)[j] = Add(d, e)[j]) <=> ((a[j] # b[j]) <=> (d[j] # e[j]))
<1>1. PICK c \in [0 .. W -> BOOLEAN] :
        /\ c[0] = FALSE
        /\ \A i \in Bit : c[i + 1] = (\/ a[i] /\ b[i]
                                      \/ c[i] /\ (a[i] \/ b[i]))
        /\ \A i \in Bit : Add(a, b)[i] = ((a[i] # b[i]) # c[i])
  BY AddCarries
<1>2. PICK f \in [0 .. W -> BOOLEAN] :
        /\ f[0] = FALSE
        /\ \A i \in Bit : f[i + 1] = (\/ d[i] /\ e[i]
                                      \/ f[i] /\ (d[i] \/ e[i]))
        /\ \A i \in Bit : Add(d, e)[i] = ((d[i] # e[i]) # f[i])
  BY AddCarries
<1> DEFINE S == {i \in 0 .. j : c[i] = f[i]}
<1>3. j \in Nat /\ 0 .. j \subseteq 0 .. W /\ \A i \in 0 .. (j - 1) : i \in Bit /\ i < j /\ i + 1 \in 0 .. j
  BY WAssumption DEF Bit
<1>4. 0 \in S
  BY <1>1, <1>2, <1>3
<1>5. ASSUME NEW i \in 0 .. (j - 1), i \in S PROVE i + 1 \in S
  <2>1. a[i] = d[i] /\ b[i] = e[i] /\ c[i] = f[i]
    BY <1>3, <1>5
  <2>2. c[i + 1] = (\/ a[i] /\ b[i]
                    \/ c[i] /\ (a[i] \/ b[i]))
    BY <1>1, <1>3
  <2>3. f[i + 1] = (\/ d[i] /\ e[i]
                    \/ f[i] /\ (d[i] \/ e[i]))
    BY <1>2, <1>3
  <2>4. c[i + 1] = f[i + 1]
    BY <2>1, <2>2, <2>3, Zenon
  <2> QED BY <1>3, <2>4
<1>6. \A i \in 0 .. j : i \in S
  <2> HIDE DEF S
  <2> QED BY <1>3, <1>4, <1>5, UpTo
<1>7. \A i \in 0 .. j : c[i] = f[i]
  BY <1>6
<1>8. \A k \in Bit : k <= j => k \in 0 .. j
  BY DEF Bit
<1>9. \A k \in Bit : k < j => Add(a, b)[k] = Add(d, e)[k]
  <2> TAKE k \in Bit
  <2> HAVE k < j
  <2>1. a[k] = d[k] /\ b[k] = e[k] /\ c[k] = f[k]
    BY <1>3, <1>7, <1>8 DEF Bit
  <2> QED BY <1>1, <1>2, <2>1, ZenonT(60)
<1>10. c[j] = f[j] /\ c[j] \in BOOLEAN /\ a[j] \in BOOLEAN /\ b[j] \in BOOLEAN /\ d[j] \in BOOLEAN /\ e[j] \in BOOLEAN
  BY <1>3, <1>7 DEF Word
<1>11. Add(a, b)[j] = ((a[j] # b[j]) # c[j]) /\ Add(d, e)[j] = ((d[j] # e[j]) # f[j])
  BY <1>1, <1>2
<1>12. (Add(a, b)[j] = Add(d, e)[j]) <=> ((a[j] # b[j]) <=> (d[j] # e[j]))
  BY <1>10, <1>11, SMT
<1> QED BY <1>9, <1>12

\* The partial sums of a product.
LEMMA MulSums ==
  ASSUME NEW a \in Word, NEW b \in Word
  PROVE  \E s \in [0 .. W -> Word] :
           /\ s[0] = Zero
           /\ \A i \in Bit : s[i + 1] = IF b[i] THEN Add(s[i], Shl(a, i)) ELSE s[i]
           /\ Mul(a, b) = s[W]
<1> DEFINE Rule(s, i) == IF i = 0 THEN Zero
                         ELSE IF b[i - 1] THEN Add(s[i - 1], Shl(a, i - 1))
                                          ELSE s[i - 1]
           sum == CHOOSE s : s = [i \in 0 .. W |-> Rule(s, i)]
           F == [p \in (1 .. W) \X Word |->
                   IF b[p[1] - 1] THEN Add(p[2], Shl(a, p[1] - 1)) ELSE p[2]]
<1>1. PICK f : Iterates(f, W, Word, Zero, F)
  <2>1. F \in [(1 .. W) \X Word -> Word] /\ Zero \in Word /\ W \in Nat
    BY WAssumption, WordClosure
  <2> HIDE DEF F
  <2> QED BY <2>1, RecursionExists, Zenon
<1>2. f = [i \in 0 .. W |-> Rule(f, i)]
  <2>1. \A i \in 1 .. W : f[i] = Rule(f, i)
    <3> TAKE i \in 1 .. W
    <3>1. i \in Nat /\ i # 0 /\ i - 1 \in 0 .. W
      BY WAssumption
    <3>2. f[i - 1] \in Word /\ f[i] = F[<<i, f[i - 1]>>]
      BY <1>1, <3>1 DEF Iterates
    <3>3. F[<<i, f[i - 1]>>] = IF b[i - 1] THEN Add(f[i - 1], Shl(a, i - 1)) ELSE f[i - 1]
      BY <3>2
    <3> QED BY <3>1, <3>2, <3>3
  <2>2. f[0] = Rule(f, 0)
    BY <1>1 DEF Iterates
  <2>3. \A i \in 0 .. W : f[i] = Rule(f, i)
    <3> HIDE DEF Rule
    <3> QED BY <2>1, <2>2, WAssumption
  <2> HIDE DEF Rule
  <2> QED BY <1>1, <2>3 DEF Iterates
<1>3. sum = [i \in 0 .. W |-> Rule(sum, i)]
  <2> HIDE DEF Rule
  <2> QED BY <1>2
<1>4. Mul(a, b) = [i \in Bit |-> sum[W][i] = TRUE]
  BY DEF Mul
<1> HIDE DEF sum
<1>5. sum[0] = Zero
  BY <1>3, WAssumption
<1>6. \A i \in Bit : sum[i + 1] = IF b[i] THEN Add(sum[i], Shl(a, i)) ELSE sum[i]
  <2> TAKE i \in Bit
  <2>1. i + 1 \in 0 .. W /\ i + 1 # 0 /\ (i + 1) - 1 = i
    BY WAssumption DEF Bit
  <2>2. sum[i + 1] = Rule(sum, i + 1)
    <3> HIDE DEF Rule
    <3> QED BY <1>3, <2>1
  <2>3. Rule(sum, i + 1) = IF b[i] THEN Add(sum[i], Shl(a, i)) ELSE sum[i]
    BY <2>1, Zenon
  <2> QED BY <2>2, <2>3, Zenon
<1>7. \A i \in 0 .. W : sum[i] \in Word
  <2> DEFINE S == {i \in 0 .. W : sum[i] \in Word}
  <2>1. 0 \in S
    BY <1>5, WordClosure, WAssumption
  <2>2. ASSUME NEW i \in 0 .. (W - 1), i \in S PROVE i + 1 \in S
    <3>1. i \in Bit /\ i + 1 \in 0 .. W
      BY WAssumption DEF Bit
    <3>2. sum[i + 1] \in Word
      BY <1>6, <2>2, <3>1, WordClosure
    <3> QED BY <3>1, <3>2
  <2>3. \A i \in 0 .. W : i \in S
    <3> HIDE DEF S
    <3> QED BY <2>1, <2>2, WAssumption, UpTo
  <2> QED BY <2>3
<1>8. sum \in [0 .. W -> Word]
  <2> DEFINE g == [i \in 0 .. W |-> Rule(sum, i)]
  <2>1. sum = g /\ \A i \in 0 .. W : g[i] \in Word
    BY <1>3, <1>7
  <2> HIDE DEF Rule
  <2> QED BY <2>1
<1>9. Mul(a, b) = sum[W]
  <2>1. sum[W] \in Word
    BY <1>7, WAssumption
  <2>2. \A w \in Word : [i \in Bit |-> w[i] = TRUE] = w
    BY DEF Word
  <2> QED BY <1>4, <2>1, <2>2
<1> QED BY <1>5, <1>6, <1>8, <1>9

\* A product with zero on the right is zero.
LEMMA MulZero ==
  ASSUME NEW a \in Word
  PROVE  Mul(a, Zero) = Zero
<1>1. Zero \in Word
  BY WordClosure
<1>2. PICK s \in [0 .. W -> Word] :
        /\ s[0] = Zero
        /\ \A i \in Bit : s[i + 1] = IF Zero[i] THEN Add(s[i], Shl(a, i)) ELSE s[i]
        /\ Mul(a, Zero) = s[W]
  BY <1>1, MulSums
<1> DEFINE S == {i \in 0 .. W : s[i] = Zero}
<1>3. 0 \in S
  BY <1>2, WAssumption
<1>4. ASSUME NEW i \in 0 .. (W - 1), i \in S PROVE i + 1 \in S
  <2>1. i \in Bit /\ i + 1 \in 0 .. W
    BY WAssumption DEF Bit
  <2>2. Zero[i] = FALSE
    BY <2>1 DEF Zero
  <2> QED BY <1>2, <1>4, <2>1, <2>2
<1>5. \A i \in 0 .. W : i \in S
  <2> HIDE DEF S
  <2> QED BY <1>3, <1>4, WAssumption, UpTo
<1> QED BY <1>2, <1>5, WAssumption

\* The lowest bit two words differ in.
LEMMA LowestDifference ==
  ASSUME NEW a \in Word, NEW b \in Word, a # b
  PROVE  \E j \in Bit : a[j] # b[j] /\ \A k \in Bit : k < j => a[k] = b[k]
<1> DEFINE D == {i \in Bit : a[i] # b[i]}
<1>1. D \in SUBSET Nat /\ D # {}
  BY WordExtensional DEF Bit
<1>2. PICK j \in D : \A n \in D : j <= n
  <2> HIDE DEF D
  <2> QED BY <1>1, LeastNatural
<1>3. \A k \in Bit : k < j => a[k] = b[k]
  BY <1>2 DEF Bit
<1> QED BY <1>2, <1>3

\* Multiplying by an odd word loses nothing: the lowest bit two words differ in
\* is the lowest bit their products differ in.
LEMMA MulOddInjective ==
  ASSUME NEW m \in Word, m[0] = TRUE, NEW y \in Word, NEW z \in Word, Mul(y, m) = Mul(z, m)
  PROVE  y = z
<1> SUFFICES ASSUME y # z PROVE FALSE
  OBVIOUS
<1>1. PICK j \in Bit : y[j] # z[j] /\ \A k \in Bit : k < j => y[k] = z[k]
  BY LowestDifference
<1>2. PICK s \in [0 .. W -> Word] :
        /\ s[0] = Zero
        /\ \A i \in Bit : s[i + 1] = IF m[i] THEN Add(s[i], Shl(y, i)) ELSE s[i]
        /\ Mul(y, m) = s[W]
  BY MulSums
<1>3. PICK t \in [0 .. W -> Word] :
        /\ t[0] = Zero
        /\ \A i \in Bit : t[i + 1] = IF m[i] THEN Add(t[i], Shl(z, i)) ELSE t[i]
        /\ Mul(z, m) = t[W]
  BY MulSums
<1> DEFINE Below(i) == \A k \in Bit : k < j => s[i][k] = t[i][k]
           S == {i \in 0 .. W : Below(i) /\ (i > 0 => s[i][j] # t[i][j])}
<1>4. \A i \in 0 .. W : s[i] \in Word /\ t[i] \in Word /\ Shl(y, i) \in Word /\ Shl(z, i) \in Word
  BY WordClosure
<1>5. ASSUME NEW i \in Bit
      PROVE  /\ \A k \in Bit : k < j => Shl(y, i)[k] = Shl(z, i)[k]
             /\ i > 0 => Shl(y, i)[j] = Shl(z, i)[j]
             /\ i = 0 => Shl(y, i)[j] = y[j] /\ Shl(z, i)[j] = z[j]
  <2>1. \A k \in Bit : k >= i /\ k - i < j => y[k - i] = z[k - i]
    <3> TAKE k \in Bit
    <3> HAVE k >= i /\ k - i < j
    <3>1. k - i \in Bit
      BY WAssumption DEF Bit
    <3> QED BY <1>1, <3>1
  <2>2. \A k \in Bit : Shl(y, i)[k] = (k >= i /\ y[k - i]) /\ Shl(z, i)[k] = (k >= i /\ z[k - i])
    BY DEF Shl
  <2>3. \A k \in Bit : k < j => Shl(y, i)[k] = Shl(z, i)[k]
    BY <2>1, <2>2 DEF Bit
  <2>4. i > 0 => Shl(y, i)[j] = Shl(z, i)[j]
    BY <2>1, <2>2 DEF Bit
  <2>5. ASSUME i = 0 PROVE Shl(y, i)[j] = y[j] /\ Shl(z, i)[j] = z[j]
    <3>1. j >= i /\ j - i = j
      BY <2>5 DEF Bit
    <3>2. y[j] \in BOOLEAN /\ z[j] \in BOOLEAN
      BY DEF Word
    <3> QED BY <2>2, <3>1, <3>2
  <2> QED BY <2>3, <2>4, <2>5
<1>6. 0 \in S
  BY <1>2, <1>3, WAssumption
<1>7. ASSUME NEW i \in 0 .. (W - 1), i \in S PROVE i + 1 \in S
  <2>1. i \in Bit /\ i \in 0 .. W /\ i + 1 \in 0 .. W /\ i + 1 > 0
    BY WAssumption DEF Bit
  <2>2. CASE ~ m[i]
    <3>1. s[i + 1] = s[i] /\ t[i + 1] = t[i]
      BY <1>2, <1>3, <2>1, <2>2
    <3>2. i > 0
      <4>1. i # 0
        BY <2>2
      <4> QED BY <4>1
    <3> QED BY <1>7, <2>1, <3>1, <3>2
  <2>3. CASE m[i]
    <3>1. s[i + 1] = Add(s[i], Shl(y, i)) /\ t[i + 1] = Add(t[i], Shl(z, i))
      BY <1>2, <1>3, <2>1, <2>3
    <3>2. Below(i)
      BY <1>7
    <3>3. \A k \in Bit : k < j => s[i][k] = t[i][k] /\ Shl(y, i)[k] = Shl(z, i)[k]
      BY <1>5, <2>1, <3>2
    <3>4. /\ \A k \in Bit : k < j => Add(s[i], Shl(y, i))[k] = Add(t[i], Shl(z, i))[k]
          /\ (Add(s[i], Shl(y, i))[j] = Add(t[i], Shl(z, i))[j])
               <=> ((s[i][j] # Shl(y, i)[j]) <=> (t[i][j] # Shl(z, i)[j]))
      <4>1. s[i] \in Word /\ t[i] \in Word /\ Shl(y, i) \in Word /\ Shl(z, i) \in Word
        BY <1>4, <2>1
      <4> DEFINE a == s[i]
                 b == Shl(y, i)
                 d == t[i]
                 e == Shl(z, i)
      <4>2. a \in Word /\ b \in Word /\ d \in Word /\ e \in Word
        BY <4>1
      <4>3. \A k \in Bit : k < j => a[k] = d[k] /\ b[k] = e[k]
        BY <3>3
      <4> HIDE DEF a, b, d, e
      <4>4. /\ \A k \in Bit : k < j => Add(a, b)[k] = Add(d, e)[k]
            /\ (Add(a, b)[j] = Add(d, e)[j]) <=> ((a[j] # b[j]) <=> (d[j] # e[j]))
        BY <4>2, <4>3, AddAgrees
      <4> QED BY <4>4 DEF a, b, d, e
    <3>5. s[i][j] \in BOOLEAN /\ t[i][j] \in BOOLEAN /\ Shl(y, i)[j] \in BOOLEAN /\ Shl(z, i)[j] \in BOOLEAN
      BY <1>4, <2>1 DEF Word
    <3>6. Add(s[i], Shl(y, i))[j] # Add(t[i], Shl(z, i))[j]
      <4>1. CASE i = 0
        <5>1. s[i][j] = t[i][j]
          BY <1>2, <1>3, <4>1
        <5>2. Shl(y, i)[j] # Shl(z, i)[j]
          BY <1>1, <1>5, <2>1, <4>1
        <5> QED BY <3>4, <3>5, <5>1, <5>2
      <4>2. CASE i > 0
        <5>1. s[i][j] # t[i][j]
          BY <1>7, <4>2
        <5>2. Shl(y, i)[j] = Shl(z, i)[j]
          BY <1>5, <2>1, <4>2
        <5> QED BY <3>4, <3>5, <5>1, <5>2
      <4> QED BY <4>1, <4>2
    <3> QED BY <2>1, <3>1, <3>4, <3>6
  <2> QED BY <2>2, <2>3
<1>8. \A i \in 0 .. W : i \in S
  <2> HIDE DEF S
  <2> QED BY <1>6, <1>7, WAssumption, UpTo
<1>9. W \in 0 .. W /\ W > 0
  BY WAssumption
<1>10. s[W][j] # t[W][j]
  BY <1>8, <1>9
<1> QED BY <1>2, <1>3, <1>10, ZenonT(60)

-----------------------------------------------------------------------------
(***************************************************************************)
(* Words as numbers: every operator computes what C's does on unsigned     *)
(* integers of W bits.                                                     *)
(***************************************************************************)
\* The sets of numbers up to n + 1 are those up to n, without n + 1 and with it.
LEMMA TwoPowers ==
  ASSUME NEW n \in Nat
  PROVE  2^n \in Nat /\ 2^n > 0 /\ 2^0 = 1 /\ 2^(n + 1) = 2 * 2^n
<1> DEFINE A == SUBSET (1 .. n)
           B == {X \cup {n + 1} : X \in A}
<1>1. \A k \in Nat : IsFiniteSet(1 .. k) /\ Cardinality(1 .. k) = k
  <2> TAKE k \in Nat
  <2>1. IsFiniteSet(1 .. k) /\ Cardinality(1 .. k) = IF 1 > k THEN 0 ELSE k - 1 + 1
    BY FS_Interval
  <2> QED BY <2>1
<1>2. \A k \in Nat : /\ IsFiniteSet(SUBSET (1 .. k))
                     /\ Cardinality(SUBSET (1 .. k)) = 2^k
  BY <1>1, FS_SUBSET
<1>3. IsFiniteSet(A) /\ Cardinality(A) = 2^n /\ 2^n \in Nat
  BY <1>2, FS_CardinalityType
<1>4. 2^n > 0
  <2>1. A # {}
    OBVIOUS
  <2> QED BY <1>3, <2>1, FS_EmptySet
<1>5. ExistsBijection(A, B)
  <2> DEFINE f == [X \in A |-> X \cup {n + 1}]
  <2>1. f \in Surjection(A, B)
    BY DEF Surjection
  <2>2. \A X, Y \in A : f[X] = f[Y] => X = Y
    <3> TAKE X, Y \in A
    <3>1. n + 1 \notin 1 .. n
      OBVIOUS
    <3>2. n + 1 \notin X /\ n + 1 \notin Y /\ f[X] = X \cup {n + 1} /\ f[Y] = Y \cup {n + 1}
      BY <3>1
    <3>3. \A e, Z : e \notin Z => (Z \cup {e}) \ {e} = Z
      OBVIOUS
    <3>4. (X \cup {n + 1}) \ {n + 1} = X /\ (Y \cup {n + 1}) \ {n + 1} = Y
      BY <3>2, <3>3, Zenon
    <3> HIDE DEF f, A
    <3> QED BY <3>2, <3>4
  <2>3. f \in Bijection(A, B)
    BY <2>1, <2>2 DEF Bijection, Injection, IsInjective, Surjection
  <2> QED BY <2>3 DEF ExistsBijection
<1>6. IsFiniteSet(B) /\ Cardinality(B) = 2^n
  BY <1>3, <1>5, FS_Bijection
<1>7. A \cap B = {}
  <2>1. n + 1 \notin 1 .. n
    OBVIOUS
  <2> QED BY <2>1
<1>8. SUBSET (1 .. (n + 1)) = A \cup B
  <2>1. 1 .. (n + 1) = (1 .. n) \cup {n + 1}
    OBVIOUS
  <2>2. ASSUME NEW X \in SUBSET (1 .. (n + 1)) PROVE X \in A \cup B
    <3> DEFINE Y == X \ {n + 1}
    <3>1. Y \in A
      BY <2>1
    <3>2. CASE n + 1 \in X
      <4>1. X = Y \cup {n + 1}
        BY <3>2
      <4> QED BY <3>1, <4>1
    <3>3. CASE n + 1 \notin X
      <4>1. X = Y
        BY <3>3
      <4> QED BY <3>1, <4>1
    <3> QED BY <3>2, <3>3
  <2>3. A \cup B \subseteq SUBSET (1 .. (n + 1))
    BY <2>1
  <2> QED BY <2>2, <2>3
<1>9. 2^(n + 1) = 2^n + 2^n
  <2> HIDE DEF A, B
  <2>1. Cardinality(A \cup B) = 2^n + 2^n
    <3>1. Cardinality(A \cup B) = Cardinality(A) + Cardinality(B) - Cardinality(A \cap B)
      BY <1>3, <1>6, FS_Union
    <3> QED BY <1>3, <1>6, <1>7, <3>1, FS_EmptySet
  <2>2. n + 1 \in Nat
    OBVIOUS
  <2> QED BY <1>2, <1>8, <2>1, <2>2
<1>10. 2^(n + 1) = 2 * 2^n
  BY <1>3, <1>9
<1>11. 2^0 = 1
  OBVIOUS
<1> QED BY <1>3, <1>4, <1>10, <1>11

\* A power of a sum is the product of the powers.
LEMMA PowerSum ==
  ASSUME NEW m \in Nat, NEW n \in Nat
  PROVE  2^(m + n) = 2^m * 2^n
<1> DEFINE S == {i \in 0 .. n : 2^(m + i) = 2^m * 2^i}
<1>1. 0 \in S
  <2>1. m + 0 = m /\ 2^m \in Nat /\ 2^0 = 1
    BY TwoPowers
  <2> QED BY <2>1
<1>2. ASSUME NEW i \in 0 .. (n - 1), i \in S PROVE i + 1 \in S
  <2>1. m + i \in Nat /\ i \in Nat /\ m + (i + 1) = (m + i) + 1 /\ i + 1 \in 0 .. n
    OBVIOUS
  <2>2. 2^((m + i) + 1) = 2 * 2^(m + i) /\ 2^(i + 1) = 2 * 2^i /\ 2^m \in Nat /\ 2^i \in Nat
    BY <2>1, TwoPowers
  <2>3. 2^(m + i) = 2^m * 2^i
    BY <1>2
  <2>4. \A x, y \in Nat : 2 * (x * y) = x * (2 * y)
    OBVIOUS
  <2>5. 2^(m + (i + 1)) = 2^m * 2^(i + 1)
    BY <2>1, <2>2, <2>3, <2>4
  <2> QED BY <2>1, <2>5
<1>3. \A i \in 0 .. n : i \in S
  <2> HIDE DEF S
  <2> QED BY <1>1, <1>2, UpTo
<1> QED BY <1>3

\* The number that the lowest i bits of a word stand for, for every i.
IsValue(v, a) == /\ v \in [0 .. W -> Nat]
                 /\ v[0] = 0
                 /\ \A i \in Bit : v[i + 1] = v[i] + (IF a[i] THEN 2^i ELSE 0)

LEMMA Values ==
  ASSUME NEW a \in Word
  PROVE  \E v : IsValue(v, a) /\ ToNat(a) = v[W]
<1> DEFINE Rule(v, i) == IF i = 0 THEN 0 ELSE v[i - 1] + (IF a[i - 1] THEN 2^(i - 1) ELSE 0)
           value == CHOOSE v : v = [i \in 0 .. W |-> Rule(v, i)]
           F == [p \in (1 .. W) \X Nat |-> p[2] + (IF a[p[1] - 1] THEN 2^(p[1] - 1) ELSE 0)]
<1>1. PICK f : Iterates(f, W, Nat, 0, F)
  <2>1. ASSUME NEW p \in (1 .. W) \X Nat PROVE p[2] + (IF a[p[1] - 1] THEN 2^(p[1] - 1) ELSE 0) \in Nat
    <3>1. p[2] \in Nat /\ p[1] - 1 \in Nat
      BY WAssumption
    <3>2. 2^(p[1] - 1) \in Nat
      BY <3>1, TwoPowers
    <3> QED BY <3>1, <3>2
  <2>2. F \in [(1 .. W) \X Nat -> Nat] /\ 0 \in Nat /\ W \in Nat
    BY <2>1, WAssumption
  <2> HIDE DEF F
  <2> QED BY <2>2, RecursionExists, Zenon
<1>2. f = [i \in 0 .. W |-> Rule(f, i)]
  <2>1. \A i \in 1 .. W : f[i] = Rule(f, i)
    <3> TAKE i \in 1 .. W
    <3>1. i \in Nat /\ i # 0 /\ i - 1 \in 0 .. W
      BY WAssumption
    <3>2. f[i - 1] \in Nat /\ f[i] = F[<<i, f[i - 1]>>]
      BY <1>1, <3>1 DEF Iterates
    <3>3. F[<<i, f[i - 1]>>] = f[i - 1] + (IF a[i - 1] THEN 2^(i - 1) ELSE 0)
      BY <3>2
    <3> QED BY <3>1, <3>2, <3>3
  <2>2. f[0] = Rule(f, 0)
    BY <1>1 DEF Iterates
  <2>3. \A i \in 0 .. W : f[i] = Rule(f, i)
    <3> HIDE DEF Rule
    <3> QED BY <2>1, <2>2, WAssumption
  <2> HIDE DEF Rule
  <2> QED BY <1>1, <2>3 DEF Iterates
<1>3. value = [i \in 0 .. W |-> Rule(value, i)]
  <2> HIDE DEF Rule
  <2> QED BY <1>2
<1>4. ToNat(a) = value[W]
  BY DEF ToNat
<1> HIDE DEF value
<1>5. value[0] = 0
  BY <1>3, WAssumption
<1>6. \A i \in Bit : value[i + 1] = value[i] + (IF a[i] THEN 2^i ELSE 0)
  <2> TAKE i \in Bit
  <2>1. i + 1 \in 0 .. W /\ i + 1 # 0 /\ (i + 1) - 1 = i
    BY WAssumption DEF Bit
  <2>2. value[i + 1] = Rule(value, i + 1)
    <3> HIDE DEF Rule
    <3> QED BY <1>3, <2>1
  <2>3. Rule(value, i + 1) = value[i] + (IF a[i] THEN 2^i ELSE 0)
    BY <2>1, Zenon
  <2> QED BY <2>2, <2>3, Zenon
<1>7. \A i \in 0 .. W : value[i] \in Nat
  <2> DEFINE S == {i \in 0 .. W : value[i] \in Nat}
  <2>1. 0 \in S
    BY <1>5, WAssumption
  <2>2. ASSUME NEW i \in 0 .. (W - 1), i \in S PROVE i + 1 \in S
    <3>1. i \in Bit /\ i + 1 \in 0 .. W /\ i \in Nat
      BY WAssumption DEF Bit
    <3>2. 2^i \in Nat /\ value[i] \in Nat
      BY <2>2, <3>1, TwoPowers
    <3>3. value[i + 1] \in Nat
      BY <1>6, <3>1, <3>2
    <3> QED BY <3>1, <3>3
  <2>3. \A i \in 0 .. W : i \in S
    <3> HIDE DEF S
    <3> QED BY <2>1, <2>2, WAssumption, UpTo
  <2> QED BY <2>3
<1>8. value \in [0 .. W -> Nat]
  <2> HIDE DEF Rule
  <2> QED BY <1>3, <1>7
<1> QED BY <1>4, <1>5, <1>6, <1>8 DEF IsValue

\* A proof by induction over the bits takes the step from bit i to bit i + 1.
LEMMA BitInduction ==
  ASSUME NEW S, 0 \in S, \A i \in Bit : i \in S => i + 1 \in S
  PROVE  \A i \in 0 .. W : i \in S
BY WAssumption, UpTo DEF Bit

\* i bits stand for a number below 2^i.
LEMMA ValueBelow ==
  ASSUME NEW a, NEW v, IsValue(v, a)
  PROVE  \A i \in 0 .. W : v[i] \in 0 .. (2^i - 1)
<1> DEFINE S == {i \in 0 .. W : v[i] \in 0 .. (2^i - 1)}
<1>1. 0 \in S
  BY WAssumption DEF IsValue
<1>2. ASSUME NEW i \in Bit, i \in S PROVE i + 1 \in S
  <2>1. i \in Nat /\ i + 1 \in 0 .. W
    BY WAssumption DEF Bit
  <2>2. 2^i \in Nat /\ 2^(i + 1) = 2 * 2^i
    BY <2>1, TwoPowers
  <2>3. v[i] \in 0 .. (2^i - 1) /\ v[i + 1] = v[i] + (IF a[i] THEN 2^i ELSE 0)
    BY <1>2 DEF IsValue
  <2>4. v[i + 1] \in 0 .. (2^(i + 1) - 1)
    BY <2>2, <2>3
  <2> QED BY <2>1, <2>4
<1>3. \A i \in 0 .. W : i \in S
  <2> HIDE DEF S
  <2> QED BY <1>1, <1>2, BitInduction
<1> QED BY <1>3

LEMMA DivUnique ==
  ASSUME NEW m \in Nat \ {0}, NEW q \in Int, NEW r \in 0 .. (m - 1)
  PROVE  ((m * q) + r) \div m = q
OBVIOUS

\* The bits above the lowest i stand for a multiple of 2^i.
LEMMA ValueAbove ==
  ASSUME NEW a, NEW v, IsValue(v, a), NEW i \in 0 .. W
  PROVE  \E q \in Nat : v[W] = v[i] + (2^i * q)
<1> DEFINE S == {k \in 0 .. W : k >= i => \E q \in Nat : v[k] = v[i] + (2^i * q)}
<1>0. i \in Nat /\ v[i] \in Nat /\ 2^i \in Nat
  BY TwoPowers, WAssumption DEF IsValue
<1>1. \E q \in Nat : v[i] = v[i] + (2^i * q)
  <2>1. 0 \in Nat /\ v[i] = v[i] + (2^i * 0)
    BY <1>0
  <2> QED BY <2>1
<1>2. 0 \in S
  <2>1. 0 \in 0 .. W /\ (0 >= i => i = 0)
    BY WAssumption
  <2> QED BY <1>1, <2>1
<1>3. ASSUME NEW k \in Bit, k \in S PROVE k + 1 \in S
  <2>1. k \in Nat /\ k + 1 \in 0 .. W
    BY WAssumption DEF Bit
  <2>2. CASE k + 1 < i
    BY <1>0, <2>1, <2>2
  <2>3. CASE k + 1 = i
    BY <1>1, <2>1, <2>3
  <2>4. CASE k >= i
    <3>1. PICK q \in Nat : v[k] = v[i] + (2^i * q)
      BY <1>3, <2>4
    <3>2. 2^k = 2^i * 2^(k - i) /\ 2^(k - i) \in Nat
      <4> DEFINE e == k - i
      <4>1. e \in Nat /\ i + e = k
        BY <1>0, <2>1, <2>4
      <4> HIDE DEF e
      <4>2. 2^(i + e) = 2^i * 2^e /\ 2^e \in Nat
        BY <1>0, <4>1, PowerSum, TwoPowers
      <4>3. 2^k = 2^i * 2^e /\ 2^e \in Nat
        BY <4>1, <4>2
      <4> QED BY <4>3 DEF e
    <3>3. v[k + 1] = v[k] + (IF a[k] THEN 2^k ELSE 0)
      BY DEF IsValue
    <3> DEFINE e == IF a[k] THEN 2^(k - i) ELSE 0
    <3>4. e \in Nat /\ (IF a[k] THEN 2^k ELSE 0) = 2^i * e
      BY <1>0, <3>2
    <3> HIDE DEF e
    <3>5. \A x, y \in Nat : (2^i * x) + (2^i * y) = 2^i * (x + y)
      BY <1>0
    <3>6. v[k + 1] = v[i] + (2^i * (q + e))
      BY <1>0, <3>1, <3>3, <3>4, <3>5
    <3>7. q + e \in Nat
      BY <3>4
    <3>8. \E p \in Nat : v[k + 1] = v[i] + (2^i * p)
      BY <3>6, <3>7, Zenon
    <3> QED BY <2>1, <3>8
  <2> QED BY <1>0, <2>1, <2>2, <2>3, <2>4
<1>4. \A k \in 0 .. W : k \in S
  <2> HIDE DEF S
  <2> QED BY <1>2, <1>3, BitInduction
<1>5. W \in 0 .. W /\ W >= i
  BY WAssumption
<1> QED BY <1>4, <1>5

\* A word is the bits of the number it stands for.
LEMMA ValueBits ==
  ASSUME NEW a \in Word, NEW v, IsValue(v, a), NEW i \in Bit
  PROVE  /\ v[W] \div 2^i \in Nat
         /\ (v[W] \div 2^i) % 2 = (IF a[i] THEN 1 ELSE 0)
<1>1. i \in Nat /\ i \in 0 .. W /\ i + 1 \in 0 .. W
  BY WAssumption DEF Bit
<1>2. 2^i \in Nat \ {0} /\ 2^(i + 1) = 2 * 2^i
  BY <1>1, TwoPowers
<1>3. v[i] \in 0 .. (2^i - 1) /\ v[i + 1] = v[i] + (IF a[i] THEN 2^i ELSE 0)
  BY <1>1, ValueBelow DEF IsValue
<1>4. PICK q \in Nat : v[W] = v[i + 1] + (2^(i + 1) * q)
  BY <1>1, ValueAbove
<1> DEFINE e == IF a[i] THEN 1 ELSE 0
<1>5. v[W] = (2^i * ((2 * q) + e)) + v[i]
  <2>1. (IF a[i] THEN 2^i ELSE 0) = 2^i * e
    BY <1>2
  <2>2. e \in Nat
    OBVIOUS
  <2> HIDE DEF e
  <2>3. \A x, y, p \in Nat : (y + (x * e)) + ((2 * x) * p) = (x * ((2 * p) + e)) + y
    BY <2>2
  <2>4. v[W] = (v[i] + (2^i * e)) + ((2 * 2^i) * q)
    BY <1>2, <1>3, <1>4, <2>1
  <2>5. v[i] \in Nat /\ 2^i \in Nat
    BY <1>2, <1>3
  <2> QED BY <2>3, <2>4, <2>5
<1>6. e \in Nat /\ (2 * q) + e \in Nat /\ ((2 * q) + e) % 2 = e
  OBVIOUS
<1> HIDE DEF e
<1>7. v[W] \div 2^i = (2 * q) + e
  <2> DEFINE p == (2 * q) + e
  <2>1. p \in Int /\ v[W] = (2^i * p) + v[i]
    BY <1>5, <1>6
  <2> HIDE DEF p
  <2>2. ((2^i * p) + v[i]) \div 2^i = p
    BY <1>2, <1>3, <2>1, DivUnique
  <2> QED BY <2>1, <2>2 DEF p
<1> QED BY <1>6, <1>7 DEF e

\* Different words stand for different numbers, all of them below 2^W.
LEMMA ToNatFacts ==
  /\ 2^W \in Nat \ {0}
  /\ \A a \in Word : ToNat(a) \in 0 .. (2^W - 1)
  /\ \A a, b \in Word : ToNat(a) = ToNat(b) => a = b
<1>1. 2^W \in Nat \ {0}
  BY WAssumption, TwoPowers
<1>2. \A a \in Word : ToNat(a) \in 0 .. (2^W - 1)
  <2> TAKE a \in Word
  <2>1. PICK v : IsValue(v, a) /\ ToNat(a) = v[W]
    BY Values
  <2> QED BY <2>1, ValueBelow, WAssumption
<1>3. ASSUME NEW a \in Word, NEW b \in Word, ToNat(a) = ToNat(b) PROVE a = b
  <2>1. PICK v : IsValue(v, a) /\ ToNat(a) = v[W]
    BY Values
  <2>2. PICK w : IsValue(w, b) /\ ToNat(b) = w[W]
    BY Values
  <2>3. \A i \in Bit : (IF a[i] THEN 1 ELSE 0) = (IF b[i] THEN 1 ELSE 0)
    <3> TAKE i \in Bit
    <3>1. /\ (v[W] \div 2^i) % 2 = (IF a[i] THEN 1 ELSE 0)
          /\ (w[W] \div 2^i) % 2 = (IF b[i] THEN 1 ELSE 0)
      BY <2>1, <2>2, ValueBits
    <3>2. v[W] = w[W]
      BY <1>3, <2>1, <2>2
    <3> QED BY <3>1, <3>2
  <2>4. \A i \in Bit : a[i] \in BOOLEAN /\ b[i] \in BOOLEAN
    BY DEF Word
  <2>5. \A i \in Bit : a[i] = b[i]
    BY <2>3, <2>4
  <2> QED BY <2>5, WordExtensional
<1> QED BY <1>1, <1>2, <1>3

\* The remainder modulo 2 * m: one bit more than the remainder modulo m.
LEMMA ModDouble ==
  ASSUME NEW n \in Nat, NEW m \in Nat \ {0}
  PROVE  n % (2 * m) = (n % m) + (IF (n \div m) % 2 = 1 THEN m ELSE 0)
<1>1. n \div m \in Nat /\ n % m \in 0 .. (m - 1) /\ n = (m * (n \div m)) + (n % m)
  <2>1. n \div m \in Int /\ n % m \in 0 .. (m - 1) /\ n = (m * (n \div m)) + (n % m)
    BY DivMod
  <2>2. n \div m \in Nat
    OBVIOUS
  <2> QED BY <2>1, <2>2
<1> DEFINE d == n \div m
           r == n % m
<1>2. d \in Nat /\ r \in 0 .. (m - 1) /\ n = (m * d) + r
  BY <1>1
<1> HIDE DEF d, r
<1>3. PICK h \in Nat : d = (2 * h) + (d % 2) /\ d % 2 \in {0, 1}
  <2>1. d \div 2 \in Nat /\ d = (2 * (d \div 2)) + (d % 2) /\ d % 2 \in {0, 1}
    BY <1>2
  <2> QED BY <2>1
<1> DEFINE e == IF d % 2 = 1 THEN m ELSE 0
<1>4. m * (d % 2) = e
  BY <1>3
<1>5. r + e \in 0 .. ((2 * m) - 1) /\ e \in Nat
  BY <1>2
<1> HIDE DEF e
<1>6. n = ((2 * m) * h) + (r + e)
  <2> DEFINE b == d % 2
  <2>1. b \in Nat /\ d = (2 * h) + b /\ m * b = e
    BY <1>3, <1>4
  <2> HIDE DEF b
  <2>2. \A x, y, z \in Nat : x * ((2 * y) + z) = ((2 * x) * y) + (x * z)
    OBVIOUS
  <2>3. m * d = ((2 * m) * h) + e
    BY <2>1, <2>2
  <2> QED BY <1>2, <1>5, <2>3
<1>7. (((2 * m) * h) + (r + e)) % (2 * m) = r + e
  <2> DEFINE p == 2 * m
             s == r + e
  <2>1. p \in Nat \ {0} /\ s \in 0 .. (p - 1) /\ h \in Int
    BY <1>3, <1>5
  <2> HIDE DEF p, s
  <2>2. ((p * h) + s) % p = s
    BY <2>1, ModUnique
  <2> QED BY <2>2 DEF p, s
<1>8. n % (2 * m) = r + e
  BY <1>6, <1>7
<1> QED BY <1>8 DEF r, e, d

\* Converting a number to a word keeps its remainder modulo 2^W.
LEMMA FromNatValue ==
  ASSUME NEW n \in Nat
  PROVE  FromNat(n) \in Word /\ ToNat(FromNat(n)) = n % 2^W
<1>1. FromNat(n) \in Word
  BY WordClosure
<1>2. PICK v : IsValue(v, FromNat(n)) /\ ToNat(FromNat(n)) = v[W]
  BY <1>1, Values
<1> DEFINE S == {i \in 0 .. W : v[i] = n % 2^i}
<1>3. 0 \in S
  <2>1. 2^0 = 1 /\ n % 1 = 0
    BY TwoPowers
  <2> QED BY <1>2, <2>1, WAssumption DEF IsValue
<1>4. ASSUME NEW i \in Bit, i \in S PROVE i + 1 \in S
  <2>1. i \in Nat /\ i + 1 \in 0 .. W
    BY WAssumption DEF Bit
  <2>2. 2^i \in Nat \ {0} /\ 2^(i + 1) = 2 * 2^i
    BY <2>1, TwoPowers
  <2>3. v[i + 1] = v[i] + (IF FromNat(n)[i] THEN 2^i ELSE 0)
    BY <1>2 DEF IsValue
  <2>4. FromNat(n)[i] = ((n \div 2^i) % 2 = 1)
    BY DEF FromNat
  <2>5. n % (2 * 2^i) = (n % 2^i) + (IF (n \div 2^i) % 2 = 1 THEN 2^i ELSE 0)
    BY <2>2, ModDouble
  <2> QED BY <1>4, <2>1, <2>2, <2>3, <2>4, <2>5
<1>5. \A i \in 0 .. W : i \in S
  <2> HIDE DEF S
  <2> QED BY <1>3, <1>4, BitInduction
<1> QED BY <1>1, <1>2, <1>5, WAssumption

\* Zero stands for 0, and so for the multiples of 2^W.
LEMMA ZeroValue == ToNat(Zero) = 0 /\ \A n \in Nat : FromNat(n) = Zero <=> n % 2^W = 0
<1>1. Zero \in Word
  BY WordClosure
<1>2. PICK v : IsValue(v, Zero) /\ ToNat(Zero) = v[W]
  BY <1>1, Values
<1> DEFINE S == {i \in 0 .. W : v[i] = 0}
<1>3. 0 \in S
  BY <1>2, WAssumption DEF IsValue
<1>4. ASSUME NEW i \in Bit, i \in S PROVE i + 1 \in S
  <2>1. i + 1 \in 0 .. W /\ Zero[i] = FALSE
    BY WAssumption DEF Bit, Zero
  <2> QED BY <1>2, <1>4, <2>1 DEF IsValue
<1>5. \A i \in 0 .. W : i \in S
  <2> HIDE DEF S
  <2> QED BY <1>3, <1>4, BitInduction
<1>6. ToNat(Zero) = 0
  BY <1>2, <1>5, WAssumption
<1>7. ASSUME NEW n \in Nat PROVE FromNat(n) = Zero <=> n % 2^W = 0
  <2>1. FromNat(n) \in Word /\ ToNat(FromNat(n)) = n % 2^W
    BY FromNatValue
  <2> QED BY <1>1, <1>6, <2>1, ToNatFacts
<1> QED BY <1>6, <1>7

LEMMA AddValue ==
  ASSUME NEW a \in Word, NEW b \in Word
  PROVE  ToNat(Add(a, b)) = (ToNat(a) + ToNat(b)) % 2^W
<1>1. PICK c \in [0 .. W -> BOOLEAN] :
        /\ c[0] = FALSE
        /\ \A i \in Bit : c[i + 1] = (\/ a[i] /\ b[i]
                                      \/ c[i] /\ (a[i] \/ b[i]))
        /\ \A i \in Bit : Add(a, b)[i] = ((a[i] # b[i]) # c[i])
  BY AddCarries
<1>2. PICK v : IsValue(v, a) /\ ToNat(a) = v[W]
  BY Values
<1>3. PICK w : IsValue(w, b) /\ ToNat(b) = w[W]
  BY Values
<1>4. PICK s : IsValue(s, Add(a, b)) /\ ToNat(Add(a, b)) = s[W]
  BY Values, WordClosure
<1> DEFINE S == {i \in 0 .. W : v[i] + w[i] = s[i] + (IF c[i] THEN 2^i ELSE 0)}
<1>5. 0 \in S
  BY <1>1, <1>2, <1>3, <1>4, WAssumption DEF IsValue
<1>6. ASSUME NEW i \in Bit, i \in S PROVE i + 1 \in S
  <2>1. i \in Nat /\ i \in 0 .. W /\ i + 1 \in 0 .. W
    BY WAssumption DEF Bit
  <2>2. 2^i \in Nat /\ 2^(i + 1) = 2 * 2^i
    BY <2>1, TwoPowers
  <2>3. /\ a[i] \in BOOLEAN /\ b[i] \in BOOLEAN /\ c[i] \in BOOLEAN
        /\ v[i] \in Nat /\ w[i] \in Nat /\ s[i] \in Nat
    BY <1>2, <1>3, <1>4, <2>1 DEF Word, IsValue
  <2>4. /\ v[i + 1] = v[i] + (IF a[i] THEN 2^i ELSE 0)
        /\ w[i + 1] = w[i] + (IF b[i] THEN 2^i ELSE 0)
        /\ s[i + 1] = s[i] + (IF ((a[i] # b[i]) # c[i]) THEN 2^i ELSE 0)
    BY <1>1, <1>2, <1>3, <1>4 DEF IsValue
  <2>5. c[i + 1] = (\/ a[i] /\ b[i]
                    \/ c[i] /\ (a[i] \/ b[i]))
    BY <1>1
  <2>6. v[i] + w[i] = s[i] + (IF c[i] THEN 2^i ELSE 0)
    BY <1>6
  <2>7. v[i + 1] + w[i + 1] = s[i + 1] + (IF c[i + 1] THEN 2^(i + 1) ELSE 0)
    <3> DEFINE p == 2^i
    <3>1. p \in Nat /\ 2^(i + 1) = 2 * p
      BY <2>2
    <3>2. /\ v[i + 1] = v[i] + (IF a[i] THEN p ELSE 0)
          /\ w[i + 1] = w[i] + (IF b[i] THEN p ELSE 0)
          /\ s[i + 1] = s[i] + (IF ((a[i] # b[i]) # c[i]) THEN p ELSE 0)
          /\ v[i] + w[i] = s[i] + (IF c[i] THEN p ELSE 0)
      BY <2>4, <2>6
    <3> HIDE DEF p
    <3>3. CASE a[i] = TRUE /\ b[i] = TRUE
      <4>1. c[i + 1] = TRUE /\ ((a[i] # b[i]) # c[i]) = c[i]
        BY <2>3, <2>5, <3>3
      <4> QED BY <2>3, <3>1, <3>2, <3>3, <4>1, SMTT(30)
    <3>4. CASE a[i] = FALSE /\ b[i] = FALSE
      <4>1. c[i + 1] = FALSE /\ ((a[i] # b[i]) # c[i]) = c[i]
        BY <2>3, <2>5, <3>4
      <4>2. v[i + 1] = v[i] /\ w[i + 1] = w[i] /\ v[i + 1] + w[i + 1] = s[i + 1]
        BY <2>3, <3>1, <3>2, <3>4, <4>1
      <4> QED BY <2>3, <3>1, <4>1, <4>2
    <3>5. CASE a[i] # b[i]
      <4>1. c[i + 1] = c[i] /\ ((a[i] # b[i]) # c[i]) = ~ c[i]
        BY <2>3, <2>5, <3>5
      <4>2. v[i + 1] + w[i + 1] = (v[i] + w[i]) + p
        BY <2>3, <3>1, <3>2, <3>5
      <4>3. CASE c[i] = TRUE
        BY <2>3, <3>1, <3>2, <4>1, <4>2, <4>3
      <4>4. CASE c[i] = FALSE
        BY <2>3, <3>1, <3>2, <4>1, <4>2, <4>4
      <4> QED BY <2>3, <4>3, <4>4
    <3> QED BY <2>3, <3>3, <3>4, <3>5
  <2> QED BY <2>1, <2>7
<1>7. \A i \in 0 .. W : i \in S
  <2> HIDE DEF S
  <2> QED BY <1>5, <1>6, BitInduction
<1>8. v[W] + w[W] = s[W] + (IF c[W] THEN 2^W ELSE 0) /\ v[W] \in Nat /\ w[W] \in Nat
  BY <1>2, <1>3, <1>7, WAssumption DEF IsValue
<1>9. s[W] \in 0 .. (2^W - 1) /\ 2^W \in Nat \ {0}
  BY <1>4, ValueBelow, WAssumption, ToNatFacts
<1>10. (v[W] + w[W]) % 2^W = s[W]
  <2> DEFINE e == IF c[W] THEN 1 ELSE 0
             sum == v[W] + w[W]
  <2>1. e \in Int /\ sum = (2^W * e) + s[W]
    BY <1>8, <1>9
  <2> HIDE DEF e, sum
  <2>2. ((2^W * e) + s[W]) % 2^W = s[W]
    BY <1>9, <2>1, ModUnique
  <2>3. sum % 2^W = s[W]
    BY <2>1, <2>2
  <2> QED BY <2>3 DEF sum
<1> QED BY <1>2, <1>3, <1>4, <1>10

LEMMA ShlValue ==
  ASSUME NEW a \in Word, NEW k \in 0 .. W
  PROVE  ToNat(Shl(a, k)) = (ToNat(a) * 2^k) % 2^W
<1>0. k \in Nat /\ 2^k \in Nat /\ W - k \in Nat /\ W - k \in 0 .. W
  BY WAssumption, TwoPowers
<1>1. PICK v : IsValue(v, a) /\ ToNat(a) = v[W]
  BY Values
<1>2. PICK w : IsValue(w, Shl(a, k)) /\ ToNat(Shl(a, k)) = w[W]
  BY Values, WordClosure
<1> DEFINE S == {i \in 0 .. W : /\ i <= k => w[i] = 0
                                /\ i >= k => w[i] = v[i - k] * 2^k}
<1>3. v[0] * 2^k = 0
  BY <1>0, <1>1 DEF IsValue
<1>4. 0 \in S
  <2>1. w[0] = 0 /\ (0 >= k => 0 - k = 0)
    BY <1>0, <1>2 DEF IsValue
  <2> QED BY <1>3, <2>1, WAssumption
<1>5. ASSUME NEW i \in Bit, i \in S PROVE i + 1 \in S
  <2>1. i \in Nat /\ i + 1 \in 0 .. W
    BY WAssumption DEF Bit
  <2>2. w[i + 1] = w[i] + (IF Shl(a, k)[i] THEN 2^i ELSE 0)
    BY <1>2 DEF IsValue
  <2>3. CASE i < k
    <3>1. Shl(a, k)[i] = FALSE /\ w[i] = 0
      <4>1. ~(i >= k) /\ i <= k
        BY <1>0, <2>1, <2>3
      <4>2. Shl(a, k)[i] = (i >= k /\ a[i - k])
        BY DEF Shl
      <4> QED BY <1>5, <4>1, <4>2
    <3>2. w[i + 1] = 0
      BY <2>2, <3>1
    <3>3. i + 1 >= k => (i + 1) - k = 0
      BY <1>0, <2>1, <2>3
    <3> QED BY <1>3, <2>1, <3>2, <3>3
  <2>4. CASE i >= k
    <3> DEFINE j == i - k
    <3>1. j \in Bit /\ j \in Nat /\ j + k = i /\ (i + 1) - k = j + 1
      BY <1>0, <2>1, <2>4, WAssumption DEF Bit
    <3>2. Shl(a, k)[i] = a[j] /\ w[i] = v[j] * 2^k
      <4>1. a[j] \in BOOLEAN
        BY <3>1 DEF Word
      <4> QED BY <1>5, <2>4, <4>1 DEF Shl
    <3> HIDE DEF j
    <3>3. 2^i = 2^j * 2^k /\ 2^j \in Nat
      <4>1. 2^(j + k) = 2^j * 2^k
        BY <1>0, <3>1, PowerSum
      <4> QED BY <3>1, <4>1, TwoPowers
    <3>4. v[j] \in Nat /\ v[j + 1] = v[j] + (IF a[j] THEN 2^j ELSE 0)
      BY <1>1, <3>1, WAssumption DEF IsValue, Bit
    <3>5. w[i + 1] = v[j + 1] * 2^k
      <4>1. \A x, y, z \in Nat : (x + y) * z = (x * z) + (y * z)
        OBVIOUS
      <4>2. CASE a[j]
        <5>1. v[j + 1] = v[j] + 2^j /\ w[i + 1] = (v[j] * 2^k) + (2^j * 2^k)
          BY <2>2, <3>2, <3>3, <3>4, <4>2
        <5> QED BY <1>0, <3>3, <3>4, <4>1, <5>1
      <4>3. CASE ~ a[j]
        <5>1. v[j + 1] = v[j] /\ w[i + 1] = v[j] * 2^k
          BY <1>0, <2>2, <3>2, <3>3, <3>4, <4>3
        <5> QED BY <5>1
      <4> QED BY <4>2, <4>3
    <3>6. ~(i + 1 <= k)
      BY <1>0, <2>1, <2>4
    <3> QED BY <2>1, <3>1, <3>5, <3>6
  <2> QED BY <1>0, <2>1, <2>3, <2>4
<1>6. \A i \in 0 .. W : i \in S
  <2> HIDE DEF S
  <2> QED BY <1>4, <1>5, BitInduction
<1>7. w[W] = v[W - k] * 2^k
  BY <1>0, <1>6, WAssumption
<1>8. PICK q \in Nat : v[W] = v[W - k] + (2^(W - k) * q)
  BY <1>0, <1>1, ValueAbove
<1>9. 2^W = 2^(W - k) * 2^k /\ 2^(W - k) \in Nat
  <2> DEFINE j == W - k
  <2>1. j \in Nat /\ j + k = W
    BY <1>0, WAssumption
  <2> HIDE DEF j
  <2>2. 2^(j + k) = 2^j * 2^k /\ 2^j \in Nat
    BY <1>0, <2>1, PowerSum, TwoPowers
  <2> QED BY <2>1, <2>2 DEF j
<1>10. v[W] * 2^k = (2^W * q) + w[W]
  <2>1. \A x, y, z, p \in Nat : (x + (y * p)) * z = ((y * z) * p) + (x * z)
    OBVIOUS
  <2>2. v[W - k] \in Nat
    BY <1>0, <1>1 DEF IsValue
  <2> QED BY <1>0, <1>7, <1>8, <1>9, <2>1, <2>2
<1>11. w[W] \in 0 .. (2^W - 1) /\ 2^W \in Nat \ {0}
  BY <1>2, ValueBelow, WAssumption, ToNatFacts
<1>12. ((2^W * q) + w[W]) % 2^W = w[W]
  <2> DEFINE r == w[W]
  <2>1. r \in 0 .. (2^W - 1)
    BY <1>11
  <2> HIDE DEF r
  <2>2. ((2^W * q) + r) % 2^W = r
    BY <1>11, <2>1, ModUnique
  <2> QED BY <2>2 DEF r
<1> QED BY <1>1, <1>2, <1>10, <1>12

LEMMA ShrValue ==
  ASSUME NEW a \in Word, NEW k \in 0 .. W
  PROVE  ToNat(Shr(a, k)) = ToNat(a) \div 2^k
<1>0. k \in Nat /\ 2^k \in Nat \ {0}
  BY WAssumption, TwoPowers
<1>1. PICK v : IsValue(v, a) /\ ToNat(a) = v[W]
  BY Values
<1>2. PICK w : IsValue(w, Shr(a, k)) /\ ToNat(Shr(a, k)) = w[W]
  BY Values, WordClosure
<1> DEFINE Top(i) == IF i + k < W THEN i + k ELSE W
           S == {i \in 0 .. W : v[Top(i)] = v[k] + (2^k * w[i])}
<1>3. v[k] \in Nat /\ v[k] \in 0 .. (2^k - 1) /\ \A i \in 0 .. W : w[i] \in Nat
  BY <1>1, <1>2, ValueBelow DEF IsValue
<1>4. 0 \in S
  <2>1. w[0] = 0 /\ Top(0) = k
    BY <1>0, <1>2, WAssumption DEF IsValue
  <2> QED BY <1>0, <1>3, <2>1, WAssumption
<1>5. ASSUME NEW i \in Bit, i \in S PROVE i + 1 \in S
  <2>1. i \in Nat /\ i + 1 \in 0 .. W /\ w[i] \in Nat
    BY <1>3, WAssumption DEF Bit
  <2>2. w[i + 1] = w[i] + (IF Shr(a, k)[i] THEN 2^i ELSE 0)
    BY <1>2 DEF IsValue
  <2>3. v[Top(i)] = v[k] + (2^k * w[i])
    BY <1>5
  <2>4. CASE i + k < W
    <3> DEFINE j == i + k
    <3>1. j \in Bit /\ j \in Nat /\ Top(i) = j /\ Top(i + 1) = j + 1
      BY <1>0, <2>1, <2>4, WAssumption DEF Bit
    <3>2. Shr(a, k)[i] = a[j]
      <4>1. a[j] \in BOOLEAN
        BY <3>1 DEF Word
      <4> QED BY <2>4, <4>1 DEF Shr
    <3>3. 2^j = 2^k * 2^i /\ 2^i \in Nat
      <4>1. 2^(k + i) = 2^k * 2^i /\ j = k + i
        BY <1>0, <2>1, PowerSum
      <4> QED BY <2>1, <4>1, TwoPowers
    <3> HIDE DEF j, Top
    <3>4. v[j] \in Nat /\ v[j + 1] = v[j] + (IF a[j] THEN 2^j ELSE 0)
      BY <1>1, <3>1, WAssumption DEF IsValue, Bit
    <3>5. v[j + 1] = v[k] + (2^k * w[i + 1])
      <4>1. \A x, y, z, p \in Nat : (x + (y * z)) + (y * p) = x + (y * (z + p))
        OBVIOUS
      <4>2. CASE a[j]
        <5>1. v[j + 1] = (v[k] + (2^k * w[i])) + (2^k * 2^i) /\ w[i + 1] = w[i] + 2^i
          BY <2>2, <2>3, <3>1, <3>2, <3>3, <3>4, <4>2
        <5> QED BY <1>0, <1>3, <2>1, <3>3, <4>1, <5>1
      <4>3. CASE ~ a[j]
        <5>1. v[j + 1] = v[k] + (2^k * w[i]) /\ w[i + 1] = w[i]
          BY <2>1, <2>2, <2>3, <3>1, <3>2, <3>4, <4>3
        <5> QED BY <5>1
      <4> QED BY <4>2, <4>3
    <3> QED BY <2>1, <3>1, <3>5
  <2>5. CASE ~(i + k < W)
    <3>1. Shr(a, k)[i] = FALSE /\ Top(i) = W /\ Top(i + 1) = W
      <4>1. ~(i + k < W) /\ ~((i + 1) + k < W)
        BY <1>0, <2>1, <2>5, WAssumption
      <4>2. Shr(a, k)[i] = (i + k < W /\ a[i + k])
        BY DEF Shr
      <4> QED BY <4>1, <4>2
    <3>2. w[i + 1] = w[i]
      BY <2>1, <2>2, <3>1
    <3> HIDE DEF Top
    <3> QED BY <2>1, <2>3, <3>1, <3>2
  <2> QED BY <2>4, <2>5
<1>6. \A i \in 0 .. W : i \in S
  <2> HIDE DEF S
  <2> QED BY <1>4, <1>5, BitInduction
<1>7. v[W] = (2^k * w[W]) + v[k] /\ w[W] \in Int
  <2>1. Top(W) = W /\ W \in 0 .. W
    BY <1>0, WAssumption
  <2>2. w[W] \in Nat
    BY <1>3, <2>1
  <2>3. v[W] = v[k] + (2^k * w[W])
    BY <1>6, <2>1
  <2> QED BY <1>0, <1>3, <2>2, <2>3
<1>8. ((2^k * w[W]) + v[k]) \div 2^k = w[W]
  BY <1>0, <1>3, <1>7, DivUnique
<1> QED BY <1>1, <1>2, <1>7, <1>8

LEMMA MulValue ==
  ASSUME NEW a \in Word, NEW b \in Word
  PROVE  ToNat(Mul(a, b)) = (ToNat(a) * ToNat(b)) % 2^W
<1>1. PICK s \in [0 .. W -> Word] :
        /\ s[0] = Zero
        /\ \A i \in Bit : s[i + 1] = IF b[i] THEN Add(s[i], Shl(a, i)) ELSE s[i]
        /\ Mul(a, b) = s[W]
  BY MulSums
<1>2. PICK v : IsValue(v, b) /\ ToNat(b) = v[W]
  BY Values
<1> DEFINE A == ToNat(a)
           M == 2^W
<1>3. A \in Nat /\ M \in Nat \ {0} /\ ToNat(a) = A
  BY ToNatFacts
<1> HIDE DEF A
<1> DEFINE S == {i \in 0 .. W : ToNat(s[i]) = (A * v[i]) % M}
<1>4. 0 \in S
  <2>1. A * v[0] = (M * 0) + 0 /\ 0 \in 0 .. (M - 1)
    BY <1>2, <1>3 DEF IsValue
  <2>2. ((M * 0) + 0) % M = 0
    BY <1>3, <2>1, ModUnique
  <2> QED BY <1>1, <2>1, <2>2, ZeroValue, WAssumption
<1>5. ASSUME NEW i \in Bit, i \in S PROVE i + 1 \in S
  <2>1. i \in Nat /\ i \in 0 .. W /\ i + 1 \in 0 .. W
    BY WAssumption DEF Bit
  <2>2. 2^i \in Nat /\ v[i] \in Nat /\ v[i + 1] = v[i] + (IF b[i] THEN 2^i ELSE 0)
    BY <1>2, <2>1, TwoPowers DEF IsValue
  <2>3. CASE ~ b[i]
    BY <1>1, <1>5, <2>1, <2>2, <2>3
  <2>4. CASE b[i]
    <3> DEFINE x == A * v[i]
               y == A * 2^i
    <3>1. x \in Int /\ y \in Int /\ A * v[i + 1] = x + y
      BY <1>3, <2>2, <2>4
    <3>2. s[i] \in Word /\ Shl(a, i) \in Word
      BY <1>1, <2>1, WordClosure
    <3>3. ToNat(s[i + 1]) = (ToNat(s[i]) + ToNat(Shl(a, i))) % M
      BY <1>1, <2>4, <3>2, AddValue
    <3>4. ToNat(s[i]) = x % M
      BY <1>5
    <3>5. ToNat(Shl(a, i)) = y % M
      BY <1>3, <2>1, ShlValue
    <3> HIDE DEF x, y, M, S
    <3>6. x % M \in Int /\ y % M \in Int
      BY <1>3, <3>1, DivMod
    <3>7. ((x % M) + (y % M)) % M = (x + y) % M
      <4>1. \A p, q \in Int : ((p % M) + q) % M = (p + q) % M
        BY <1>3, ModAdd
      <4>2. ((x % M) + (y % M)) % M = (x + (y % M)) % M
        BY <3>1, <3>6, <4>1, Zenon
      <4>3. ((y % M) + x) % M = (y + x) % M
        BY <3>1, <4>1, Zenon
      <4>4. x + (y % M) = (y % M) + x /\ y + x = x + y
        BY <3>1, <3>6
      <4> QED BY <4>2, <4>3, <4>4
    <3>8. ToNat(s[i + 1]) = (A * v[i + 1]) % M
      BY <3>1, <3>3, <3>4, <3>5, <3>7
    <3> QED BY <2>1, <3>8 DEF S
  <2> QED BY <2>3, <2>4
<1>6. \A i \in 0 .. W : i \in S
  <2> HIDE DEF S
  <2> QED BY <1>4, <1>5, BitInduction
<1>7. ToNat(s[W]) = (A * v[W]) % M
  BY <1>6, WAssumption
<1> QED BY <1>1, <1>2, <1>3, <1>7

\* Bit by bit, a ^ b is a | b without a & b.
LEMMA XorValue ==
  ASSUME NEW a \in Word, NEW b \in Word
  PROVE  ToNat(Xor(a, b)) = ToNat(Or(a, b)) - ToNat(And(a, b))
<1>1. Xor(a, b) \in Word /\ Or(a, b) \in Word /\ And(a, b) \in Word
  BY WordClosure
<1>2. PICK x : IsValue(x, Xor(a, b)) /\ ToNat(Xor(a, b)) = x[W]
  BY <1>1, Values
<1>3. PICK y : IsValue(y, Or(a, b)) /\ ToNat(Or(a, b)) = y[W]
  BY <1>1, Values
<1>4. PICK z : IsValue(z, And(a, b)) /\ ToNat(And(a, b)) = z[W]
  BY <1>1, Values
<1> DEFINE S == {i \in 0 .. W : x[i] + z[i] = y[i]}
<1>5. 0 \in S
  BY <1>2, <1>3, <1>4, WAssumption DEF IsValue
<1>6. ASSUME NEW i \in Bit, i \in S PROVE i + 1 \in S
  <2>1. i \in Nat /\ i \in 0 .. W /\ i + 1 \in 0 .. W /\ 2^i \in Nat
    BY WAssumption, TwoPowers DEF Bit
  <2>2. x[i] \in Nat /\ y[i] \in Nat /\ z[i] \in Nat /\ x[i] + z[i] = y[i]
    BY <1>2, <1>3, <1>4, <1>6, <2>1 DEF IsValue
  <2>3. /\ x[i + 1] = x[i] + (IF a[i] # b[i] THEN 2^i ELSE 0)
        /\ y[i + 1] = y[i] + (IF a[i] \/ b[i] THEN 2^i ELSE 0)
        /\ z[i + 1] = z[i] + (IF a[i] /\ b[i] THEN 2^i ELSE 0)
    BY <1>2, <1>3, <1>4 DEF IsValue, Xor, Or, And
  <2>4. a[i] \in BOOLEAN /\ b[i] \in BOOLEAN
    BY DEF Word
  <2>5. x[i + 1] + z[i + 1] = y[i + 1]
    <3> DEFINE p == 2^i
    <3>1. CASE a[i] = TRUE /\ b[i] = TRUE
      <4>1. x[i + 1] = x[i] + 0 /\ y[i + 1] = y[i] + p /\ z[i + 1] = z[i] + p
        BY <2>3, <3>1
      <4> QED BY <2>1, <2>2, <4>1
    <3>2. CASE a[i] = FALSE /\ b[i] = FALSE
      <4>1. x[i + 1] = x[i] + 0 /\ y[i + 1] = y[i] + 0 /\ z[i + 1] = z[i] + 0
        BY <2>3, <3>2
      <4> QED BY <2>1, <2>2, <4>1
    <3>3. CASE a[i] # b[i]
      <4>1. x[i + 1] = x[i] + p /\ y[i + 1] = y[i] + p /\ z[i + 1] = z[i] + 0
        BY <2>3, <2>4, <3>3
      <4> QED BY <2>1, <2>2, <4>1
    <3> QED BY <2>4, <3>1, <3>2, <3>3
  <2> QED BY <2>1, <2>5
<1>7. \A i \in 0 .. W : i \in S
  <2> HIDE DEF S
  <2> QED BY <1>5, <1>6, BitInduction
<1>8. W \in 0 .. W /\ x[W] \in Nat /\ y[W] \in Nat /\ z[W] \in Nat
  BY <1>2, <1>3, <1>4, WAssumption DEF IsValue
<1>9. x[W] + z[W] = y[W]
  BY <1>7, <1>8
<1>10. x[W] = y[W] - z[W]
  BY <1>8, <1>9
<1> QED BY <1>2, <1>3, <1>4, <1>10

\* The number a word stands for, and any that is a multiple of 2^W more, is
\* converted back to it.
LEMMA Roundtrip ==
  ASSUME NEW a \in Word, NEW q \in Nat
  PROVE  FromNat(ToNat(a) + (2^W * q)) = a
<1> DEFINE n == ToNat(a) + (2^W * q)
<1>1. 2^W \in Nat \ {0} /\ ToNat(a) \in 0 .. (2^W - 1)
  BY ToNatFacts
<1>2. n \in Nat
  BY <1>1
<1>3. n % 2^W = ToNat(a)
  <2> DEFINE r == ToNat(a)
             M == 2^W
  <2>1. r \in 0 .. (M - 1) /\ M \in Nat \ {0} /\ n = (M * q) + r
    BY <1>1
  <2> HIDE DEF r, M, n
  <2>2. ((M * q) + r) % M = r
    BY <2>1, ModUnique
  <2>3. n % M = r
    BY <2>1, <2>2
  <2> QED BY <2>3 DEF r, M
<1> HIDE DEF n
<1>4. FromNat(n) \in Word /\ ToNat(FromNat(n)) = ToNat(a)
  BY <1>2, <1>3, FromNatValue
<1>5. FromNat(n) = a
  BY <1>4, ToNatFacts
<1> QED BY <1>5 DEF n

\* The bits of a rotated word.
LEMMA RotlBits ==
  ASSUME NEW a \in Word, NEW k \in 0 .. W, NEW i \in Bit
  PROVE  /\ rotl(a, k)[i] = IF i >= k THEN a[i - k] ELSE a[i + (W - k)]
         /\ IF i >= k THEN i - k \in Bit ELSE i + (W - k) \in Bit
<1>1. \A j \in Bit : a[j] \in BOOLEAN
  BY DEF Word
<1>2. rotl(a, k)[i] = (Shl(a, k)[i] \/ Shr(a, W - k)[i])
  BY DEF rotl, Or
<1>3. /\ Shl(a, k)[i] = (i >= k /\ a[i - k])
      /\ Shr(a, W - k)[i] = (i + (W - k) < W /\ a[i + (W - k)])
  BY DEF Shl, Shr
<1>4. CASE i >= k
  <2>1. i - k \in Bit /\ ~(i + (W - k) < W)
    BY <1>4, WAssumption DEF Bit
  <2> QED BY <1>1, <1>2, <1>3, <1>4, <2>1
<1>5. CASE ~(i >= k)
  <2>1. i + (W - k) \in Bit /\ i + (W - k) < W
    BY <1>5, WAssumption DEF Bit
  <2> QED BY <1>1, <1>2, <1>3, <1>5, <2>1
<1> QED BY <1>4, <1>5

\* A rotation by k is undone by one of W - k.
LEMMA RotlBack ==
  ASSUME NEW a \in Word, NEW k \in 0 .. W
  PROVE  rotl(rotl(a, k), W - k) = a
<1>1. rotl(a, k) \in Word /\ rotl(rotl(a, k), W - k) \in Word /\ W - k \in 0 .. W /\ W - (W - k) = k
  BY WordClosure, WAssumption
<1>2. ASSUME NEW i \in Bit PROVE rotl(rotl(a, k), W - k)[i] = a[i]
  <2> DEFINE j == IF i >= W - k THEN i - (W - k) ELSE i + k
  <2>1. j \in Bit /\ rotl(rotl(a, k), W - k)[i] = rotl(a, k)[j]
    BY <1>1, RotlBits
  <2>2. (IF j >= k THEN j - k ELSE j + (W - k)) = i
    BY WAssumption DEF Bit
  <2>3. rotl(a, k)[j] = a[IF j >= k THEN j - k ELSE j + (W - k)]
    <3> HIDE DEF j
    <3> QED BY <2>1, RotlBits
  <2> QED BY <2>1, <2>2, <2>3
<1> QED BY <1>1, <1>2, WordExtensional

-----------------------------------------------------------------------------
\* The only odd number that divides 2^n is 1.
LEMMA TwoPowerIsPowerOfTwo ==
  ASSUME NEW n \in Nat
  PROVE  PowerOfTwo(2^n)
<1> DEFINE S == {k \in 0 .. n : \A d, e \in Nat : d * e = 2^k /\ d % 2 = 1 => d = 1}
<1>1. 0 \in S
  <2>1. \A d, e \in Nat : d * e = 1 => d = 1
    OBVIOUS
  <2>2. 2^0 = 1
    BY TwoPowers
  <2> QED BY <2>1, <2>2
<1>2. ASSUME NEW k \in 0 .. (n - 1), k \in S PROVE k + 1 \in S
  <2>1. k + 1 \in 0 .. n /\ k \in Nat
    OBVIOUS
  <2>2. 2^k \in Nat /\ 2^(k + 1) = 2 * 2^k
    BY <2>1, TwoPowers
  <2>3. ASSUME NEW d \in Nat, NEW e \in Nat, d * e = 2^(k + 1), d % 2 = 1 PROVE d = 1
    <3>1. PICK c \in Nat : d = (2 * c) + 1
      <4>1. d \div 2 \in Nat /\ d = (2 * (d \div 2)) + (d % 2)
        OBVIOUS
      <4> QED BY <2>3, <4>1
    <3>2. (2 * (c * e)) + e = 2 * 2^k
      <4>1. \A x, y \in Nat : ((2 * x) + 1) * y = (2 * (x * y)) + y
        OBVIOUS
      <4> QED BY <2>2, <2>3, <3>1, <4>1
    <3>3. PICK f \in Nat : e = 2 * f
      <4> DEFINE p == c * e
      <4>1. p \in Nat /\ (2 * p) + e = 2 * 2^k
        BY <3>2
      <4> HIDE DEF p
      <4>2. e = 2 * (2^k - p) /\ 2^k - p \in Nat
        BY <2>2, <4>1
      <4> QED BY <4>2
    <3>4. d * f = 2^k
      <4>1. \A x, y \in Nat : x * (2 * y) = 2 * (x * y)
        OBVIOUS
      <4>2. 2 * (d * f) = 2 * 2^k
        BY <2>2, <2>3, <3>3, <4>1
      <4>3. d * f \in Nat
        OBVIOUS
      <4> QED BY <2>2, <4>2, <4>3
    <3> QED BY <1>2, <2>3, <3>4
  <2> QED BY <2>1, <2>3
<1>3. \A k \in 0 .. n : k \in S
  <2> HIDE DEF S
  <2> QED BY <1>1, <1>2, UpTo
<1>4. \A d, e \in Nat : d * e = 2^n /\ d % 2 = 1 => d = 1
  <2>1. n \in S
    <3> HIDE DEF S
    <3> QED BY <1>3
  <2> QED BY <2>1
<1>5. 2^n \in Nat \ {0}
  BY TwoPowers
<1>6. ASSUME NEW d \in 2 .. 2^n, 2^n % d = 0 PROVE d % 2 = 0
  <2>1. d \in Nat \ {0}
    BY <1>5
  <2>2. PICK e \in Int : 2^n = d * e
    <3> DEFINE p == 2^n
    <3>1. p \in Int /\ p % d = 0
      BY <1>5, <1>6
    <3> HIDE DEF p
    <3>2. \E e \in Int : p = d * e
      BY <2>1, <3>1, ModMultiple
    <3> QED BY <3>2 DEF p
  <2>3. e \in Nat
    BY <1>5, <2>1, <2>2
  <2>4. d % 2 # 1
    BY <1>4, <2>1, <2>2, <2>3
  <2>5. d % 2 \in {0, 1}
    BY <2>1
  <2> QED BY <2>4, <2>5
<1> QED BY <1>5, <1>6 DEF PowerOfTwo

\* Each of these steps takes a word to zero only from zero.
LEMMA ZeroFromZero ==
  ASSUME NEW a \in Word
  PROVE  /\ \A k \in Nat \ {0} : /\ Xor(a, Shl(a, k)) = Zero <=> a = Zero
                                 /\ Xor(a, Shr(a, k)) = Zero <=> a = Zero
         /\ \A k \in 0 .. W : rotl(a, k) = Zero <=> a = Zero
         /\ Xor(Zero, a) = a /\ Xor(a, Zero) = a
         /\ \A b \in Word : Xor(a, b) = Zero <=> a = b
<1>1. Zero \in Word /\ \A k \in Nat : Shl(Zero, k) = Zero /\ Shr(Zero, k) = Zero /\ Xor(Zero, Zero) = Zero
  BY WordClosure, ZeroStaysZero
<1>2. ASSUME NEW k \in Nat \ {0}
      PROVE  /\ Xor(a, Shl(a, k)) = Zero <=> a = Zero
             /\ Xor(a, Shr(a, k)) = Zero <=> a = Zero
  <2>1. Xor(Zero, Shl(Zero, k)) = Zero /\ Xor(Zero, Shr(Zero, k)) = Zero
    BY <1>1
  <2>2. Xor(a, Shl(a, k)) = Xor(Zero, Shl(Zero, k)) => a = Zero
    BY <1>1, XorShlInjective
  <2>3. Xor(a, Shr(a, k)) = Xor(Zero, Shr(Zero, k)) => a = Zero
    BY <1>1, XorShrInjective
  <2> QED BY <2>1, <2>2, <2>3
<1>3. ASSUME NEW k \in 0 .. W PROVE rotl(a, k) = Zero <=> a = Zero
  <2>1. rotl(Zero, k) = Zero
    <3>1. \A i \in Bit : rotl(Zero, k)[i] = Zero[i]
      BY <1>1, RotlBits DEF Zero
    <3> QED BY <1>1, <3>1, WordClosure, WordExtensional
  <2>2. rotl(a, k) = rotl(Zero, k) => a = Zero
    BY <1>1, RotlInjective
  <2> QED BY <2>1, <2>2
<1>4. Xor(Zero, a) = a /\ Xor(a, Zero) = a
  <2>1. \A i \in Bit : a[i] \in BOOLEAN /\ Zero[i] = FALSE
    BY DEF Word, Zero
  <2>2. \A i \in Bit : Xor(Zero, a)[i] = a[i] /\ Xor(a, Zero)[i] = a[i]
    BY <2>1 DEF Xor
  <2> QED BY <2>2, WordClosure, WordExtensional
<1>5. ASSUME NEW b \in Word PROVE Xor(a, b) = Zero <=> a = b
  <2>1. \A i \in Bit : a[i] \in BOOLEAN /\ b[i] \in BOOLEAN
    BY DEF Word
  <2>2. \A i \in Bit : Xor(a, b)[i] = (a[i] # b[i]) /\ Zero[i] = FALSE
    BY DEF Xor, Zero
  <2>3. ASSUME Xor(a, b) = Zero PROVE a = b
    <3>1. \A i \in Bit : a[i] = b[i]
      BY <2>1, <2>2, <2>3
    <3> QED BY <3>1, WordExtensional
  <2>4. ASSUME a = b PROVE Xor(a, b) = Zero
    <3>1. \A i \in Bit : Xor(a, b)[i] = Zero[i]
      BY <2>1, <2>2, <2>4
    <3> QED BY <1>1, <3>1, WordClosure, WordExtensional
  <2> QED BY <2>3, <2>4
<1> QED BY <1>2, <1>3, <1>4, <1>5

LEMMA AddZero ==
  ASSUME NEW a \in Word
  PROVE  Add(a, Zero) = a /\ Add(Zero, a) = a
<1>1. Zero \in Word /\ Add(a, Zero) \in Word /\ Add(Zero, a) \in Word
  BY WordClosure
<1>2. ToNat(a) \in 0 .. (2^W - 1) /\ 2^W \in Nat \ {0} /\ ToNat(Zero) = 0
  BY ToNatFacts, ZeroValue
<1>3. ToNat(a) % 2^W = ToNat(a)
  <2> DEFINE x == ToNat(a)
             M == 2^W
  <2>1. x \in 0 .. (M - 1) /\ M \in Nat \ {0}
    BY <1>2
  <2> HIDE DEF x, M
  <2>2. ((M * 0) + x) % M = x /\ (M * 0) + x = x
    BY <2>1, ModUnique
  <2>3. x % M = x
    BY <2>2
  <2> QED BY <2>3 DEF x, M
<1>4. ToNat(Add(a, Zero)) = ToNat(a) /\ ToNat(Add(Zero, a)) = ToNat(a)
  <2>1. ToNat(a) + 0 = ToNat(a) /\ 0 + ToNat(a) = ToNat(a)
    BY <1>2
  <2>2. /\ ToNat(Add(a, Zero)) = (ToNat(a) + ToNat(Zero)) % 2^W
        /\ ToNat(Add(Zero, a)) = (ToNat(Zero) + ToNat(a)) % 2^W
    BY <1>1, AddValue
  <2> QED BY <1>2, <1>3, <2>1, <2>2
<1> QED BY <1>1, <1>4, ToNatFacts

\* ~a + 1 is -a.
LEMMA NotValue ==
  ASSUME NEW a \in Word, NEW n \in Word, \A i \in Bit : n[i] = ~ a[i]
  PROVE  ToNat(n) = (2^W - 1) - ToNat(a)
<1>1. PICK v : IsValue(v, a) /\ ToNat(a) = v[W]
  BY Values
<1>2. PICK w : IsValue(w, n) /\ ToNat(n) = w[W]
  BY Values
<1> DEFINE S == {i \in 0 .. W : v[i] + w[i] = 2^i - 1}
<1>3. 0 \in S
  BY <1>1, <1>2, TwoPowers, WAssumption DEF IsValue
<1>4. ASSUME NEW i \in Bit, i \in S PROVE i + 1 \in S
  <2>1. i \in Nat /\ i \in 0 .. W /\ i + 1 \in 0 .. W
    BY WAssumption DEF Bit
  <2>2. 2^i \in Nat /\ 2^(i + 1) = 2 * 2^i /\ v[i] \in Nat /\ w[i] \in Nat
    BY <1>1, <1>2, <2>1, TwoPowers DEF IsValue
  <2>3. /\ v[i + 1] = v[i] + (IF a[i] THEN 2^i ELSE 0)
        /\ w[i + 1] = w[i] + (IF n[i] THEN 2^i ELSE 0)
    BY <1>1, <1>2 DEF IsValue
  <2>4. v[i + 1] + w[i + 1] = (v[i] + w[i]) + 2^i
    <3>1. CASE a[i]
      <4>1. ~ n[i]
        BY <3>1
      <4>2. v[i + 1] = v[i] + 2^i /\ w[i + 1] = w[i] + 0
        BY <2>3, <3>1, <4>1
      <4> QED BY <2>2, <4>2
    <3>2. CASE ~ a[i]
      <4>1. n[i]
        BY <3>2
      <4>2. v[i + 1] = v[i] + 0 /\ w[i + 1] = w[i] + 2^i
        BY <2>3, <3>2, <4>1
      <4> QED BY <2>2, <4>2
    <3> QED BY <3>1, <3>2
  <2> QED BY <1>4, <2>1, <2>2, <2>4
<1>5. \A i \in 0 .. W : i \in S
  <2> HIDE DEF S
  <2> QED BY <1>3, <1>4, BitInduction
<1>6. v[W] + w[W] = 2^W - 1 /\ v[W] \in Nat /\ w[W] \in Nat /\ 2^W \in Nat
  BY <1>1, <1>2, <1>5, WAssumption, TwoPowers DEF IsValue
<1>7. w[W] = (2^W - 1) - v[W]
  BY <1>6
<1> QED BY <1>1, <1>2, <1>7
=============================================================================
