--------------------------- MODULE ModArith_proof ---------------------------
(***************************************************************************)
(* The theorems of ModArith, for every word size: first what a remainder is, *)
(* then what each function of rat3f-hc.c computes, then the invariants.      *)
(***************************************************************************)
EXTENDS ModArith, TLAPS

(***************************************************************************)
(* Remainders.                                                             *)
(***************************************************************************)

LEMMA Division ==
  ASSUME NEW x \in Int, NEW m \in Nat, m > 0
  PROVE  /\ x \div m \in Int /\ x % m \in Int
         /\ x % m >= 0 /\ x % m < m
         /\ x = m * (x \div m) + (x % m)
<1>1. x \div m \in Int OBVIOUS
<1>2. x % m \in Int OBVIOUS
<1>3. x % m >= 0 OBVIOUS
<1>4. x % m < m OBVIOUS
<1>5. x = m * (x \div m) + (x % m) OBVIOUS
<1> QED BY <1>1, <1>2, <1>3, <1>4, <1>5

LEMMA RemainderUnique ==
  ASSUME NEW m \in Nat, m > 0, NEW k \in Int, NEW j \in Int,
         NEW r \in Int, NEW q \in Int, r >= 0, r < m, q >= 0, q < m,
         m * j + q = m * k + r
  PROVE  q = r /\ j = k
<1>1. CASE j >= k + 1
  <2>1. m * j >= m * (k + 1) BY <1>1
  <2>2. m * (k + 1) = m * k + m OBVIOUS
  <2> QED BY <2>1, <2>2
<1>2. CASE j + 1 <= k
  <2>1. m * k >= m * (j + 1) BY <1>2
  <2>2. m * (j + 1) = m * j + m OBVIOUS
  <2> QED BY <2>1, <2>2
<1>3. CASE j = k BY <1>3
<1> QED BY <1>1, <1>2, <1>3

(* A number and the number plus a multiple of m have the same remainder. *)
LEMMA Shift ==
  ASSUME NEW x \in Int, NEW m \in Nat, m > 0, NEW k \in Int
  PROVE  (x + m * k) % m = x % m
<1> DEFINE y == x + m * k
<1>0. y \in Int OBVIOUS
<1>1. x = m * (x \div m) + (x % m) /\ x \div m \in Int /\ x % m \in Int /\ x % m >= 0 /\ x % m < m
  BY Division
<1>2. y = m * (y \div m) + (y % m) /\ y \div m \in Int /\ y % m \in Int /\ y % m >= 0 /\ y % m < m
  BY <1>0, Division
<1>3. m * (x \div m) + m * k = m * ((x \div m) + k) BY <1>1
<1>4. y = m * ((x \div m) + k) + (x % m) BY <1>1, <1>3
<1>5. (x \div m) + k \in Int BY <1>1
<1> HIDE DEF y
<1>6. y % m = x % m BY ONLY <1>0, <1>1, <1>2, <1>4, <1>5, RemainderUnique, m \in Nat, m > 0
<1> QED BY <1>6 DEF y

LEMMA SmallRemainder ==
  ASSUME NEW x \in Int, NEW m \in Nat, m > 0, x >= 0, x < m
  PROVE  x % m = x
OBVIOUS

(* Remainders can be taken before adding, subtracting and multiplying. *)
LEMMA SumOfRemainders ==
  ASSUME NEW a \in Int, NEW b \in Int, NEW m \in Nat, m > 0
  PROVE  /\ (a + b) % m = ((a % m) + (b % m)) % m
         /\ (a - b) % m = ((a % m) - (b % m)) % m
<1> DEFINE i == a \div m  j == b \div m  r == a % m  s == b % m
<1>1. i \in Int /\ r \in Int /\ a = m * i + r BY Division
<1>2. j \in Int /\ s \in Int /\ b = m * j + s BY Division
<1> HIDE DEF i, j, r, s
<1>3. a + b = (r + s) + m * (i + j) BY <1>1, <1>2
<1>4. a - b = (r - s) + m * (i - j) BY <1>1, <1>2
<1>5. (r + s) \in Int /\ (r - s) \in Int /\ (i + j) \in Int /\ (i - j) \in Int BY <1>1, <1>2
<1>6. ((r + s) + m * (i + j)) % m = (r + s) % m BY <1>5, Shift
<1>7. ((r - s) + m * (i - j)) % m = (r - s) % m BY <1>5, Shift
<1> QED BY <1>3, <1>4, <1>6, <1>7 DEF r, s

LEMMA ProductOfRemainders ==
  ASSUME NEW a \in Int, NEW b \in Int, NEW m \in Nat, m > 0
  PROVE  (a * b) % m = ((a % m) * (b % m)) % m
<1> DEFINE i == a \div m  j == b \div m  r == a % m  s == b % m
<1>1. i \in Int /\ r \in Int /\ a = m * i + r BY Division
<1>2. j \in Int /\ s \in Int /\ b = m * j + s BY Division
<1> HIDE DEF i, j, r, s
<1>3. a * b = r * s + m * (i * b + r * j)
  <2>1. a * b = (m * i + r) * b BY <1>1
  <2>2. (m * i + r) * b = m * (i * b) + r * b BY <1>1
  <2>3. r * b = r * (m * j + s) BY <1>2
  <2>4. r * (m * j + s) = m * (r * j) + r * s BY <1>1, <1>2
  <2>5. m * (i * b) + m * (r * j) = m * (i * b + r * j) BY <1>1, <1>2
  <2>6. i * b \in Int /\ r * j \in Int /\ r * s \in Int BY <1>1, <1>2
  <2> QED BY <2>1, <2>2, <2>3, <2>4, <2>5, <2>6
<1>4. (r * s) \in Int /\ (i * b + r * j) \in Int BY <1>1, <1>2
<1>5. (r * s + m * (i * b + r * j)) % m = (r * s) % m BY <1>4, Shift
<1> QED BY <1>3, <1>5 DEF r, s

(***************************************************************************)
(* The functions of rat3f-hc.c.                                            *)
(***************************************************************************)

LEMMA NegatedRemainder ==
  ASSUME NEW x \in Int, NEW m \in Nat, m > 0
  PROVE  (-((-x) % m)) % m = x % m
<1> DEFINE y == -x  r == y % m  q == y \div m  k == -q
<1>0. y \in Int OBVIOUS
<1>1. y = m * q + r /\ q \in Int /\ r \in Int BY <1>0, Division
<1> HIDE DEF r, q
<1>2. k \in Int /\ -r \in Int BY <1>1
<1>3. m * k = -(m * q) BY <1>1
<1>4. x = (-r) + m * k BY <1>1, <1>3
<1> HIDE DEF k, y
<1>5. ((-r) + m * k) % m = (-r) % m BY <1>2, Shift
<1> QED BY <1>4, <1>5 DEF r, y

(* The remainder of C is smaller than the modulus and has the sign of x. *)
LEMMA CRemFacts ==
  ASSUME NEW x \in Int, NEW m \in Nat, m > 0
  PROVE  /\ CRem(x, m) \in Int /\ CRem(x, m) % m = x % m
         /\ -(m - 1) <= CRem(x, m) /\ CRem(x, m) <= m - 1
         /\ x >= 0 => CRem(x, m) >= 0
<1>1. CASE x >= 0
  <2>1. CRem(x, m) = x % m BY <1>1 DEF CRem
  <2>2. x % m \in Int /\ x % m >= 0 /\ x % m < m BY Division
  <2>3. (x % m) % m = x % m BY <2>2, SmallRemainder
  <2> QED BY <2>1, <2>2, <2>3
<1>2. CASE ~(x >= 0)
  <2>1. CRem(x, m) = -((-x) % m) BY <1>2 DEF CRem
  <2>2. (-x) % m \in Int /\ (-x) % m >= 0 /\ (-x) % m < m BY Division, -x \in Int
  <2>3. (-((-x) % m)) % m = x % m BY NegatedRemainder
  <2> QED BY <1>2, <2>1, <2>2, <2>3
<1> QED BY <1>1, <1>2

LEMMA HalfOf ==
  ASSUME NEW m \in Nat
  PROVE  m \div 2 \in Nat /\ 2 * (m \div 2) <= m /\ m <= 2 * (m \div 2) + 1
OBVIOUS

LEMMA AddModulus ==
  ASSUME NEW x \in Int, NEW m \in Nat, m > 0
  PROVE  (x - m) % m = x % m /\ (x + m) % m = x % m
<1>1. (x + m * (-1)) % m = x % m BY Shift
<1>2. (x + m * 1) % m = x % m BY Shift
<1>3. x + m * (-1) = x - m /\ x + m * 1 = x + m OBVIOUS
<1> QED BY <1>1, <1>2, <1>3

LEMMA FixModFacts ==
  ASSUME NEW x \in Int, NEW m \in Nat, m > 0, -(m - 1) <= x, x <= m - 1
  PROVE  /\ FIX_MOD(x, m) \in Int /\ FIX_MOD(x, m) % m = x % m
         /\ -(m \div 2) <= FIX_MOD(x, m) /\ FIX_MOD(x, m) <= m \div 2
<1> DEFINE h == m \div 2
<1>1. h \in Nat /\ 2 * h <= m /\ m <= 2 * h + 1 BY HalfOf
<1>2. (x - m) % m = x % m /\ (x + m) % m = x % m BY AddModulus
<1>3. FIX_MOD(x, m) = IF x > h THEN x - m ELSE IF x < -h THEN x + m ELSE x BY DEF FIX_MOD
<1> HIDE DEF h
<1>4. CASE x > h BY <1>1, <1>2, <1>3, <1>4 DEF h
<1>5. CASE ~(x > h) /\ x < -h BY <1>1, <1>2, <1>3, <1>5 DEF h
<1>6. CASE ~(x > h) /\ ~(x < -h) BY <1>1, <1>2, <1>3, <1>6 DEF h
<1> QED BY <1>4, <1>5, <1>6

(* FIX_MOD of a remainder, as mcmod, ctimes, cplus and cdifference use it. *)
LEMMA FixedRemainder ==
  ASSUME NEW x \in Int, NEW m \in Nat, m > 0
  PROVE  /\ FIX_MOD(CRem(x, m), m) \in Int /\ FIX_MOD(CRem(x, m), m) % m = x % m
         /\ -(m \div 2) <= FIX_MOD(CRem(x, m), m) /\ FIX_MOD(CRem(x, m), m) <= m \div 2
<1> DEFINE r == CRem(x, m)
<1>1. r \in Int /\ r % m = x % m /\ -(m - 1) <= r /\ r <= m - 1 BY CRemFacts
<1> HIDE DEF r
<1>2. /\ FIX_MOD(r, m) \in Int /\ FIX_MOD(r, m) % m = r % m
      /\ -(m \div 2) <= FIX_MOD(r, m) /\ FIX_MOD(r, m) <= m \div 2
  BY <1>1, FixModFacts
<1> QED BY <1>1, <1>2 DEF r

LEMMA WrapOfWord ==
  ASSUME NEW x \in Fix
  PROVE  Wrap(x) = x
<1>1. x \in Int /\ x + Half \in Int /\ x + Half >= 0 /\ x + Half < 2 * Half
  BY ModArithAssumption DEF Fix
<1>2. 2 * Half \in Nat /\ 2 * Half > 0 BY ModArithAssumption
<1>3. (x + Half) % (2 * Half) = x + Half BY <1>1, <1>2, SmallRemainder
<1> QED BY <1>1, <1>3, ModArithAssumption DEF Wrap

LEMMA WrapType == ASSUME NEW x \in Int PROVE Wrap(x) \in Int
<1>1. 2 * Half \in Nat /\ 2 * Half > 0 /\ x + Half \in Int BY ModArithAssumption
<1>2. (x + Half) % (2 * Half) \in Int BY <1>1, Division
<1> QED BY <1>2, ModArithAssumption DEF Wrap

(* The digits of a sum of two words that is no word. *)
LEMMA Digits ==
  ASSUME NEW x \in Int, -(2 * Half) <= x, x < 2 * Half, x \notin Fix
  PROVE  /\ x >= Half => bignum2(1, Wrap(x) % Half) = x
         /\ x < 0 => bignum2(-2, Wrap(x) % Half) = x
         /\ x >= Half \/ x < -Half
<1> DEFINE w == 2 * Half
<1>1. Half \in Nat /\ Half > 0 /\ w \in Nat /\ w > 0 BY ModArithAssumption
<1>2. CASE x >= Half
  <2>1. (x + Half) % w = x - Half
    <3>1. x - Half \in Int /\ x - Half >= 0 /\ x - Half < w BY <1>1, <1>2
    <3>2. x + Half = (x - Half) + w * 1 BY <1>1
    <3>3. ((x - Half) + w * 1) % w = (x - Half) % w BY <1>1, <3>1, Shift
    <3>4. (x - Half) % w = x - Half BY <1>1, <3>1, SmallRemainder
    <3> QED BY <3>2, <3>3, <3>4
  <2>2. Wrap(x) = x - w BY <1>1, <2>1 DEF Wrap
  <2>3. x - w = (x - Half) + Half * (-1) BY <1>1
  <2>4. x - Half \in Int /\ x - Half >= 0 /\ x - Half < Half BY <1>1, <1>2
  <2>5. ((x - Half) + Half * (-1)) % Half = (x - Half) % Half BY <1>1, <2>4, Shift
  <2>6. (x - Half) % Half = x - Half BY <1>1, <2>4, SmallRemainder
  <2>7. Wrap(x) % Half = x - Half BY <2>2, <2>3, <2>5, <2>6
  <2> QED BY <1>1, <1>2, <2>7 DEF bignum2
<1>3. CASE x < -Half
  <2>1. (x + Half) % w = x + Half + w
    <3>1. x + Half + w \in Int /\ x + Half + w >= 0 /\ x + Half + w < w BY <1>1, <1>3
    <3>2. x + Half \in Int BY <1>1
    <3>3. ((x + Half) + w * 1) % w = (x + Half) % w BY <1>1, <3>2, Shift
    <3>4. (x + Half + w) % w = x + Half + w BY <1>1, <3>1, SmallRemainder
    <3>5. (x + Half) + w * 1 = x + Half + w BY <1>1
    <3> QED BY <3>3, <3>4, <3>5
  <2>2. Wrap(x) = x + w BY <1>1, <2>1 DEF Wrap
  <2>3. x + w \in Int /\ x + w >= 0 /\ x + w < Half BY <1>1, <1>3
  <2>4. (x + w) % Half = x + w BY <1>1, <2>3, SmallRemainder
  <2>5. Wrap(x) % Half = x + w BY <2>2, <2>4
  <2> QED BY <1>1, <1>3, <2>5 DEF bignum2
<1> QED BY <1>1, <1>2, <1>3 DEF Fix

(* fplus and fminus are exact. *)
LEMMA WordSum ==
  ASSUME NEW a \in Fix, NEW b \in Fix
  PROVE  fplus(a, b) = a + b /\ fminus(a, b) = a - b
<1>1. /\ a \in Int /\ -Half <= a /\ a < Half /\ b \in Int /\ -Half <= b /\ b < Half
      /\ Half \in Nat /\ Half > 0
  BY ModArithAssumption DEF Fix
<1>2. fplus(a, b) = a + b
  <2> DEFINE x == a + b
  <2>1. x \in Int /\ -(2 * Half) <= x /\ x < 2 * Half /\ (b > 0 => x >= -Half) /\ (~(b > 0) => x < Half)
    BY <1>1
  <2>2. fplus(a, b) = IF x \in Fix THEN x ELSE bignum2(IF b > 0 THEN 1 ELSE -2, Wrap(x) % Half)
    BY DEF fplus, FIXNUMP
  <2> HIDE DEF x
  <2>3. CASE x \in Fix BY <2>2, <2>3 DEF x
  <2>4. CASE x \notin Fix
    <3>1. /\ x >= Half => bignum2(1, Wrap(x) % Half) = x
          /\ x < 0 => bignum2(-2, Wrap(x) % Half) = x
          /\ x >= Half \/ x < -Half
      BY <2>1, <2>4, Digits
    <3>2. CASE b > 0
      <4>1. x >= Half BY <1>1, <2>1, <3>1, <3>2
      <4> QED BY <2>2, <2>4, <3>1, <3>2, <4>1 DEF x
    <3>3. CASE ~(b > 0)
      <4>1. x < 0 BY <1>1, <2>1, <3>1, <3>3
      <4> QED BY <2>2, <2>4, <3>1, <3>3, <4>1 DEF x
    <3> QED BY <3>2, <3>3
  <2> QED BY <2>3, <2>4
<1>3. fminus(a, b) = a - b
  <2> DEFINE x == a - b
  <2>1. x \in Int /\ -(2 * Half) <= x /\ x < 2 * Half /\ (b < 0 => x >= -Half) /\ (~(b < 0) => x < Half)
    BY <1>1
  <2>2. fminus(a, b) = IF x \in Fix THEN x ELSE bignum2(IF b < 0 THEN 1 ELSE -2, Wrap(x) % Half)
    BY DEF fminus, FIXNUMP
  <2> HIDE DEF x
  <2>3. CASE x \in Fix BY <2>2, <2>3 DEF x
  <2>4. CASE x \notin Fix
    <3>1. /\ x >= Half => bignum2(1, Wrap(x) % Half) = x
          /\ x < 0 => bignum2(-2, Wrap(x) % Half) = x
          /\ x >= Half \/ x < -Half
      BY <2>1, <2>4, Digits
    <3>2. CASE b < 0
      <4>1. x >= Half BY <1>1, <2>1, <3>1, <3>2
      <4> QED BY <2>2, <2>4, <3>1, <3>2, <4>1 DEF x
    <3>3. CASE ~(b < 0)
      <4>1. x < 0 BY <1>1, <2>1, <3>1, <3>3
      <4> QED BY <2>2, <2>4, <3>1, <3>3, <4>1 DEF x
    <3> QED BY <3>2, <3>3
  <2> QED BY <2>3, <2>4
<1> QED BY <1>2, <1>3

LEMMA ModulusFacts ==
  ASSUME NEW m \in Moduls
  PROVE  /\ m \in Nat /\ (m # Nil <=> m > 0) /\ m \in Int
         /\ Half \in Nat /\ Half > 2
BY ModArithAssumption DEF Moduls, Nil

(* mcmod: congruent always, in the symmetric range but for negative bignums. *)
LEMMA McmodFacts ==
  ASSUME NEW x \in Int, NEW m \in Nat, m > 0
  PROVE  /\ mcmod(x, m) \in Int /\ mcmod(x, m) % m = x % m
         /\ -(m - 1) <= mcmod(x, m) /\ mcmod(x, m) <= m \div 2
         /\ FIXNUMP(m) /\ x >= -Half => -(m \div 2) <= mcmod(x, m)
<1> DEFINE h == m \div 2  r == CRem(x, m)
<1>1. h \in Nat /\ 2 * h <= m /\ m <= 2 * h + 1 BY HalfOf
<1>2. r \in Int /\ r % m = x % m /\ -(m - 1) <= r /\ r <= m - 1 /\ (x >= 0 => r >= 0) BY CRemFacts
<1>3. m # Nil BY DEF Nil
<1>4. CASE FIXNUMP(m) /\ FIXNUMP(x)
  <2>1. mcmod(x, m) = FIX_MOD(CRem(x, m), m) BY <1>3, <1>4 DEF mcmod
  <2>2. /\ mcmod(x, m) \in Int /\ mcmod(x, m) % m = x % m
        /\ -h <= mcmod(x, m) /\ mcmod(x, m) <= h
    BY <2>1, FixedRemainder
  <2> QED BY <1>1, <2>2
<1>5. CASE ~(FIXNUMP(m) /\ FIXNUMP(x))
  <2>1. mcmod(x, m) = IF r > h THEN r - m ELSE r BY <1>3, <1>5 DEF mcmod
  <2>2. (r - m) % m = r % m BY <1>2, AddModulus
  <2>3. FIXNUMP(m) /\ x >= -Half => x >= 0
    BY <1>5, ModArithAssumption DEF FIXNUMP, Fix
  <2> HIDE DEF h, r
  <2>4. CASE r > h
    <3>1. mcmod(x, m) = r - m BY <2>1, <2>4
    <3> QED BY <1>1, <1>2, <2>2, <2>4, <3>1 DEF h
  <2>5. CASE ~(r > h)
    <3>1. mcmod(x, m) = r BY <2>1, <2>5
    <3>2. -h <= 0 BY <1>1
    <3> QED BY <1>1, <1>2, <2>3, <2>5, <3>1, <3>2 DEF h
  <2> QED BY <2>4, <2>5
<1> QED BY <1>4, <1>5

(* Sums and differences are exact without a modulus. *)
LEMMA ExactSum ==
  ASSUME NEW a \in Int, NEW b \in Int
  PROVE  cplus(a, b, Nil) = a + b /\ cdifference(a, b, Nil) = a - b
<1>1. CASE FIXNUMP(a) /\ FIXNUMP(b)
  <2>1. fplus(a, b) = a + b /\ fminus(a, b) = a - b BY <1>1, WordSum DEF FIXNUMP
  <2> QED BY <1>1, <2>1 DEF cplus, cdifference
<1>2. CASE ~(FIXNUMP(a) /\ FIXNUMP(b)) BY <1>2 DEF cplus, cdifference
<1> QED BY <1>1, <1>2

(* With one they are in the symmetric range, and congruent unless a fixnum   *)
(* overflows.                                                               *)
LEMMA ModularSum ==
  ASSUME NEW a \in Int, NEW b \in Int, NEW m \in Nat, m > 0
  PROVE  /\ cplus(a, b, m) \in Int /\ cdifference(a, b, m) \in Int
         /\ ~FIXNUMP(m) \/ a + b \in Fix => cplus(a, b, m) % m = (a + b) % m
         /\ ~FIXNUMP(m) \/ a - b \in Fix => cdifference(a, b, m) % m = (a - b) % m
         /\ FIXNUMP(m) => /\ -(m \div 2) <= cplus(a, b, m) /\ cplus(a, b, m) <= m \div 2
                          /\ -(m \div 2) <= cdifference(a, b, m) /\ cdifference(a, b, m) <= m \div 2
<1>1. m # Nil /\ (a + b) \in Int /\ (a - b) \in Int BY DEF Nil
<1>2. CASE FIXNUMP(m)
  <2>1. /\ cplus(a, b, m) = FIX_MOD(CRem(Wrap(a + b), m), m)
        /\ cdifference(a, b, m) = FIX_MOD(CRem(Wrap(a - b), m), m)
    BY <1>1, <1>2 DEF cplus, cdifference
  <2>2. Wrap(a + b) \in Int /\ Wrap(a - b) \in Int BY <1>1, WrapType
  <2>3. /\ cplus(a, b, m) \in Int /\ cplus(a, b, m) % m = Wrap(a + b) % m
        /\ -(m \div 2) <= cplus(a, b, m) /\ cplus(a, b, m) <= m \div 2
    BY <2>1, <2>2, FixedRemainder
  <2>4. /\ cdifference(a, b, m) \in Int /\ cdifference(a, b, m) % m = Wrap(a - b) % m
        /\ -(m \div 2) <= cdifference(a, b, m) /\ cdifference(a, b, m) <= m \div 2
    BY <2>1, <2>2, FixedRemainder
  <2>5. a + b \in Fix => Wrap(a + b) = a + b BY WrapOfWord
  <2>6. a - b \in Fix => Wrap(a - b) = a - b BY WrapOfWord
  <2> QED BY <1>2, <2>3, <2>4, <2>5, <2>6
<1>3. CASE ~FIXNUMP(m)
  <2>1. cplus(a, b, m) = mcmod(a + b, m) /\ cdifference(a, b, m) = mcmod(a - b, m)
    BY <1>1, <1>3 DEF cplus, cdifference
  <2>2. /\ mcmod(a + b, m) \in Int /\ mcmod(a + b, m) % m = (a + b) % m
        /\ mcmod(a - b, m) \in Int /\ mcmod(a - b, m) % m = (a - b) % m
    BY <1>1, McmodFacts
  <2> QED BY <1>3, <2>1, <2>2
<1> QED BY <1>2, <1>3

(* The quotient of a product of remainders fits a word. *)
LEMMA SquareBound ==
  ASSUME NEW a \in Nat, NEW b \in Nat, NEW m \in Nat, m > 0, a <= m - 1, b <= m - 1
  PROVE  (a * b) \div m \in Nat /\ (a * b) \div m <= m - 1
<1> DEFINE x == a * b  q == x \div m  r == x % m
<1>1. x \in Int /\ x >= 0 OBVIOUS
<1>2. x = m * q + r /\ q \in Int /\ r \in Int /\ r >= 0 /\ r < m BY <1>1, Division
<1>3. x <= m * b
  <2>1. a * b <= m * b OBVIOUS
  <2> QED BY <2>1
<1> HIDE DEF q, r
<1>4. q <= m - 1
  <2>1. SUFFICES ASSUME q >= m PROVE FALSE BY <1>2
  <2>2. m * q >= m * m BY <1>2, <2>1
  <2>3. m * b <= m * (m - 1) OBVIOUS
  <2>4. m * (m - 1) = m * m - m OBVIOUS
  <2>5. m * m \in Int /\ m * b \in Int /\ m * q \in Int BY <1>2
  <2> HIDE DEF x
  <2> QED BY <1>1, <1>2, <1>3, <2>2, <2>3, <2>4, <2>5
<1>5. q >= 0
  <2>1. SUFFICES ASSUME q <= -1 PROVE FALSE BY <1>2
  <2>2. m * q <= m * (-1) BY <1>2, <2>1
  <2>3. m * (-1) = -m OBVIOUS
  <2>4. m * q \in Int BY <1>2
  <2> HIDE DEF x
  <2> QED BY <1>1, <1>2, <2>2, <2>3, <2>4
<1> QED BY <1>2, <1>4, <1>5 DEF q

LEMMA QuotientFits ==
  ASSUME NEW a \in Int, NEW b \in Int, NEW m \in Nat, m > 0,
         -(m - 1) <= a, a <= m - 1, -(m - 1) <= b, b <= m - 1, FIXNUMP(m)
  PROVE  FIXNUMP(CQuo(a * b, m))
<1>0. Half \in Nat /\ m < Half BY ModArithAssumption DEF FIXNUMP, Fix
<1>1. PICK c \in Nat : c <= m - 1 /\ (a = c \/ a = -c)
  <2>1. CASE a >= 0 BY <2>1
  <2>2. CASE ~(a >= 0) BY <2>2, -a \in Nat, -(-a) = a
  <2> QED BY <2>1, <2>2
<1>2. PICK d \in Nat : d <= m - 1 /\ (b = d \/ b = -d)
  <2>1. CASE b >= 0 BY <2>1
  <2>2. CASE ~(b >= 0) BY <2>2, -b \in Nat, -(-b) = b
  <2> QED BY <2>1, <2>2
<1>3. (c * d) \div m \in Nat /\ (c * d) \div m <= m - 1 BY <1>1, <1>2, SquareBound
<1>4. c * d \in Nat BY <1>1, <1>2
<1>5. a * b = c * d \/ a * b = -(c * d)
  <2>1. CASE a = c /\ b = d BY <2>1
  <2>2. CASE a = c /\ b = -d BY <2>2
  <2>3. CASE a = -c /\ b = d BY <2>3
  <2>4. CASE a = -c /\ b = -d BY <2>4
  <2> QED BY <1>1, <1>2, <2>1, <2>2, <2>3, <2>4
<1> DEFINE p == c * d  q == p \div m  x == a * b
<1>6. x \in Int OBVIOUS
<1> HIDE DEF p, x
<1>7. p \in Nat /\ (x = p \/ x = -p) /\ q \in Nat /\ q <= m - 1 BY <1>3, <1>4, <1>5 DEF p, x
<1>8. CQuo(x, m) = q \/ CQuo(x, m) = -q
  <2>1. CASE x >= 0
    <3>1. x = p BY <1>6, <1>7, <2>1
    <3> QED BY <2>1, <3>1 DEF CQuo
  <2>2. CASE ~(x >= 0)
    <3>1. -x = p BY <1>6, <1>7, <2>2
    <3> QED BY <2>2, <3>1 DEF CQuo
  <2> QED BY <2>1, <2>2
<1> HIDE DEF q
<1>9. CQuo(x, m) \in Fix BY <1>0, <1>7, <1>8 DEF Fix
<1> QED BY <1>9 DEF x, FIXNUMP

(* Products. *)
LEMMA ExactProduct ==
  ASSUME NEW a \in Int, NEW b \in Int
  PROVE  ctimes(a, b, Nil) = a * b
BY DEF ctimes, ftimes, mcmod

LEMMA ModularProduct ==
  ASSUME NEW a \in Int, NEW b \in Int, NEW m \in Nat, m > 0,
         FIXNUMP(m) => -(m - 1) <= a /\ a <= m - 1 /\ -(m - 1) <= b /\ b <= m - 1
  PROVE  /\ ctimes(a, b, m) \in Int /\ ctimes(a, b, m) % m = (a * b) % m
         /\ FIXNUMP(m) => -(m \div 2) <= ctimes(a, b, m) /\ ctimes(a, b, m) <= m \div 2
<1>1. m # Nil /\ a * b \in Int BY DEF Nil
<1>2. CASE FIXNUMP(m)
  <2>1. FIXNUMP(a) /\ FIXNUMP(b) BY <1>2, ModArithAssumption DEF FIXNUMP, Fix
  <2>2. FIXNUMP(CQuo(a * b, m)) BY <1>2, QuotientFits
  <2>3. ctimes(a, b, m) = FIX_MOD(CRem(a * b, m), m) BY <1>1, <1>2, <2>1, <2>2 DEF ctimes, dblrem
  <2> QED BY <1>1, <1>2, <2>3, FixedRemainder
<1>3. CASE ~FIXNUMP(m)
  <2>1. ctimes(a, b, m) = mcmod(a * b, m) BY <1>1, <1>3 DEF ctimes
  <2> QED BY <1>1, <1>3, <2>1, McmodFacts
<1> QED BY <1>2, <1>3

(* plusrem and subrem: a carry makes the upper word, and only a modulus of 1 *)
(* could make the quotient too large for a word.                            *)
LEMMA RemExact ==
  ASSUME NEW x \in Int, -(2 * Half) <= x, x < 2 * Half, NEW m \in Nat, m > 1
  PROVE  Rem(x, m) = CRem(x, m)
<1>0. Half \in Nat /\ 2 * Half \in Nat BY ModArithAssumption
<1>1. SUFFICES FIXNUMP(CQuo(x, m)) BY DEF Rem
<1>2. CASE x >= 0
  <2> DEFINE q == x \div m  r == x % m
  <2>1. x = m * q + r /\ q \in Int /\ r \in Int /\ r >= 0 /\ r < m BY Division
  <2>2. CQuo(x, m) = q BY <1>2 DEF CQuo
  <2> HIDE DEF q, r
  <2>3. q < Half
    <3>1. SUFFICES ASSUME q >= Half PROVE FALSE BY <1>0, <2>1
    <3>2. m * q >= 2 * q BY <1>0, <2>1, <3>1
    <3>3. m * q \in Int BY <2>1
    <3> QED BY <1>0, <2>1, <3>1, <3>2, <3>3
  <2>4. q >= 0
    <3>1. SUFFICES ASSUME q <= -1 PROVE FALSE BY <2>1
    <3>2. m * q <= m * (-1) BY <2>1, <3>1
    <3>3. m * q \in Int /\ m * (-1) = -m BY <2>1
    <3> QED BY <1>2, <2>1, <3>2, <3>3
  <2> QED BY <1>0, <2>1, <2>2, <2>3, <2>4 DEF FIXNUMP, Fix
<1>3. CASE ~(x >= 0)
  <2> DEFINE y == -x  q == y \div m  r == y % m
  <2>0. y \in Int /\ y > 0 /\ y <= 2 * Half BY <1>0, <1>3
  <2>1. y = m * q + r /\ q \in Int /\ r \in Int /\ r >= 0 /\ r < m BY <2>0, Division
  <2>2. CQuo(x, m) = -q BY <1>3 DEF CQuo
  <2> HIDE DEF q, r, y
  <2>3. q <= Half
    <3>1. SUFFICES ASSUME q >= Half + 1 PROVE FALSE BY <1>0, <2>1
    <3>2. m * q >= 2 * q BY <1>0, <2>1, <3>1
    <3>3. m * q \in Int BY <2>1
    <3> QED BY <1>0, <2>0, <2>1, <3>1, <3>2, <3>3
  <2>4. q >= 0
    <3>1. SUFFICES ASSUME q <= -1 PROVE FALSE BY <2>1
    <3>2. m * q <= m * (-1) BY <2>1, <3>1
    <3>3. m * q \in Int /\ m * (-1) = -m BY <2>1
    <3> QED BY <2>0, <2>1, <3>2, <3>3
  <2>5. -q \in Int /\ -Half <= -q /\ -q <= Half - 1 BY <1>0, <2>1, <2>3, <2>4, ModArithAssumption
  <2> QED BY <2>2, <2>5 DEF FIXNUMP, Fix
<1> QED BY <1>2, <1>3

(* The remainders of a sum and of a difference of two words are right for    *)
(* every modulus above 1 (plusrem and subrem in rat3f-hc.c).                *)
THEOREM CarryRemainders ==
  ASSUME NEW a \in Fix, NEW b \in Fix, NEW m \in Nat, m > 1
  PROVE  plusrem(a, b, m) = CRem(a + b, m) /\ subrem(a, b, m) = CRem(a - b, m)
<1>1. /\ a + b \in Int /\ -(2 * Half) <= a + b /\ a + b < 2 * Half
      /\ a - b \in Int /\ -(2 * Half) <= a - b /\ a - b < 2 * Half
  BY ModArithAssumption DEF Fix
<1>2. Rem(a + b, m) = CRem(a + b, m) BY <1>1, RemExact
<1>3. Rem(a - b, m) = CRem(a - b, m) BY <1>1, RemExact
<1> QED BY <1>2, <1>3 DEF plusrem, subrem

(* "in fixnum case of m and mod put it into the right range" is not what     *)
(* fmod in rat3f-hc.c does: its result is congruent, but for every modulus   *)
(* of 3 or more an argument is left above the range.                        *)
THEOREM FmodMissesRange ==
  ASSUME NEW m \in Nat, m > 2
  PROVE  /\ \A x \in Int : fmod(x, m) % m = x % m
         /\ \E x \in Int : fmod(x, m) > m \div 2
<1> DEFINE h == m \div 2
<1>1. h \in Nat /\ 2 * h <= m /\ m <= 2 * h + 1 BY HalfOf
<1>2. ASSUME NEW x \in Int PROVE fmod(x, m) % m = x % m
  <2> DEFINE r == CRem(x, m)
  <2>1. r \in Int /\ r % m = x % m BY CRemFacts
  <2>2. (x - m) % m = x % m BY AddModulus
  <2>3. (r + m) % m = r % m BY <2>1, AddModulus
  <2>4. fmod(x, m) = IF r > h THEN x - m ELSE IF r < -h THEN r + m ELSE r BY DEF fmod
  <2> HIDE DEF r, h
  <2> QED BY <2>1, <2>2, <2>3, <2>4
<1>3. \E x \in Int : fmod(x, m) > m \div 2
  <2> DEFINE x == (m - 1) + m * 1
  <2>1. x \in Int /\ x >= 0 /\ x - m = m - 1 OBVIOUS
  <2>2. x % m = (m - 1) % m BY Shift, m - 1 \in Int
  <2>3. (m - 1) % m = m - 1 BY SmallRemainder, m - 1 \in Int
  <2> HIDE DEF x
  <2>4. CRem(x, m) = m - 1 BY <2>1, <2>2, <2>3 DEF CRem
  <2>5. m - 1 > h BY <1>1
  <2>6. fmod(x, m) = m - 1 BY <2>1, <2>4, <2>5 DEF fmod
  <2> QED BY <2>1, <2>5, <2>6
<1> QED BY <1>2, <1>3

(***************************************************************************)
(* The invariants of ModSpec.                                              *)
(***************************************************************************)

ModIInv == ModTypeOK /\ CoefExact /\ CoefReduced

(* What CoefExact and CoefReduced say of one coefficient. *)
Right(c, e, m, neg) == (neg /\ 2 * (m - 1) > Half /\ FIXNUMP(m)) \/ (IF m = Nil THEN c ELSE c % m) = e
InRange(c, m, neg) == m # Nil /\ FIXNUMP(m) =>
                      -(m - 1) <= c /\ c <= m \div 2 /\ (~neg => -(m \div 2) <= c)
GoodCoef(c, e, m, neg) == c \in Int /\ e \in Int /\ Right(c, e, m, neg) /\ InRange(c, m, neg)
Reduced(x, m) == IF m = Nil THEN x ELSE x % m

LEMMA ReducedType ==
  ASSUME NEW x \in Int, NEW m \in Moduls
  PROVE  Reduced(x, m) \in Int
<1>1. CASE m = Nil BY <1>1 DEF Reduced
<1>2. CASE m # Nil
  <2>1. m \in Nat /\ m > 0 BY <1>2, ModulusFacts
  <2>2. x % m \in Int BY <2>1, Division
  <2> QED BY <1>2, <2>2 DEF Reduced
<1> QED BY <1>1, <1>2

(* Two coefficients that are safe to add or subtract. *)
LEMMA SumFits ==
  ASSUME NEW a \in Int, NEW b \in Int, NEW m \in Nat, m > 0, FIXNUMP(m), NEW neg \in BOOLEAN,
         InRange(a, m, neg), InRange(b, m, neg), ~(neg /\ 2 * (m - 1) > Half)
  PROVE  a + b \in Fix /\ a - b \in Fix
<1> DEFINE h == m \div 2
<1>1. h \in Nat /\ 2 * h <= m /\ m <= 2 * h + 1 BY HalfOf
<1>2. m # Nil /\ Half \in Nat /\ Half > 2 /\ m <= Half - 1 BY ModArithAssumption DEF Nil, FIXNUMP, Fix
<1>3. /\ -(m - 1) <= a /\ a <= h /\ (~neg => -h <= a)
      /\ -(m - 1) <= b /\ b <= h /\ (~neg => -h <= b)
  BY <1>2 DEF InRange
<1> HIDE DEF h
<1>4. CASE ~neg BY <1>1, <1>2, <1>3, <1>4 DEF Fix
<1>5. CASE neg
  <2>1. 2 * (m - 1) <= Half BY <1>2, <1>5
  <2>2. CASE m = 1 BY <1>1, <1>2, <1>3, <2>2 DEF Fix
  <2>3. CASE m = 2 BY <1>1, <1>2, <1>3, <2>3 DEF Fix
  <2>4. CASE m > 2 BY <1>1, <1>2, <1>3, <2>1, <2>4 DEF Fix
  <2> QED BY <2>2, <2>3, <2>4
<1> QED BY <1>4, <1>5

LEMMA ReadGood ==
  ASSUME NEW x \in Int, NEW m \in Moduls, NEW neg \in BOOLEAN, x < -Half => neg
  PROVE  GoodCoef(mcmod(x, m), Reduced(x, m), m, neg)
<1>0. Reduced(x, m) \in Int BY ReducedType
<1>1. CASE m = Nil
  <2>1. mcmod(x, m) = x BY <1>1 DEF mcmod
  <2> QED BY <1>0, <1>1, <2>1 DEF GoodCoef, Right, InRange, Reduced
<1>2. CASE m # Nil
  <2>1. m \in Nat /\ m > 0 /\ Half \in Nat BY <1>2, ModulusFacts
  <2>2. /\ mcmod(x, m) \in Int /\ mcmod(x, m) % m = x % m
        /\ -(m - 1) <= mcmod(x, m) /\ mcmod(x, m) <= m \div 2
        /\ FIXNUMP(m) /\ x >= -Half => -(m \div 2) <= mcmod(x, m)
    BY <2>1, McmodFacts
  <2>3. ~neg => x >= -Half BY <2>1
  <2>4. Right(mcmod(x, m), Reduced(x, m), m, neg) BY <1>2, <2>2 DEF Right, Reduced
  <2>5. InRange(mcmod(x, m), m, neg) BY <2>2, <2>3 DEF InRange
  <2> QED BY <1>0, <2>2, <2>4, <2>5 DEF GoodCoef
<1> QED BY <1>1, <1>2

(* Reducing what two coefficients stand for before or after the operation. *)
LEMMA ExactOperation ==
  ASSUME NEW a \in Int, NEW b \in Int, NEW m \in Nat, m > 0
  PROVE  /\ ((a % m) + (b % m)) % m = (a + b) % m
         /\ ((a % m) - (b % m)) % m = (a - b) % m
         /\ ((a % m) * (b % m)) % m = (a * b) % m
BY SumOfRemainders, ProductOfRemainders

LEMMA OperationsGood ==
  ASSUME NEW a, NEW b, NEW d, NEW e, NEW m \in Moduls, NEW neg \in BOOLEAN,
         GoodCoef(a, d, m, neg), GoodCoef(b, e, m, neg)
  PROVE  /\ GoodCoef(cplus(a, b, m), Reduced(d + e, m), m, neg)
         /\ GoodCoef(cdifference(a, b, m), Reduced(d - e, m), m, neg)
         /\ GoodCoef(ctimes(a, b, m), Reduced(d * e, m), m, neg)
<1>0. a \in Int /\ b \in Int /\ d \in Int /\ e \in Int BY DEF GoodCoef
<1>t. /\ d + e \in Int /\ d - e \in Int /\ d * e \in Int
      /\ Reduced(d + e, m) \in Int /\ Reduced(d - e, m) \in Int /\ Reduced(d * e, m) \in Int
  <2>1. d + e \in Int /\ d - e \in Int /\ d * e \in Int BY <1>0
  <2> QED BY <2>1, ReducedType
<1>1. CASE m = Nil
  <2>1. a = d /\ b = e BY <1>1, ModArithAssumption DEF GoodCoef, Right, FIXNUMP, Nil
  <2>2. cplus(a, b, m) = d + e /\ cdifference(a, b, m) = d - e BY <1>0, <1>1, <2>1, ExactSum
  <2>3. ctimes(a, b, m) = d * e BY <1>0, <1>1, <2>1, ExactProduct
  <2> QED BY <1>1, <1>t, <2>2, <2>3 DEF GoodCoef, Right, InRange, Reduced
<1>2. CASE m # Nil
  <2>0. m \in Nat /\ m > 0 BY <1>2, ModulusFacts
  <2>1. /\ cplus(a, b, m) \in Int /\ cdifference(a, b, m) \in Int
        /\ ~FIXNUMP(m) \/ a + b \in Fix => cplus(a, b, m) % m = (a + b) % m
        /\ ~FIXNUMP(m) \/ a - b \in Fix => cdifference(a, b, m) % m = (a - b) % m
        /\ FIXNUMP(m) => /\ -(m \div 2) <= cplus(a, b, m) /\ cplus(a, b, m) <= m \div 2
                         /\ -(m \div 2) <= cdifference(a, b, m) /\ cdifference(a, b, m) <= m \div 2
    BY <1>0, <2>0, ModularSum
  <2>2. FIXNUMP(m) => -(m - 1) <= a /\ a <= m - 1 /\ -(m - 1) <= b /\ b <= m - 1
    <3>1. m \div 2 \in Nat /\ 2 * (m \div 2) <= m BY <2>0, HalfOf
    <3>2. m \div 2 <= m - 1 BY <2>0, <3>1
    <3>3. FIXNUMP(m) => -(m - 1) <= a /\ a <= m \div 2 /\ -(m - 1) <= b /\ b <= m \div 2
      BY <1>2 DEF GoodCoef, InRange
    <3> QED BY <1>0, <2>0, <3>1, <3>2, <3>3
  <2>3. /\ ctimes(a, b, m) \in Int /\ ctimes(a, b, m) % m = (a * b) % m
        /\ FIXNUMP(m) => -(m \div 2) <= ctimes(a, b, m) /\ ctimes(a, b, m) <= m \div 2
    BY <1>0, <2>0, <2>2, ModularProduct
  <2>4. -(m - 1) <= -(m \div 2)
    <3>1. m \div 2 \in Nat /\ 2 * (m \div 2) <= m BY <2>0, HalfOf
    <3> QED BY <2>0, <3>1
  <2>5. /\ InRange(cplus(a, b, m), m, neg) /\ InRange(cdifference(a, b, m), m, neg)
        /\ InRange(ctimes(a, b, m), m, neg)
    <3>1. ASSUME NEW c \in Int, FIXNUMP(m) => -(m \div 2) <= c /\ c <= m \div 2
          PROVE  InRange(c, m, neg)
      <4>1. m \div 2 \in Int BY <2>0, HalfOf
      <4> QED BY <2>0, <2>4, <3>1, <4>1 DEF InRange
    <3> QED BY <2>1, <2>3, <3>1
  <2>6. CASE neg /\ 2 * (m - 1) > Half /\ FIXNUMP(m)
    BY <1>t, <2>1, <2>3, <2>5, <2>6 DEF GoodCoef, Right
  <2>7. CASE ~(neg /\ 2 * (m - 1) > Half /\ FIXNUMP(m))
    <3>1. a % m = d /\ b % m = e BY <1>2, <2>7 DEF GoodCoef, Right
    <3>2. /\ (d + e) % m = (a + b) % m /\ (d - e) % m = (a - b) % m
          /\ (d * e) % m = (a * b) % m
      <4>1. /\ ((a % m) + (b % m)) % m = (a + b) % m
            /\ ((a % m) - (b % m)) % m = (a - b) % m
            /\ ((a % m) * (b % m)) % m = (a * b) % m
        BY ONLY <1>0, <2>0, ExactOperation, Zenon
      <4> QED BY ONLY <3>1, <4>1, Zenon
    <3>3. FIXNUMP(m) => a + b \in Fix /\ a - b \in Fix
      BY <1>0, <2>0, <2>7, SumFits DEF GoodCoef
    <3>4. /\ cplus(a, b, m) % m = (d + e) % m /\ cdifference(a, b, m) % m = (d - e) % m
          /\ ctimes(a, b, m) % m = (d * e) % m
      BY <2>1, <2>3, <3>2, <3>3
    <3>5. /\ Right(cplus(a, b, m), Reduced(d + e, m), m, neg)
          /\ Right(cdifference(a, b, m), Reduced(d - e, m), m, neg)
          /\ Right(ctimes(a, b, m), Reduced(d * e, m), m, neg)
      BY <1>2, <3>4 DEF Right, Reduced
    <3> QED BY <1>t, <2>1, <2>3, <2>5, <3>5 DEF GoodCoef
  <2> QED BY <2>6, <2>7
<1> QED BY <1>1, <1>2

(* The inductive invariant, one coefficient at a time. *)
EachGood == /\ modulus \in Moduls /\ negative \in BOOLEAN
            /\ coef \in [Reg -> Int] /\ exact \in [Reg -> Int]
            /\ \A r \in Reg : GoodCoef(coef[r], exact[r], modulus, negative)

LEMMA EachGoodIsIInv ==
  ASSUME modulus \in Moduls, negative \in BOOLEAN, coef \in [Reg -> Int], exact \in [Reg -> Int],
         \A r \in Reg : GoodCoef(coef[r], exact[r], modulus, negative)
  PROVE  ModIInv
<1> DEFINE h == modulus \div 2
<1>0. /\ modulus \in Int /\ modulus \in Nat /\ Half \in Nat /\ (modulus # Nil <=> modulus > 0)
      /\ h \in Int
  BY ModulusFacts, HalfOf
<1> HIDE DEF h
<1>1. ModTypeOK BY DEF ModTypeOK
<1>2. CoefExact
  <2>1. SUFFICES ASSUME ~(negative /\ Risky), NEW r \in Reg PROVE Residue(coef[r]) = exact[r]
    BY DEF CoefExact
  <2>2. Right(coef[r], exact[r], modulus, negative) BY DEF GoodCoef
  <2> QED BY <2>1, <2>2 DEF Right, Residue, Risky
<1>3. CoefReduced
  <2>1. SUFFICES ASSUME modulus # Nil /\ FIXNUMP(modulus), NEW r \in Reg
                 PROVE  /\ coef[r] \in -(modulus - 1) .. modulus \div 2
                        /\ ~negative => coef[r] >= -(modulus \div 2)
    BY DEF CoefReduced
  <2>2. coef[r] \in Int /\ InRange(coef[r], modulus, negative) BY DEF GoodCoef
  <2>3. -(modulus - 1) <= coef[r] /\ coef[r] <= h /\ (~negative => -h <= coef[r])
    BY <2>1, <2>2 DEF InRange, h
  <2>4. coef[r] \in -(modulus - 1) .. h BY <1>0, <2>2, <2>3
  <2>5. ~negative => coef[r] >= -h BY <1>0, <2>2, <2>3
  <2> QED BY <2>4, <2>5 DEF h
<1> QED BY <1>1, <1>2, <1>3 DEF ModIInv

LEMMA ModInitGood ==
  ASSUME ModInit PROVE EachGood
<1>0. modulus \in Moduls /\ coef = [r \in Reg |-> 0] /\ exact = [r \in Reg |-> 0] /\ negative = FALSE
  BY DEF ModInit
<1>1. 0 \in Int /\ (0 < -Half => FALSE) BY ModArithAssumption
<1>2. GoodCoef(mcmod(0, modulus), Reduced(0, modulus), modulus, FALSE)
  BY <1>0, <1>1, ReadGood
<1>3. mcmod(0, modulus) = 0 /\ Reduced(0, modulus) = 0
  <2>1. CASE modulus = Nil BY <2>1 DEF mcmod, Reduced
  <2>2. CASE modulus # Nil
    <3>1. modulus \in Nat /\ modulus > 0 BY <1>0, <2>2, ModulusFacts
    <3>2. 0 % modulus = 0 BY <3>1, SmallRemainder
    <3>3. CRem(0, modulus) = 0 BY <3>2 DEF CRem
    <3>4. modulus \div 2 \in Nat BY <3>1, HalfOf
    <3>5. mcmod(0, modulus) = 0 BY <3>3, <3>4 DEF mcmod, FIX_MOD
    <3> QED BY <2>2, <3>2, <3>5 DEF Reduced
  <2> QED BY <2>1, <2>2
<1>4. GoodCoef(0, 0, modulus, FALSE) BY <1>2, <1>3
<1>5. coef \in [Reg -> Int] /\ exact \in [Reg -> Int] BY <1>0
<1>6. \A r \in Reg : GoodCoef(coef[r], exact[r], modulus, negative) BY <1>0, <1>4
<1>7. negative \in BOOLEAN BY <1>0
<1> QED BY <1>0, <1>5, <1>6, <1>7 DEF EachGood

(* A flag that is raised weakens what is required. *)
LEMMA RaisedFlag ==
  ASSUME NEW c, NEW e, NEW m, NEW neg \in BOOLEAN, NEW neg2 \in BOOLEAN, neg => neg2,
         GoodCoef(c, e, m, neg)
  PROVE  GoodCoef(c, e, m, neg2)
BY DEF GoodCoef, Right, InRange

LEMMA SetsGood ==
  ASSUME EachGood, NEW t \in Reg, NEW c, NEW e, e \in Int, Sets(t, c, e),
         NEW neg \in BOOLEAN, negative => neg, negative' = neg,
         GoodCoef(c, Reduced(e, modulus), modulus, neg)
  PROVE  EachGood'
<1>1. /\ modulus' = modulus
      /\ coef' = [coef EXCEPT ![t] = c]
      /\ exact' = [exact EXCEPT ![t] = Reduced(e, modulus)]
  BY DEF Sets, Residue, Reduced
<1>2. /\ modulus \in Moduls /\ negative \in BOOLEAN
      /\ coef \in [Reg -> Int] /\ exact \in [Reg -> Int]
      /\ \A r \in Reg : GoodCoef(coef[r], exact[r], modulus, negative)
  BY DEF EachGood
<1>3. c \in Int /\ Reduced(e, modulus) \in Int BY DEF GoodCoef
<1>4. coef' \in [Reg -> Int] /\ exact' \in [Reg -> Int] BY <1>1, <1>2, <1>3
<1>5. ASSUME NEW r \in Reg PROVE GoodCoef(coef'[r], exact'[r], modulus', negative')
  <2>1. CASE r = t
    <3>1. coef'[r] = c /\ exact'[r] = Reduced(e, modulus) BY <1>1, <1>2, <2>1
    <3> QED BY <1>1, <3>1
  <2>2. CASE r # t
    <3>1. coef'[r] = coef[r] /\ exact'[r] = exact[r] BY <1>1, <1>2, <2>2
    <3>2. GoodCoef(coef[r], exact[r], modulus, neg) BY <1>2, RaisedFlag
    <3> QED BY <1>1, <3>1, <3>2
  <2> QED BY <2>1, <2>2
<1>6. modulus' \in Moduls /\ negative' \in BOOLEAN BY <1>1, <1>2
<1> QED BY <1>4, <1>5, <1>6 DEF EachGood

LEMMA ModStepGood ==
  ASSUME EachGood, [ModNext]_modvars PROVE EachGood'
<1>0. /\ modulus \in Moduls /\ negative \in BOOLEAN
      /\ \A r \in Reg : GoodCoef(coef[r], exact[r], modulus, negative)
  BY DEF EachGood
<1>i. \A r \in Reg : exact[r] \in Int BY <1>0 DEF GoodCoef
<1>1. ASSUME NEW t \in Reg, NEW x \in Input, ReadIn(t, x) PROVE EachGood'
  <2>0. x \in Int BY ModArithAssumption
  <2> DEFINE neg == negative \/ x < -Half
  <2>1. Sets(t, mcmod(x, modulus), x) /\ negative' = neg BY <1>1 DEF ReadIn
  <2>2. neg \in BOOLEAN /\ (negative => neg) /\ (x < -Half => neg) BY <1>0
  <2> HIDE DEF neg
  <2>3. GoodCoef(mcmod(x, modulus), Reduced(x, modulus), modulus, neg) BY <1>0, <2>0, <2>2, ReadGood
  <2> QED BY <2>0, <2>1, <2>2, <2>3, SetsGood
<1>2. ASSUME NEW t \in Reg, NEW r \in Reg, NEW s \in Reg,
             Plus(t, r, s) \/ Minus(t, r, s) \/ Times(t, r, s)
      PROVE  EachGood'
  <2>1. /\ GoodCoef(cplus(coef[r], coef[s], modulus), Reduced(exact[r] + exact[s], modulus), modulus, negative)
        /\ GoodCoef(cdifference(coef[r], coef[s], modulus), Reduced(exact[r] - exact[s], modulus), modulus, negative)
        /\ GoodCoef(ctimes(coef[r], coef[s], modulus), Reduced(exact[r] * exact[s], modulus), modulus, negative)
    BY <1>0, OperationsGood
  <2>2. exact[r] + exact[s] \in Int /\ exact[r] - exact[s] \in Int /\ exact[r] * exact[s] \in Int
    BY <1>i
  <2>3. CASE Plus(t, r, s) BY <1>0, <2>1, <2>2, <2>3, SetsGood DEF Plus
  <2>4. CASE Minus(t, r, s) BY <1>0, <2>1, <2>2, <2>4, SetsGood DEF Minus
  <2>5. CASE Times(t, r, s) BY <1>0, <2>1, <2>2, <2>5, SetsGood DEF Times
  <2> QED BY <1>2, <2>3, <2>4, <2>5
<1>3. CASE UNCHANGED modvars BY <1>3 DEF EachGood, modvars
<1> QED BY <1>1, <1>2, <1>3 DEF ModNext

LEMMA IInvTestsDecide ==
  ASSUME EachGood PROVE TestsDecide
<1>1. SUFFICES ASSUME ~negative, modulus = Nil \/ FIXNUMP(modulus), NEW r \in Reg, NEW s \in Reg
               PROVE  /\ coef[r] = 0 <=> exact[r] = 0
                      /\ modulus % 2 = 1 => (coef[r] = coef[s] <=> exact[r] = exact[s])
  BY DEF TestsDecide
<1> DEFINE m == modulus  a == coef[r]  b == coef[s]  d == exact[r]  e == exact[s]
<1>2. m \in Moduls /\ GoodCoef(a, d, m, negative) /\ GoodCoef(b, e, m, negative) BY DEF EachGood
<1> HIDE DEF m, a, b, d, e
<1>3. CASE m = Nil
  <2>1. a = d /\ b = e BY <1>1, <1>2, <1>3 DEF GoodCoef, Right
  <2> QED BY <2>1 DEF a, b, d, e
<1>4. CASE m # Nil
  <2> DEFINE h == m \div 2
  <2>0. m \in Nat /\ m > 0 BY <1>2, <1>4, ModulusFacts
  <2>1. h \in Nat /\ 2 * h <= m BY <2>0, HalfOf
  <2>2. a \in Int /\ b \in Int /\ a % m = d /\ b % m = e BY <1>1, <1>2, <1>4 DEF GoodCoef, Right
  <2>3. -h <= a /\ a <= h /\ -h <= b /\ b <= h
    <3>1. FIXNUMP(m) BY <1>1, <1>4 DEF m
    <3> QED BY <1>1, <1>2, <1>4, <3>1 DEF GoodCoef, InRange
  <2>4. m % 2 = 1 => 2 * h < m BY <2>0
  <2> HIDE DEF h
  <2>5. ASSUME NEW x \in Int, -h <= x, x <= h PROVE x % m = IF x >= 0 THEN x ELSE x + m
    <3>1. CASE x >= 0
      <4>1. x < m BY <2>0, <2>1, <2>5, <3>1
      <4> QED BY <2>0, <3>1, <4>1, SmallRemainder
    <3>2. CASE ~(x >= 0)
      <4>1. x + m \in Int /\ x + m >= 0 /\ x + m < m BY <2>0, <2>1, <2>5, <3>2
      <4>2. (x + m) % m = x + m BY <2>0, <4>1, SmallRemainder
      <4>3. (x + m) % m = x % m BY <2>0, AddModulus
      <4> QED BY <3>2, <4>2, <4>3
    <3> QED BY <3>1, <3>2
  <2>6. d = (IF a >= 0 THEN a ELSE a + m) /\ e = (IF b >= 0 THEN b ELSE b + m)
    BY <2>2, <2>3, <2>5
  <2>7. a = 0 <=> d = 0 BY <2>0, <2>1, <2>2, <2>3, <2>6
  <2>8. m % 2 = 1 => (a = b <=> d = e)
    <3>1. SUFFICES ASSUME 2 * h < m PROVE a = b <=> d = e BY <2>4
    <3> QED BY <2>0, <2>1, <2>2, <2>3, <2>6, <3>1
  <2> QED BY <2>7, <2>8 DEF a, b, d, e, m
<1> QED BY <1>3, <1>4

LEMMA ModAlways == ModSpec => []EachGood
<1>1. ModInit => EachGood BY ModInitGood
<1>2. EachGood /\ [ModNext]_modvars => EachGood' BY ModStepGood
<1> QED BY <1>1, <1>2, PTL DEF ModSpec

(* Coefficients stand for what they should: cplus, cdifference, ctimes and   *)
(* mcmod of rat3f-hc.c are exact without a modulus and right modulo one,     *)
(* unless a negative bignum was read and the modulus is Risky.              *)
THEOREM ModCoefExact == ModSpec => []CoefExact
<1>1. EachGood => CoefExact BY EachGoodIsIInv DEF EachGood, ModIInv
<1> QED BY <1>1, ModAlways, PTL

(* With a fixnum modulus every result of these functions is reduced. *)
THEOREM ModCoefReduced == ModSpec => []CoefReduced
<1>1. EachGood => CoefReduced BY EachGoodIsIInv DEF EachGood, ModIInv
<1> QED BY <1>1, ModAlways, PTL

(* Tests for zero decide, and tests for equality do if the modulus is odd. *)
THEOREM ModTestsDecide == ModSpec => []TestsDecide
<1>1. EachGood => TestsDecide BY IInvTestsDecide
<1> QED BY <1>1, ModAlways, PTL
=============================================================================
