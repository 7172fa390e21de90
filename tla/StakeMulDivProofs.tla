------------------------- MODULE StakeMulDivProofs --------------------------
(***************************************************************************)
(* The fee split is exact for every width of a limb, the code's 64 bits    *)
(* included.  From the bottom up: quotients and remainders are unique, the *)
(* four partial products lose no carry, a bit of the product is read from  *)
(* the word it is in, and a turn of the division extends the quotient of   *)
(* the leading bits by one.  Products are kept in named steps, because the *)
(* provers do not find them themselves.                                    *)
(***************************************************************************)
EXTENDS StakeMulDiv, TLAPS

(* The product of two numbers is a number, and keeps an order.             *)
LEMMA Times ==
    /\ \A x, y \in Nat : x * y \in Nat
    /\ \A x, y \in Int, z \in Nat : x <= y => x * z <= y * z
OBVIOUS

(* One more factor.                                                        *)
LEMMA OneMore ==
    \A x, y \in Nat : (x + 1) * y = x * y + y /\ x * y = y * x
OBVIOUS

(* Quotient and remainder.                                                 *)
LEMMA DivMod ==
    ASSUME NEW n \in Int, NEW d \in Nat \ {0}
    PROVE  /\ n \div d \in Int /\ n % d \in Nat /\ n % d < d
           /\ n = (n \div d) * d + (n % d)
OBVIOUS

(* Those of a natural number are natural numbers.                          *)
LEMMA DivNat ==
    ASSUME NEW n \in Nat, NEW d \in Nat \ {0}
    PROVE  \E q \in Nat, r \in Nat :
              n \div d = q /\ n % d = r /\ n = q * d + r /\ r < d
<1>1. n \div d \in Nat /\ n % d \in Nat /\ n % d < d /\ n = (n \div d) * d + (n % d)
  OBVIOUS
<1> QED  BY <1>1

(* They are the only ones.                                                 *)
LEMMA DivUnique ==
    ASSUME NEW n \in Int, NEW d \in Nat \ {0}, NEW q \in Int, NEW r \in Nat,
           n = q * d + r, r < d
    PROVE  n \div d = q /\ n % d = r
<1> DEFINE p == n \div d
           s == n % d
<1>1. p \in Int /\ s \in Nat /\ s < d /\ n = p * d + s
  BY DivMod
<1> HIDE DEF p, s
<1>2. ASSUME p < q PROVE FALSE
  <2>1. (p + 1) * d <= q * d
    BY <1>1, <1>2, Times
  <2> QED  BY <1>1, <2>1
<1>3. ASSUME q < p PROVE FALSE
  <2>1. (q + 1) * d <= p * d
    BY <1>1, <1>3, Times
  <2> QED  BY <1>1, <2>1
<1>4. p = q
  BY <1>1, <1>2, <1>3
<1>5. s = r
  BY <1>1, <1>4
<1> QED  BY <1>4, <1>5 DEF p, s

(* A word is a power of two.                                               *)
LEMMA WordPower ==
    /\ LIMB \in Nat /\ LIMB >= 2
    /\ WORD \in Nat /\ WORD >= 2
    /\ WORD = 2 ^ (2 * BITS)
    /\ 2 ^ (4 * BITS) = WORD * WORD
<1>1. BITS \in Nat /\ BITS - 1 \in Nat
  BY MulDivAssumption
<1>2. 2 ^ BITS \in Nat /\ 2 ^ (BITS - 1) \in Nat \ {0}
  <2>1. BITS \in 0 .. 4 * BITS /\ BITS - 1 \in 0 .. 4 * BITS
    BY <1>1
  <2> QED  BY <2>1, PowersOfTwo
<1>3. 2 ^ BITS = 2 ^ 1 * 2 ^ (BITS - 1)
  <2>1. 1 \in 0 .. 4 * BITS /\ BITS - 1 \in 0 .. 4 * BITS /\ 1 + (BITS - 1) = BITS
    BY <1>1
  <2> QED  BY <2>1, PowersOfTwo
<1>4. LIMB \in Nat /\ LIMB >= 2
  BY <1>1, <1>2, <1>3, PowersOfTwo DEF LIMB
<1>5. WORD \in Nat /\ WORD >= 2
  BY <1>4, Times DEF WORD
<1>6. WORD = 2 ^ (2 * BITS)
  BY <1>1, PowersOfTwo DEF WORD, LIMB
<1>7. 2 ^ (4 * BITS) = WORD * WORD
  BY <1>1, <1>6, PowersOfTwo
<1> QED  BY <1>4, <1>5, <1>6, <1>7
----------------------------------------------------------------------------
(* The double-width product.                                               *)

(* hi * WORD + lo is the product: no carry is lost.                        *)
LEMMA LimbsProduct ==
    ASSUME NEW a \in 0 .. WORD - 1, NEW b \in 0 .. WORD - 1
    PROVE  LET p == limbs(a, b)
           IN  /\ p.hi \in Nat /\ p.lo \in Nat /\ p.lo < WORD
               /\ p.hi * WORD + p.lo = a * b
<1> DEFINE cross == (a % LIMB) * (b \div LIMB) + (a \div LIMB) * (b % LIMB)
           mid == cross % WORD
           mid_carry == cross \div WORD
           low == (a % LIMB) * (b % LIMB) + ((mid * LIMB) % WORD)
           hi == (a \div LIMB) * (b \div LIMB) + mid \div LIMB + mid_carry * LIMB + low \div WORD
<1>0. LIMB \in Nat \ {0} /\ WORD \in Nat \ {0} /\ WORD = LIMB * LIMB /\ a \in Nat /\ b \in Nat
  BY WordPower DEF WORD
<1>1. PICK a0 \in Nat, a1 \in Nat :
         a0 = a % LIMB /\ a1 = a \div LIMB /\ a = a1 * LIMB + a0
  BY <1>0, DivNat
<1>2. PICK b0 \in Nat, b1 \in Nat :
         b0 = b % LIMB /\ b1 = b \div LIMB /\ b = b1 * LIMB + b0
  BY <1>0, DivNat
<1>3. cross = a0 * b1 + a1 * b0 /\ cross \in Nat
  BY <1>1, <1>2, Times
<1>4. PICK m \in Nat, c \in Nat : m = mid /\ c = mid_carry /\ cross = c * WORD + m
  BY <1>0, <1>3, DivNat
<1> HIDE DEF cross, mid, mid_carry
<1>5. PICK m0 \in Nat, m1 \in Nat :
         m1 = m \div LIMB /\ m = m1 * LIMB + m0 /\ m0 < LIMB
  BY <1>0, <1>4, DivNat
<1>6. (m * LIMB) % WORD = m0 * LIMB
  <2>1. m * LIMB = m1 * WORD + m0 * LIMB
    BY <1>0, <1>5
  <2>2. (m0 + 1) * LIMB <= LIMB * LIMB
    BY <1>0, <1>5, Times
  <2>3. m0 * LIMB < WORD
    BY <1>0, <2>2
  <2>4. PICK n \in Int, r \in Nat : n = m * LIMB /\ r = m0 * LIMB
    BY <1>0, Times
  <2>5. n = m1 * WORD + r /\ r < WORD /\ m1 \in Int
    BY <2>1, <2>3, <2>4
  <2>6. n % WORD = r
    BY <1>0, <2>5, DivUnique
  <2> QED  BY <2>4, <2>6
<1>7. low = a0 * b0 + m0 * LIMB /\ low \in Nat
  <2>1. low = a0 * b0 + m0 * LIMB
    BY <1>1, <1>2, <1>4, <1>6
  <2> QED  BY <1>0, <2>1, Times
<1>8. limbs(a, b) = [hi |-> hi, lo |-> low % WORD]
  BY DEF limbs, cross, mid, mid_carry
<1> HIDE DEF low
<1>9. PICK l0 \in Nat, l1 \in Nat :
         l0 = low % WORD /\ l1 = low \div WORD /\ low = l1 * WORD + l0 /\ l0 < WORD
  BY <1>0, <1>7, DivNat
<1>10. hi = a1 * b1 + m1 + c * LIMB + l1
  BY <1>1, <1>2, <1>4, <1>5, <1>9
<1> HIDE DEF hi
<1>11. hi \in Nat
  BY <1>0, <1>10, Times
<1>12. hi * WORD + l0 = a * b
  <2>1. hi * WORD = a1 * b1 * WORD + m1 * WORD + c * LIMB * WORD + l1 * WORD
    BY <1>0, <1>10
  <2>2. hi * WORD + l0 = a1 * b1 * WORD + m1 * LIMB * LIMB + c * LIMB * WORD + a0 * b0 + m0 * LIMB
    BY <1>0, <1>7, <1>9, <2>1
  <2>3. m * LIMB = m1 * LIMB * LIMB + m0 * LIMB
    BY <1>0, <1>5
  <2>4. cross * LIMB = c * LIMB * WORD + m * LIMB
    BY <1>0, <1>3, <1>4
  <2>5. a * b = a1 * b1 * WORD + (a0 * b1 + a1 * b0) * LIMB + a0 * b0
    <3>1. a * b = (a1 * LIMB + a0) * (b1 * LIMB + b0)
      BY <1>1, <1>2
    <3>2. (a1 * LIMB + a0) * (b1 * LIMB + b0) =
             a1 * b1 * (LIMB * LIMB) + (a0 * b1 + a1 * b0) * LIMB + a0 * b0
      BY <1>0
    <3> QED  BY <1>0, <3>1, <3>2
  <2> QED  BY <1>0, <1>3, <2>2, <2>3, <2>4, <2>5
<1> QED  BY <1>9, <1>8, <1>11, <1>12

(* A power and the next.                                                   *)
LEMMA PowerStep ==
    ASSUME NEW k \in 0 .. 4 * BITS - 1
    PROVE  2 ^ k \in Nat \ {0} /\ 2 ^ (k + 1) \in Nat \ {0} /\ 2 ^ (k + 1) = 2 * 2 ^ k
<1>1. k \in 0 .. 4 * BITS /\ k + 1 \in 0 .. 4 * BITS /\ 1 \in 0 .. 4 * BITS
  BY MulDivAssumption
<1>2. 2 ^ (k + 1) = 2 ^ k * 2 ^ 1
  BY <1>1, PowersOfTwo
<1> QED  BY <1>1, <1>2, PowersOfTwo

(* A bit of the product is taken from the word it is in.                   *)
LEMMA BitOf ==
    ASSUME NEW p, p.hi \in Nat, p.lo \in Nat, p.lo < WORD, NEW k \in 0 .. 4 * BITS - 1
    PROVE  bit(p, k) = ((p.hi * WORD + p.lo) \div 2 ^ k) % 2
<1>0. WORD \in Nat \ {0} /\ WORD = 2 ^ (2 * BITS) /\ BITS \in Nat
  BY WordPower, MulDivAssumption
<1>1. CASE k >= 2 * BITS
  <2>1. PICK e \in Nat \ {0} : e = 2 ^ (k - 2 * BITS) /\ 2 ^ k = WORD * e
    <3>1. k - 2 * BITS \in 0 .. 4 * BITS /\ 2 * BITS \in 0 .. 4 * BITS
      BY <1>0, <1>1
    <3>2. 2 * BITS + (k - 2 * BITS) = k
      BY <1>0
    <3> QED  BY <1>0, <3>1, <3>2, PowersOfTwo
  <2>2. PICK x \in Nat, s \in Nat : x = p.hi \div e /\ p.hi = x * e + s /\ s < e
    BY DivNat
  <2>3. p.hi * WORD + p.lo = x * (WORD * e) + (s * WORD + p.lo)
    BY <1>0, <2>2
  <2>4. s * WORD + p.lo < WORD * e
    <3>1. (s + 1) * WORD <= e * WORD
      BY <1>0, <2>2, Times
    <3> QED  BY <1>0, <3>1
  <2>5. (p.hi * WORD + p.lo) \div (WORD * e) = x
    <3>1. WORD * e \in Nat \ {0} /\ s * WORD + p.lo \in Nat /\ p.hi * WORD + p.lo \in Int
      BY <1>0, Times
    <3> QED  BY <2>3, <2>4, <3>1, DivUnique
  <2> QED  BY <1>0, <1>1, <2>1, <2>2, <2>5 DEF bit
<1>2. CASE k < 2 * BITS
  <2>1. PICK e \in Nat \ {0}, g \in Nat : e = 2 ^ k /\ WORD = e * (2 * g)
    <3> DEFINE j == 2 * BITS - k - 1
    <3>1. k \in 0 .. 4 * BITS /\ j \in 0 .. 4 * BITS - 1 /\ j + 1 \in 0 .. 4 * BITS
      BY <1>0, <1>2
    <3>2. k + (j + 1) = 2 * BITS
      BY <1>0
    <3> HIDE DEF j
    <3>3. 2 ^ (k + (j + 1)) = 2 ^ k * 2 ^ (j + 1)
      BY <3>1, PowersOfTwo
    <3>4. 2 ^ (j + 1) = 2 * 2 ^ j /\ 2 ^ j \in Nat
      BY <3>1, PowerStep
    <3> QED  BY <1>0, <3>2, <3>3, <3>4, PowerStep
  <2>2. PICK y \in Nat, s \in Nat : y = p.lo \div e /\ p.lo = y * e + s /\ s < e
    BY DivNat
  <2>3. p.hi * WORD + p.lo = (2 * (p.hi * g) + y) * e + s
    BY <2>1, <2>2
  <2>4. (p.hi * WORD + p.lo) \div e = 2 * (p.hi * g) + y
    <3>1. 2 * (p.hi * g) + y \in Int /\ p.hi * WORD + p.lo \in Int
      BY <1>0, Times
    <3> QED  BY <2>2, <2>3, <3>1, DivUnique
  <2>5. (2 * (p.hi * g) + y) % 2 = y % 2
    <3>1. PICK h \in Nat : h = p.hi * g
      BY Times
    <3>2. (2 * h + y) % 2 = y % 2
      OBVIOUS
    <3> QED  BY <3>1, <3>2
  <2> QED  BY <1>0, <1>2, <2>1, <2>2, <2>4, <2>5 DEF bit
<1> QED  BY <1>0, <1>1, <1>2

(* The next bit of a number makes its leading part.                        *)
LEMMA Leading ==
    ASSUME NEW n \in Nat, NEW e \in Nat \ {0}
    PROVE  n \div e = 2 * (n \div (2 * e)) + ((n \div e) % 2)
<1>1. PICK x \in Nat, s \in Nat : x = n \div e /\ n = x * e + s /\ s < e
  BY DivNat
<1>2. PICK y \in Nat, b \in {0, 1} : x = 2 * y + b /\ b = x % 2
  <2>1. x \div 2 \in Nat /\ x % 2 \in {0, 1} /\ x = 2 * (x \div 2) + (x % 2)
    OBVIOUS
  <2> QED  BY <2>1
<1>3. n = y * (2 * e) + (b * e + s)
  BY <1>1, <1>2
<1>4. b * e + s < 2 * e /\ b * e + s \in Nat /\ 2 * e \in Nat \ {0}
  BY <1>1, <1>2
<1>5. n \div (2 * e) = y
  BY <1>3, <1>4, DivUnique
<1> QED  BY <1>1, <1>2, <1>5

----------------------------------------------------------------------------
(* A turn of the long division.                                            *)

(* Half a word.                                                            *)
LEMMA HalfWord ==
    \E half \in Nat \ {0} : WORD = 2 * half /\ WORD \div 2 = half
<1>1. 1 \in Nat /\ BITS - 1 \in 0 .. 4 * BITS - 1 /\ (BITS - 1) + 1 = BITS
  BY MulDivAssumption
<1>2. LIMB = 2 * 2 ^ (BITS - 1) /\ 2 ^ (BITS - 1) \in Nat \ {0}
  BY <1>1, PowerStep DEF LIMB
<1>3. PICK h \in Nat \ {0} : LIMB = 2 * h
  BY <1>2
<1>4. PICK half \in Nat \ {0} : half = h * LIMB
  <2>1. h * LIMB \in Nat \ {0}
    BY WordPower
  <2> QED  BY <2>1
<1>5. WORD = 2 * half
  <2>1. WORD = (2 * h) * LIMB
    BY <1>3 DEF WORD
  <2> QED  BY <1>4, <2>1, WordPower
<1> QED  BY <1>5

(* The remainder of twice the leading part and a bit, although the code    *)
(* doubles it in a word: what is shifted out is noticed, and the wrapping  *)
(* subtraction makes up for it.                                            *)
LEMMA Turn ==
    ASSUME NEW leading \in Nat, NEW d \in 1 .. WORD - 1, NEW b \in {0, 1},
           NEW r, r = leading % d
    PROVE  LET next == ((2 * r) % WORD) + b
               after == 2 * leading + b
           IN  /\ exceeds(r, next, d) => /\ (next - d) % WORD = after % d
                                         /\ after \div d = 2 * (leading \div d) + 1
               /\ ~exceeds(r, next, d) => /\ next = after % d
                                          /\ after \div d = 2 * (leading \div d)
<1> DEFINE next == ((2 * r) % WORD) + b
           after == 2 * leading + b
<1>0. WORD \in Nat \ {0} /\ d \in Nat \ {0} /\ d < WORD
  BY WordPower
<1>1. PICK q \in Nat : q = leading \div d /\ leading = q * d + r /\ r \in Nat /\ r < d
  BY <1>0, DivNat
<1>2. PICK half \in Nat \ {0} : WORD = 2 * half /\ WORD \div 2 = half
  BY HalfWord
<1>3. /\ r >= half => r \div half = 1
      /\ r < half => r \div half = 0
  <2>1. r < 2 * half
    BY <1>0, <1>1, <1>2
  <2>2. ASSUME r >= half PROVE r \div half = 1
    BY <1>1, <2>1, <2>2, DivUnique
  <2>3. ASSUME r < half PROVE r \div half = 0
    BY <1>1, <2>3, DivUnique
  <2> QED  BY <2>2, <2>3
<1>4. /\ r >= half => (2 * r) % WORD = 2 * r - WORD
      /\ r < half => (2 * r) % WORD = 2 * r
  <2>1. ASSUME r >= half PROVE (2 * r) % WORD = 2 * r - WORD
    <3>1. PICK n \in Nat, m \in Nat : n = 2 * r /\ m = 2 * r - WORD
      BY <1>0, <1>1, <1>2, <2>1
    <3>2. n = 1 * WORD + m /\ m < WORD
      BY <1>0, <1>1, <3>1
    <3>3. n % WORD = m
      BY <1>0, <3>2, DivUnique
    <3> QED  BY <3>1, <3>3
  <2>2. ASSUME r < half PROVE (2 * r) % WORD = 2 * r
    <3>1. 2 * r \in Nat /\ 2 * r < WORD /\ 2 * r = 0 * WORD + 2 * r
      BY <1>0, <1>1, <1>2, <2>2
    <3> QED  BY <1>0, <3>1, DivUnique
  <2> QED  BY <2>1, <2>2
<1>5. after \in Nat /\ after = (2 * q) * d + (2 * r + b) /\ 2 * r + b < 2 * d
  BY <1>0, <1>1
<1>6. exceeds(r, next, d) <=> 2 * r + b >= d
  BY <1>0, <1>1, <1>2, <1>3, <1>4 DEF exceeds
<1>7. CASE 2 * r + b >= d
  <2>1. PICK s \in Nat : s = 2 * r + b - d /\ s < d
    BY <1>0, <1>1, <1>5, <1>7
  <2>2. after = (2 * q + 1) * d + s
    BY <1>0, <1>5, <2>1
  <2>3. after \div d = 2 * q + 1 /\ after % d = s
    <3>1. 2 * q + 1 \in Int /\ after \in Int
      BY <1>5
    <3> HIDE DEF after
    <3> QED  BY <1>0, <2>1, <2>2, <3>1, DivUnique
  <2>4. (next - d) % WORD = s
    <3>1. PICK t \in Nat : t = (2 * r) % WORD /\ (t = 2 * r \/ t = 2 * r - WORD)
      BY <1>0, <1>1, <1>2, <1>4
    <3>2. PICK n \in Int, u \in Int : n = next - d /\ n = u * WORD + s
      <4>1. next - d = s \/ next - d = s - WORD
        BY <1>0, <1>1, <2>1, <3>1
      <4>2. next - d \in Int
        BY <1>0, <3>1
      <4>3. next - d = 0 * WORD + s \/ next - d = (-1) * WORD + s
        BY <1>0, <4>1
      <4> QED  BY <4>2, <4>3
    <3>3. n % WORD = s
      <4>1. n = u * WORD + s /\ s < WORD
        BY <1>0, <2>1, <3>2
      <4> QED  BY <1>0, <4>1, DivUnique
    <3> QED  BY <3>2, <3>3
  <2> QED  BY <1>1, <1>6, <1>7, <2>3, <2>4
<1>8. CASE 2 * r + b < d
  <2>1. after \div d = 2 * q /\ after % d = 2 * r + b
    <3>1. PICK n \in Int, u \in Int, s \in Nat : n = after /\ u = 2 * q /\ s = 2 * r + b
      BY <1>1, <1>5
    <3>2. n = u * d + s /\ s < d
      BY <1>5, <1>8, <3>1
    <3>3. n \div d = u /\ n % d = s
      BY <1>0, <3>2, DivUnique
    <3> QED  BY <3>1, <3>3
  <2>2. next = 2 * r + b
    BY <1>0, <1>1, <1>2, <1>4, <1>8
  <2>3. ~exceeds(r, next, d)
    BY <1>0, <1>1, <1>6, <1>8
  <2> QED  BY <1>1, <2>1, <2>2, <2>3
<1> QED  BY <1>0, <1>1, <1>7, <1>8

----------------------------------------------------------------------------
(* The invariant.                                                          *)

(* What mul_div_floor asks of its callers, and what a call for fees stands *)
(* for: the part taken off beforehand and the rest make up the share.      *)
CallOK(c) ==
    /\ c \in [a : 0 .. WORD - 1, b : 0 .. WORD - 1, d : 1 .. WORD - 1, base : Nat, fee : Nat]
    /\ (c.a * c.b) \div c.d < WORD
    /\ c.fee > 0 => /\ c.fee < WORD
                    /\ c.b <= c.d
                    /\ c.fee * c.b = c.base * c.d + c.a * c.b

(* The two properties of the runs, for calls made as the code makes them.  *)
DivisionInv ==
    /\ CallOK(call)
    /\ pc = "divide" => i \in 0 .. 4 * BITS
    /\ LongDivision
    /\ pc = "idle" => call.fee = 0
    /\ FeeSplitExact

(* The quotient of a call for fees is the floor of the juniors' share, and *)
(* the clamps of distribute_fees do not bite.                              *)
LEMMA ReturnedExact ==
    ASSUME NEW c, CallOK(c), c.fee > 0
    PROVE  LET s == Returned(c, (c.a * c.b) \div c.d)
           IN  /\ s.junior + s.senior = c.fee
               /\ s.junior * c.d <= c.fee * c.b
               /\ c.fee * c.b < (s.junior + 1) * c.d
<1>0. /\ c.a \in Nat /\ c.b \in Nat /\ c.d \in Nat \ {0} /\ c.base \in Nat /\ c.fee \in Nat
      /\ c.fee < WORD /\ c.b <= c.d /\ WORD \in Nat
      /\ c.fee * c.b = c.base * c.d + c.a * c.b
  BY WordPower DEF CallOK
<1>1. PICK n \in Nat : n = c.a * c.b
  BY <1>0, Times
<1>2. PICK part \in Nat, r \in Nat : n \div c.d = part /\ n = part * c.d + r /\ r < c.d
  BY <1>0, DivNat
<1>3. PICK j \in Nat : j = c.base + part
  BY <1>0
<1>4. c.fee * c.b = j * c.d + r
  <2>1. j * c.d = c.base * c.d + part * c.d
    BY <1>0, <1>3
  <2> QED  BY <1>0, <1>1, <1>2, <2>1, Times
<1>5. (j + 1) * c.d = j * c.d + c.d /\ j * c.d \in Nat
  BY <1>0, OneMore, Times
<1>6. j <= c.fee
  <2>1. c.b * c.fee <= c.d * c.fee
    BY <1>0, Times
  <2>2. ASSUME c.fee < j PROVE FALSE
    <3>1. (c.fee + 1) * c.d <= j * c.d
      BY <1>0, <2>2, Times
    <3>2. /\ (c.fee + 1) * c.d = c.fee * c.d + c.d
          /\ c.fee * c.d = c.d * c.fee /\ c.b * c.fee = c.fee * c.b
      BY <1>0, OneMore
    <3>3. c.fee * c.d \in Nat /\ c.fee * c.b \in Nat
      BY <1>0, Times
    <3> QED  BY <1>0, <1>2, <1>4, <1>5, <2>1, <3>1, <3>2, <3>3
  <2> QED  BY <1>0, <2>2
<1>7. Min({c.base + part, WORD - 1, c.fee}) = j
  <2>1. \A y \in {c.base + part, WORD - 1, c.fee} : j <= y /\ y \in Int
    BY <1>0, <1>3, <1>6
  <2>2. j \in {c.base + part, WORD - 1, c.fee}
    BY <1>3
  <2> QED  BY <2>1, <2>2 DEF Min
<1>8. Returned(c, (c.a * c.b) \div c.d) = [junior |-> j, senior |-> c.fee - j]
  BY <1>1, <1>2, <1>7 DEF Returned
<1> QED  BY <1>0, <1>2, <1>4, <1>5, <1>8

(* At the start of the division nothing is leading yet.                    *)
LEMMA NothingLeading ==
    ASSUME NEW c, CallOK(c)
    PROVE  (c.a * c.b) \div 2 ^ (4 * BITS) = 0
<1>0. /\ c.a \in Nat /\ c.b \in Nat /\ WORD \in Nat \ {0} /\ c.a < WORD /\ c.b < WORD
      /\ 2 ^ (4 * BITS) = WORD * WORD
  BY WordPower DEF CallOK
<1>1. c.a * c.b <= c.a * WORD /\ c.a * WORD < WORD * WORD
  <2>1. c.b * c.a <= WORD * c.a /\ (c.a + 1) * WORD <= WORD * WORD
    BY <1>0, Times
  <2>2. (c.a + 1) * WORD = c.a * WORD + WORD /\ c.b * c.a = c.a * c.b /\ WORD * c.a = c.a * WORD
    BY <1>0
  <2> QED  BY <1>0, <2>1, <2>2, Times
<1>2. PICK n \in Nat, w \in Nat \ {0} : n = c.a * c.b /\ w = WORD * WORD /\ n < w
  <2>1. c.a * c.b \in Nat /\ WORD * WORD \in Nat /\ c.a * WORD \in Nat
    BY <1>0, Times
  <2> QED  BY <1>1, <2>1
<1>3. n = 0 * w + n
  OBVIOUS
<1>4. n \div w = 0
  BY <1>2, <1>3, DivUnique
<1> QED  BY <1>0, <1>2, <1>4

(* A call of mul_div_floor, made as it asks to be.                         *)
LEMMA DivideKeeps ==
    ASSUME NEW c, CallOK(c), Divide(c)
    PROVE  DivisionInv'
<1>1. call' = c /\ rem' = 0 /\ CallOK(call')
  BY DEF Divide
<1>2. CASE c.a * c.b < WORD
  <2>1. pc' = "done" /\ split' = Returned(c, (c.a * c.b) \div c.d)
    BY <1>2 DEF Divide
  <2>2. FeeSplitExact'
    BY <1>1, <2>1, ReturnedExact DEF FeeSplitExact
  <2> QED  BY <1>1, <2>1, <2>2 DEF DivisionInv, LongDivision
<1>3. CASE ~(c.a * c.b < WORD)
  <2>1. pc' = "divide" /\ i' = 4 * BITS /\ quo' = 0
    BY <1>3 DEF Divide
  <2>2. (c.a * c.b) \div 2 ^ (4 * BITS) = 0
    BY NothingLeading
  <2>3. c.d \in Nat \ {0} /\ 2 ^ (4 * BITS) \in Nat
    BY WordPower, Times DEF CallOK
  <2>4. 0 % c.d = 0 /\ (0 \div c.d) * 2 ^ (4 * BITS) = 0
    <3>1. 0 = 0 * c.d + 0
      BY <2>3
    <3>2. 0 % c.d = 0 /\ 0 \div c.d = 0
      BY <2>3, <3>1, DivUnique
    <3> QED  BY <2>3, <3>2
  <2>5. LongDivision'
    BY <1>1, <2>1, <2>2, <2>4 DEF LongDivision
  <2>6. i' \in 0 .. 4 * BITS
    BY <2>1, MulDivAssumption
  <2> QED  BY <1>1, <2>1, <2>5, <2>6 DEF DivisionInv, FeeSplitExact
<1> QED  BY <1>2, <1>3

(* distribute_fees keeps to the precondition of mul_div_floor: the junior  *)
(* weight is part of the total weight.                                     *)
LEMMA FeesKeep ==
    ASSUME DivisionInv, NEW junior \in Balances, NEW senior \in Balances,
           NEW mult \in Multipliers, NEW fee \in Fees,
           distribute_fees(junior, senior, mult, fee)
    PROVE  DivisionInv'
<1> DEFINE weight == junior * mult
           total == weight + senior * SCALE
           request(a, base) == [a |-> a, b |-> weight, d |-> total, base |-> base, fee |-> fee]
<1>0. /\ junior \in Nat /\ senior \in Nat /\ mult \in Nat /\ fee \in Nat /\ SCALE \in Nat
      /\ fee < LIMB /\ LIMB \in Nat /\ WORD \in Nat /\ LIMB <= WORD
  <2>1. LIMB <= LIMB * LIMB
    BY WordPower, Times
  <2> QED  BY <2>1, MulDivAssumption, WordPower DEF WORD
<1>1. weight \in Nat /\ total \in Nat /\ weight <= total /\ total < WORD
  <2>1. weight \in Nat /\ senior * SCALE \in Nat
    BY <1>0, Times
  <2> QED  BY <2>1, MulDivAssumption
<1> HIDE DEF weight, total
<1>2. CASE fee = 0 \/ junior + senior = 0 \/ total = 0
  <2>1. pc = "idle" /\ pc' = "done" /\ UNCHANGED <<call, i, rem, quo, split>>
    BY <1>2 DEF distribute_fees, total, weight
  <2> QED  BY <2>1 DEF DivisionInv, LongDivision, FeeSplitExact
<1>3. CASE ~(fee = 0 \/ junior + senior = 0 \/ total = 0)
  <2>0. total \in Nat \ {0}
    BY <1>1, <1>3
  <2>1. ASSUME NEW a \in Nat, a <= fee PROVE (a * weight) \div total < WORD
    <3>1. PICK n \in Nat, q \in Nat, r \in Nat :
             n = a * weight /\ n \div total = q /\ n = q * total + r
      <4>1. PICK n \in Nat : n = a * weight
        BY <1>1, <2>1, Times
      <4> QED  BY <2>0, <4>1, DivNat
    <3>2. weight * a <= total * a
      BY <1>1, <2>1, Times
    <3>3. q <= a
      <4>1. ASSUME a < q PROVE FALSE
        <5>1. (a + 1) * total <= q * total
          BY <2>0, <2>1, <3>1, <4>1, Times
        <5>2. (a + 1) * total = a * total + total /\ total * a = a * total /\ weight * a = a * weight
          BY <1>1, <2>1, OneMore
        <5>3. q * total \in Nat /\ a * total \in Nat
          BY <1>1, <2>1, <3>1, Times
        <5> QED  BY <2>0, <3>1, <3>2, <5>1, <5>2, <5>3
      <4> QED  BY <2>1, <3>1, <4>1
    <3> QED  BY <1>0, <2>1, <3>1, <3>3
  <2>2. CASE fee * weight < WORD
    <3>1. Divide(request(fee, 0))
      BY <1>3, <2>2 DEF distribute_fees, total, weight
    <3>2. CallOK(request(fee, 0))
      BY <1>0, <1>1, <2>0, <2>1 DEF CallOK
    <3> QED  BY <3>1, <3>2, DivideKeeps
  <2>3. CASE ~(fee * weight < WORD)
    <3> DEFINE c == request(fee % total, (fee \div total) * weight)
    <3>1. Divide(c)
      BY <1>3, <2>3 DEF distribute_fees, total, weight
    <3>2. PICK q \in Nat, r \in Nat : /\ fee \div total = q /\ fee % total = r
                                      /\ fee = q * total + r /\ r < total
      BY <1>0, <2>0, DivNat
    <3>3. fee * weight = (q * weight) * total + r * weight /\ q * weight \in Nat
      BY <1>0, <1>1, <3>2
    <3>4. r <= fee
      <4>1. q * total \in Nat
        BY <1>1, <3>2, Times
      <4> QED  BY <3>2, <4>1
    <3>5. /\ c \in [a : 0 .. WORD - 1, b : 0 .. WORD - 1, d : 1 .. WORD - 1, base : Nat, fee : Nat]
          /\ c.a = r /\ c.b = weight /\ c.d = total /\ c.base = q * weight /\ c.fee = fee
      BY <1>0, <1>1, <2>0, <3>2, <3>3, <3>4
    <3> HIDE DEF c
    <3>6. CallOK(c)
      BY <1>0, <1>1, <2>1, <3>2, <3>3, <3>4, <3>5 DEF CallOK
    <3> QED  BY <3>1, <3>6, DivideKeeps
  <2> QED  BY <2>2, <2>3
<1> QED  BY <1>2, <1>3

(* A turn takes the next bit into the remainder and the quotient; no bit   *)
(* of the quotient is beyond the word it is kept in.                       *)
LEMMA StepKeeps ==
    ASSUME DivisionInv, Step
    PROVE  DivisionInv'
<1> DEFINE k == i - 1
           product == limbs(call.a, call.b)
           next == ((2 * rem) % WORD) + bit(product, k)
<1>0. /\ pc = "divide" /\ i' = k /\ UNCHANGED <<pc, call, split>>
      /\ k \in 0 .. 4 * BITS - 1 /\ k + 1 = i /\ BITS \in Nat
      /\ IF exceeds(rem, next, call.d)
         THEN /\ rem' = (next - call.d) % WORD
              /\ quo' = IF k < 2 * BITS THEN quo + 2 ^ k ELSE quo
         ELSE rem' = next /\ quo' = quo
  BY MulDivAssumption DEF Step, DivisionInv
<1>1. /\ call.a \in 0 .. WORD - 1 /\ call.b \in 0 .. WORD - 1 /\ call.d \in 1 .. WORD - 1
      /\ WORD \in Nat /\ call.d \in Nat \ {0}
      /\ (call.a * call.b) \div call.d < WORD
  BY WordPower DEF DivisionInv, CallOK
<1>2. PICK n \in Nat : n = call.a * call.b
  BY <1>1, Times
<1>3. PICK e \in Nat \ {0} : e = 2 ^ k /\ 2 ^ i = 2 * e
  BY <1>0, PowerStep
<1>4. PICK leading \in Nat, after \in Nat, b \in {0, 1} :
         /\ leading = n \div (2 * e) /\ after = n \div e
         /\ b = after % 2 /\ after = 2 * leading + b
  <2>1. 2 * e \in Nat \ {0}
    OBVIOUS
  <2>2. n \div e \in Nat /\ n \div (2 * e) \in Nat
    BY <2>1, DivNat
  <2>3. (n \div e) % 2 \in {0, 1}
    BY <2>2
  <2> QED  BY <2>2, <2>3, Leading
<1>5. bit(product, k) = b
  <2>1. product.hi \in Nat /\ product.lo \in Nat /\ product.lo < WORD
        /\ product.hi * WORD + product.lo = n
    BY <1>1, <1>2, LimbsProduct
  <2>2. bit(product, k) = ((product.hi * WORD + product.lo) \div 2 ^ k) % 2
    BY <1>0, <2>1, BitOf
  <2> QED  BY <1>3, <1>4, <2>1, <2>2
<1>6. rem = leading % call.d /\ quo = (leading \div call.d) * (2 * e)
  BY <1>0, <1>2, <1>3, <1>4 DEF DivisionInv, LongDivision
<1>7. next = ((2 * rem) % WORD) + b
  BY <1>5
<1> HIDE DEF product, next
<1>8. /\ exceeds(rem, next, call.d) => /\ (next - call.d) % WORD = after % call.d
                                       /\ after \div call.d = 2 * (leading \div call.d) + 1
      /\ ~exceeds(rem, next, call.d) => /\ next = after % call.d
                                        /\ after \div call.d = 2 * (leading \div call.d)
  <2>1. \A l \in Nat, d \in 1 .. WORD - 1, c \in {0, 1} :
           LET r == l % d
               sum == ((2 * r) % WORD) + c
               twice == 2 * l + c
           IN  /\ exceeds(r, sum, d) => /\ (sum - d) % WORD = twice % d
                                        /\ twice \div d = 2 * (l \div d) + 1
               /\ ~exceeds(r, sum, d) => /\ sum = twice % d
                                         /\ twice \div d = 2 * (l \div d)
    BY Turn, ZenonT(40)
  <2> DEFINE sum == ((2 * (leading % call.d)) % WORD) + b
             twice == 2 * leading + b
  <2>2. /\ exceeds(leading % call.d, sum, call.d) =>
              (sum - call.d) % WORD = twice % call.d /\ twice \div call.d = 2 * (leading \div call.d) + 1
        /\ ~exceeds(leading % call.d, sum, call.d) =>
              sum = twice % call.d /\ twice \div call.d = 2 * (leading \div call.d)
    BY <1>1, <2>1, Zenon
  <2>3. sum = next /\ twice = after
    BY <1>4, <1>6, <1>7
  <2> HIDE DEF sum, twice
  <2> QED  BY <1>6, <2>2, <2>3
<1>9. rem' = after % call.d
  BY <1>0, <1>8
<1>10. quo' = (after \div call.d) * e
  <2>1. PICK q \in Nat : q = leading \div call.d
    BY <1>1, DivNat
  <2>2. quo = (2 * q) * e /\ (2 * q + 1) * e = (2 * q) * e + e
    <3>1. q * (2 * e) = (2 * q) * e
      OBVIOUS
    <3>2. (2 * q + 1) * e = (2 * q) * e + e
      OBVIOUS
    <3> QED  BY <1>6, <2>1, <3>1, <3>2
  <2>3. CASE exceeds(rem, next, call.d)
    <3>1. after \div call.d = 2 * q + 1
      BY <1>8, <2>1, <2>3
    <3>2. k < 2 * BITS
      <4>1. SUFFICES ASSUME k >= 2 * BITS PROVE FALSE
        BY <1>0
      <4>2. call.d <= after
        <5>1. PICK x \in Nat, r \in Nat : 
                 after \div call.d = x /\ after % call.d = r /\ after = x * call.d + r /\ r < call.d
          BY <1>1, DivNat
        <5>2. (2 * q + 1) * call.d = (2 * q) * call.d + call.d /\ (2 * q) * call.d \in Nat
          <6>1. 2 * q \in Nat
            OBVIOUS
          <6> QED  BY <1>1, <6>1, OneMore, Times
        <5> QED  BY <1>1, <3>1, <5>1, <5>2
      <4>3. after * e <= n
        <5>1. PICK x \in Nat, r \in Nat : n \div e = x /\ n = x * e + r
          BY DivNat
        <5>2. after * e \in Nat
          BY Times
        <5> QED  BY <1>4, <5>1, <5>2
      <4>4. WORD <= e
        <5>1. k - 2 * BITS \in 0 .. 4 * BITS /\ 2 * BITS \in 0 .. 4 * BITS
          BY <1>0, <4>1
        <5>2. 2 * BITS + (k - 2 * BITS) = k
          BY <1>0
        <5>3. PICK x \in Nat \ {0} : 2 ^ k = 2 ^ (2 * BITS) * x
          BY <5>1, <5>2, PowersOfTwo
        <5>4. WORD * 1 <= WORD * x
          BY <1>1
        <5> QED  BY <1>1, <1>3, <5>3, <5>4, WordPower
      <4>5. call.d * WORD <= n
        <5>1. call.d * e <= after * e
          BY <1>1, <4>2, Times
        <5>2. WORD * call.d <= e * call.d
          BY <1>1, <4>4, Times
        <5>3. WORD * call.d = call.d * WORD /\ e * call.d = call.d * e
          BY <1>1, OneMore
        <5>4. call.d * WORD \in Nat /\ call.d * e \in Nat /\ after * e \in Nat
          BY <1>1, Times
        <5> QED  BY <4>3, <5>1, <5>2, <5>3, <5>4
      <4>6. PICK m \in Nat, r \in Nat : n = m * call.d + r /\ r < call.d /\ m < WORD
        <5>1. PICK m \in Nat, r \in Nat : n \div call.d = m /\ n = m * call.d + r /\ r < call.d
          BY <1>1, DivNat
        <5>2. m < WORD
          BY <1>1, <1>2, <5>1
        <5> QED  BY <5>1, <5>2
      <4>7. (m + 1) * call.d <= WORD * call.d
        BY <1>1, <4>6, Times
      <4>8. (m + 1) * call.d = m * call.d + call.d /\ WORD * call.d = call.d * WORD
        BY <1>1, OneMore
      <4>9. m * call.d \in Nat /\ call.d * WORD \in Nat
        BY <1>1, Times
      <4> QED  BY <1>1, <4>5, <4>6, <4>7, <4>8, <4>9
    <3> QED  BY <1>0, <1>3, <2>2, <2>3, <3>1, <3>2
  <2>4. CASE ~exceeds(rem, next, call.d)
    BY <1>0, <1>8, <2>1, <2>2, <2>4
  <2> QED  BY <2>3, <2>4
<1>11. LongDivision'
  <2>1. /\ i' = k /\ call' = call
        /\ (call.a * call.b) \div 2 ^ k = after /\ 2 ^ k = e
    BY <1>0, <1>2, <1>3, <1>4
  <2> QED  BY <1>9, <1>10, <2>1 DEF LongDivision
<1>12. i' \in 0 .. 4 * BITS /\ pc' = "divide" /\ call' = call
  BY <1>0
<1> QED  BY <1>11, <1>12 DEF DivisionInv, FeeSplitExact

(* No call at all is a call like any other.                                *)
LEMMA NothingCalled == CallOK(NoCall) /\ NoCall.fee = 0
<1>1. NoCall \in [a : 0 .. WORD - 1, b : 0 .. WORD - 1, d : 1 .. WORD - 1, base : Nat, fee : Nat]
  BY WordPower DEF NoCall
<1>2. (0 * 0) \div 1 < WORD
  BY WordPower
<1> QED  BY <1>1, <1>2 DEF CallOK, NoCall

(* Nothing is divided yet.                                                 *)
LEMMA DivisionInit == Init => DivisionInv
BY NothingCalled DEF Init, DivisionInv, LongDivision, FeeSplitExact

(* Every step keeps the invariant.                                         *)
LEMMA DivisionNext == DivisionInv /\ [Next]_dvars => DivisionInv'
<1> SUFFICES ASSUME DivisionInv, [Next]_dvars PROVE DivisionInv'
  OBVIOUS
<1>1. CASE UNCHANGED dvars
  BY <1>1 DEF dvars, DivisionInv, LongDivision, FeeSplitExact
<1>2. ASSUME NEW junior \in Balances, NEW senior \in Balances, NEW mult \in Multipliers,
             NEW fee \in Fees, distribute_fees(junior, senior, mult, fee)
      PROVE  DivisionInv'
  BY <1>2, FeesKeep
<1>3. ASSUME NEW a \in Operands, NEW b \in Operands, NEW d \in Operands, mul_div_floor(a, b, d)
      PROVE  DivisionInv'
  <2> DEFINE c == [a |-> a, b |-> b, d |-> d, base |-> 0, fee |-> 0]
  <2>1. /\ a \in 0 .. WORD - 1 /\ b \in 0 .. WORD - 1 /\ d \in 1 .. WORD - 1
        /\ (a * b) \div d < WORD /\ Divide(c)
    BY <1>3, MulDivAssumption, WordPower DEF mul_div_floor
  <2>2. CallOK(c)
    BY <2>1 DEF CallOK
  <2> QED  BY <2>1, <2>2, DivideKeeps
<1>4. CASE Step
  BY <1>4, StepKeeps
<1>5. CASE Return
  <2>1. /\ pc = "divide" /\ i = 0 /\ pc' = "done" /\ call' = call
        /\ split' = Returned(call, quo)
    BY <1>5 DEF Return
  <2>2. PICK n \in Nat, d \in Nat \ {0} : n = call.a * call.b /\ d = call.d
    BY WordPower, Times DEF DivisionInv, CallOK
  <2>3. quo = ((n \div 1) \div d) * 1
    BY <2>1, <2>2, PowersOfTwo DEF DivisionInv, LongDivision
  <2>4. quo = n \div d
    <3>1. n \div d \in Nat /\ n \div 1 = n
      BY DivNat
    <3> QED  BY <2>3, <3>1
  <2>5. FeeSplitExact'
    BY <2>1, <2>2, <2>4, ReturnedExact DEF DivisionInv, FeeSplitExact
  <2> QED  BY <2>1, <2>5 DEF DivisionInv, LongDivision
<1>6. CASE Again
  <2>1. pc' = "idle" /\ call' = NoCall
    BY <1>6 DEF Again
  <2> QED  BY <2>1, NothingCalled DEF DivisionInv, LongDivision, FeeSplitExact
<1> QED  BY <1>1, <1>2, <1>3, <1>4, <1>5, <1>6 DEF Next

(* The invariant holds throughout.                                         *)
THEOREM DivisionInvariance == Spec => []DivisionInv
BY DivisionInit, DivisionNext, PTL DEF Spec

(* mul_div_floor computes floor(a * b / d) for every width of a limb, the  *)
(* code's 64 bits included: after every turn the remainder and quotient    *)
(* are those of the leading bits.                                          *)
THEOREM DivisionExact == Spec => []LongDivision
<1>1. DivisionInv => LongDivision
  BY DEF DivisionInv
<1> QED  BY <1>1, DivisionInvariance, PTL

(* distribute_fees gives the juniors the exact floor of their share by     *)
(* weight and the seniors the rest, whichever way it takes.                *)
THEOREM FeesSplitByWeight == Spec => []FeeSplitExact
<1>1. DivisionInv => FeeSplitExact
  BY DEF DivisionInv
<1> QED  BY <1>1, DivisionInvariance, PTL

=============================================================================
