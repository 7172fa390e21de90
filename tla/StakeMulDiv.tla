----------------------------- MODULE StakeMulDiv -----------------------------
(***************************************************************************)
(* The fee split of math.rs at the word widths the code computes it in:    *)
(* distribute_fees, and the 256-bit multiply and divide (mul_div_floor) it *)
(* falls back to when a product leaves u128.  A limb has BITS bits (64 in  *)
(* the code) and a word, the code's u128, two limbs; the long division     *)
(* takes a step per bit.  StakeMath!distribute_fees takes the same split   *)
(* in unbounded integers.                                                  *)
(***************************************************************************)
EXTENDS Integers, FiniteSetsExt

CONSTANTS
    BITS,         \* bits of a u64
    SCALE,        \* the weight of a senior unit: 10000 basis points
    Multipliers,  \* junior_fee_mult_bps on that scale
    Balances,     \* bound: tranche balances
    Fees,         \* bound: fees split
    Operands      \* bound: operands mul_div_floor is called with

LIMB == 2 ^ BITS
WORD == LIMB * LIMB

\* The weights of the largest balances fit a word, as u64 * u16 fits u128.
ASSUME MulDivAssumption ==
    /\ BITS \in Nat \ {0}
    /\ SCALE \in Nat
    /\ Multipliers \subseteq Nat
    /\ Balances \cup Fees \subseteq 0 .. LIMB - 1
    /\ Operands \subseteq 0 .. WORD - 1
    /\ \A x, y \in Balances, m \in Multipliers : x * m + y * SCALE < WORD

\* What a power of two is, up to the bits of a double word: a proof needs it
\* said, since the provers know no exponents.
ASSUME PowersOfTwo ==
    /\ 2 ^ 0 = 1 /\ 2 ^ 1 = 2
    /\ \A j, k \in 0 .. 4 * BITS : 2 ^ j \in Nat \ {0} /\ 2 ^ (j + k) = 2 ^ j * 2 ^ k

VARIABLES
    pc,            \* "idle", "divide" or "done"
    call,          \* the arguments mul_div_floor works on, and the request behind them
    i, rem, quo,   \* the long division's variables
    split          \* the fees distribute_fees returned

dvars == <<pc, call, i, rem, quo, split>>

NoSplit == [junior |-> 0, senior |-> 0]
NoCall == [a |-> 0, b |-> 0, d |-> 1, base |-> 0, fee |-> 0]

----------------------------------------------------------------------------
(* The double-width product.                                               *)

\* Mutant: the carry out of the cross terms is dropped.
limbs_without_carry(a, b) ==
    LET mid == (a % LIMB) * (b \div LIMB) + (a \div LIMB) * (b % LIMB)
        low == (a % LIMB) * (b % LIMB) + (((mid % WORD) * LIMB) % WORD)
    IN  [hi |-> (a \div LIMB) * (b \div LIMB) + (mid % WORD) \div LIMB + low \div WORD,
         lo |-> low % WORD]

limbs(a, b) ==
    LET cross == (a % LIMB) * (b \div LIMB) + (a \div LIMB) * (b % LIMB)
        mid == cross % WORD                \* overflowing_add
        mid_carry == cross \div WORD
        low == (a % LIMB) * (b % LIMB) + ((mid * LIMB) % WORD)
    IN  [hi |-> (a \div LIMB) * (b \div LIMB) + mid \div LIMB + mid_carry * LIMB + low \div WORD,
         lo |-> low % WORD]

\* Bit k of the product.
bit(p, k) ==
    IF k >= 2 * BITS THEN (p.hi \div 2 ^ (k - 2 * BITS)) % 2 ELSE (p.lo \div 2 ^ k) % 2

\* The remainder with the bit shifted out of it (rem_top:rem) reaches d.
exceeds(r, next, d) == r \div (WORD \div 2) = 1 \/ next >= d

----------------------------------------------------------------------------
(* distribute_fees.                                                        *)

\* Mutant (#120): what does not fit is given to the juniors whole.
give_all_to_junior(c, part2) ==
    LET j == IF c.a * c.b < WORD THEN part2 ELSE c.fee
    IN  [junior |-> j, senior |-> c.fee - j]

\* The junior part, clamped to the fee; the rest is the seniors'.
Returned(c, part2) ==
    LET j == Min({c.base + part2, WORD - 1, c.fee})
    IN  [junior |-> j, senior |-> c.fee - j]

Init == pc = "idle" /\ call = NoCall /\ i = 0 /\ rem = 0 /\ quo = 0 /\ split = NoSplit

\* mul_div_floor(a, b, d): at once when the product fits a word, otherwise
\* with the long division.  base is what distribute_fees adds the result to.
Divide(c) ==
    /\ call' = c
    /\ rem' = 0
    /\ IF c.a * c.b < WORD
       THEN /\ pc' = "done" /\ i' = 0
            /\ quo' = (c.a * c.b) \div c.d
            /\ split' = Returned(c, quo')
       ELSE /\ pc' = "divide" /\ i' = 4 * BITS
            /\ quo' = 0
            /\ UNCHANGED split

\* A split of nothing, or among nobody, is (0, 0); a product that fits a word
\* is divided at once; any other fee is taken apart by the total weight.
distribute_fees(junior, senior, mult, fee) ==
    LET junior_weight == junior * mult
        total_weight == junior_weight + senior * SCALE
        request(a, base) ==
            [a |-> a, b |-> junior_weight, d |-> total_weight, base |-> base, fee |-> fee]
    IN  /\ pc = "idle"
        /\ IF fee = 0 \/ junior + senior = 0 \/ total_weight = 0
           THEN pc' = "done" /\ UNCHANGED <<call, i, rem, quo, split>>
           ELSE Divide(IF fee * junior_weight < WORD
                       THEN request(fee, 0)
                       ELSE request(fee % total_weight, (fee \div total_weight) * junior_weight))

\* A call of mul_div_floor itself, under its documented precondition.
mul_div_floor(a, b, d) ==
    /\ pc = "idle"
    /\ d # 0 /\ (a * b) \div d < WORD
    /\ Divide([a |-> a, b |-> b, d |-> d, base |-> 0, fee |-> 0])

\* A turn of the long division.
Step ==
    LET k == i - 1
        next == ((2 * rem) % WORD) + bit(limbs(call.a, call.b), k)
    IN  /\ pc = "divide" /\ i > 0
        /\ i' = k
        /\ IF exceeds(rem, next, call.d)
           THEN /\ rem' = (next - call.d) % WORD                    \* wrapping_sub
                /\ quo' = IF k < 2 * BITS THEN quo + 2 ^ k ELSE quo
           ELSE rem' = next /\ UNCHANGED quo
        /\ UNCHANGED <<pc, call, split>>

Return ==
    /\ pc = "divide" /\ i = 0
    /\ pc' = "done"
    /\ split' = Returned(call, quo)
    /\ UNCHANGED <<call, i, rem, quo>>

\* The next call.
Again ==
    /\ pc = "done"
    /\ pc' = "idle" /\ call' = NoCall /\ i' = 0 /\ rem' = 0 /\ quo' = 0 /\ split' = NoSplit

Next ==
    \/ \E junior, senior \in Balances, mult \in Multipliers, fee \in Fees :
          distribute_fees(junior, senior, mult, fee)
    \/ \E a, b, d \in Operands : mul_div_floor(a, b, d)
    \/ Step \/ Return \/ Again

Spec == Init /\ [][Next]_dvars

----------------------------------------------------------------------------
(* Properties.                                                             *)

(***************************************************************************)
(* mul_div_floor loses no carry and no bit: after every turn the remainder *)
(* and the quotient are those of the product's leading bits, so the result *)
(* is floor(a * b / d), operands up to the full word included.             *)
(***************************************************************************)
LongDivision ==
    pc = "divide" =>
        LET leading == (call.a * call.b) \div 2 ^ i
        IN  rem = leading % call.d /\ quo = (leading \div call.d) * 2 ^ i

(***************************************************************************)
(* distribute_fees splits every fee by weight, rounded down for the        *)
(* juniors, whichever of its three ways it computes the split; the two     *)
(* parts are the fee.                                                      *)
(***************************************************************************)
FeeSplitExact ==
    pc = "done" /\ call.fee > 0 =>
        /\ split.junior + split.senior = call.fee
        /\ split.junior * call.d <= call.fee * call.b
        /\ call.fee * call.b < (split.junior + 1) * call.d
=============================================================================
