-------------------------- MODULE StakeCodecProofs --------------------------
(***************************************************************************)
(* The codecs agree for every byte size, every number of each type and     *)
(* every key.                                                              *)
(***************************************************************************)
EXTENDS StakeCodec, SequenceTheorems, TLAPS

----------------------------------------------------------------------------
(* Byte strings.                                                           *)

(* s is a string of n bytes.                                               *)
Text(s, n) == s \in Seq(Int) /\ Len(s) = n

(* s stands in d behind the first from bytes.                              *)
At(d, from, s) == \A i \in 1 .. Len(s) : d[from + i] = s[i]

(* A tuple of n numbers is one.                                            *)
LEMMA Tuple ==
    ASSUME NEW n \in Nat, NEW f \in [1 .. n -> Int]
    PROVE  Text(f, n)
<1>1. f \in Seq(Int)
  OBVIOUS
<1>2. Len(f) = n
  BY <1>1, LenProperties
<1> QED  BY <1>1, <1>2 DEF Text

(* A string stands at the start of itself.                                 *)
LEMMA AtSelf ==
    ASSUME NEW s, NEW n \in Nat, Text(s, n)
    PROVE  At(s, 0, s)
BY DEF At, Text

(* Two strings one behind the other.                                       *)
LEMMA JoinTwo ==
    ASSUME NEW s, NEW t, NEW m \in Nat, NEW n \in Nat, Text(s, m), Text(t, n)
    PROVE  /\ Text(s \o t, m + n)
           /\ At(s \o t, 0, s)
           /\ At(s \o t, m, t)
<1>1. /\ s \o t \in Seq(Int) /\ Len(s \o t) = m + n
      /\ \A i \in 1 .. m + n : (s \o t)[i] = IF i <= m THEN s[i] ELSE t[i - m]
  BY ConcatProperties DEF Text
<1>2. ASSUME NEW i \in 1 .. m PROVE (s \o t)[0 + i] = s[i]
  BY <1>1
<1>3. ASSUME NEW i \in 1 .. n PROVE (s \o t)[m + i] = t[i]
  <2>1. m + i \in 1 .. m + n /\ ~(m + i <= m) /\ (m + i) - m = i
    OBVIOUS
  <2> QED  BY <1>1, <2>1
<1> QED  BY <1>1, <1>2, <1>3 DEF At, Text

(* Where a pair stands, its parts stand.                                   *)
LEMMA AtParts ==
    ASSUME NEW d, NEW from \in Nat, NEW s, NEW t, NEW m \in Nat, NEW n \in Nat,
           Text(s, m), Text(t, n), At(d, from, s \o t)
    PROVE  At(d, from, s) /\ At(d, from + m, t)
<1>1. /\ Len(s \o t) = m + n /\ Len(s) = m /\ Len(t) = n
      /\ At(s \o t, 0, s) /\ At(s \o t, m, t)
  BY JoinTwo DEF Text
<1>2. ASSUME NEW i \in 1 .. m PROVE d[from + i] = s[i]
  <2>1. i \in 1 .. m + n /\ (s \o t)[i] = s[i]
    BY <1>1 DEF At
  <2> QED  BY <1>1, <2>1 DEF At
<1>3. ASSUME NEW i \in 1 .. n PROVE d[from + m + i] = t[i]
  <2>1. m + i \in 1 .. m + n /\ (s \o t)[m + i] = t[i]
    BY <1>1 DEF At
  <2>2. d[from + (m + i)] = t[i]
    BY <1>1, <2>1 DEF At
  <2>3. from + (m + i) = from + m + i
    OBVIOUS
  <2> QED  BY <2>2, <2>3
<1> QED  BY <1>1, <1>2, <1>3 DEF At

(* The first byte and the rest of a message.                               *)
LEMMA Message ==
    ASSUME NEW tag \in Int, NEW rest, NEW n \in Nat, Text(rest, n)
    PROVE  /\ Text(<<tag>> \o rest, n + 1)
           /\ <<tag>> \o rest # <<>>
           /\ Head(<<tag>> \o rest) = tag
           /\ Tail(<<tag>> \o rest) = rest
<1> DEFINE d == <<tag>> \o rest
<1>1. Text(<<tag>>, 1)
  BY DEF Text
<1>2. Text(d, n + 1) /\ At(d, 0, <<tag>>) /\ At(d, 1, rest)
  BY <1>1, JoinTwo
<1> HIDE DEF d
<1>3. d # <<>>
  BY <1>2 DEF Text
<1>4. Head(d) = tag
  BY <1>2, <1>3 DEF At, Text
<1>5. /\ Tail(d) \in Seq(Int) /\ Len(Tail(d)) = n
      /\ \A i \in 1 .. n : Tail(d)[i] = d[i + 1]
  BY <1>2, <1>3, HeadTailProperties DEF Text
<1>6. \A i \in 1 .. n : Tail(d)[i] = rest[i]
  BY <1>2, <1>5 DEF At, Text
<1>7. Tail(d) = rest
  BY <1>5, <1>6, SeqEqual DEF Text
<1> QED  BY <1>2, <1>3, <1>4, <1>7 DEF d

----------------------------------------------------------------------------
(* Numbers.                                                                *)

(* A number in two digits.                                                 *)
LEMMA Halves ==
    ASSUME NEW b \in Nat \ {0}, NEW n \in Nat, n < b * b
    PROVE  /\ n % b \in 0 .. b - 1
           /\ n \div b \in 0 .. b - 1
           /\ (n % b) + b * (n \div b) = n
<1>1. n % b \in 0 .. b - 1 /\ n \div b \in Nat /\ n = b * (n \div b) + (n % b)
  OBVIOUS
<1> DEFINE q == n \div b
<1> HIDE DEF q
<1>2. \A x \in Nat : x >= b => b * x >= b * b
  OBVIOUS
<1>3. b * q <= n /\ q \in Nat /\ b * b \in Nat /\ b * q \in Nat
  BY <1>1 DEF q
<1>4. q < b
  BY <1>2, <1>3
<1> QED  BY <1>1, <1>3, <1>4 DEF q

(* The numbers of values of the types.                                     *)
LEMMA Sizes ==
    /\ Radix \in Nat \ {0} /\ U16 \in Nat \ {0} /\ U32 \in Nat \ {0}
    /\ U64 \in Nat \ {0} /\ U128 \in Nat \ {0}
    /\ U64 <= U128
<1>1. \A x \in Nat \ {0} : x * x \in Nat \ {0} /\ x <= x * x
  OBVIOUS
<1> QED  BY <1>1, WireAssumption DEF U16, U32, U64, U128

(* A u16 takes two bytes and is read back from them.                       *)
LEMMA Two ==
    ASSUME NEW n \in 0 .. U16 - 1
    PROVE  /\ Text(le_u16(n), 2)
           /\ \A d : \A from \in Nat : At(d, from, le_u16(n)) => u16_at(d, from) = n
<1>1. /\ n % Radix \in 0 .. Radix - 1
      /\ n \div Radix \in 0 .. Radix - 1
      /\ (n % Radix) + Radix * (n \div Radix) = n
  <2>1. n \in Nat /\ n < Radix * Radix
    BY Sizes DEF U16
  <2> QED  BY <2>1, Sizes, Halves
<1>2. (n \div Radix) % Radix = n \div Radix
  <2>1. \A x \in 0 .. Radix - 1 : x % Radix = x
    BY Sizes
  <2> QED  BY <1>1, <2>1
<1>3. le_u16(n) = <<n % Radix, n \div Radix>>
  BY <1>2 DEF le_u16
<1>4. Text(le_u16(n), 2)
  BY <1>1, <1>3, Sizes DEF Text
<1>5. ASSUME NEW d, NEW from \in Nat, At(d, from, le_u16(n)) PROVE u16_at(d, from) = n
  <2>1. d[from + 1] = n % Radix /\ d[from + 2] = n \div Radix
    BY <1>3, <1>4, <1>5 DEF At, Text
  <2> QED  BY <2>1, <1>1 DEF u16_at
<1> QED  BY <1>4, <1>5

(* A number of twice the bytes is written as its halves.                   *)
LEMMA Doubled ==
    ASSUME NEW b \in Nat \ {0}, NEW w \in Nat, NEW n \in 0 .. b * b - 1,
           NEW s, NEW t, Text(s, w), Text(t, w),
           NEW d, NEW from \in Nat, At(d, from, s \o t),
           NEW x, NEW y,
           At(d, from, s) => x = n % b,
           At(d, from + w, t) => y = n \div b
    PROVE  x + b * y = n
<1>1. (n % b) + b * (n \div b) = n
  <2>1. n \in Nat /\ n < b * b
    OBVIOUS
  <2> QED  BY <2>1, Halves
<1>2. x = n % b /\ y = n \div b
  BY AtParts
<1> QED  BY <1>1, <1>2

(* So does a u32 in four.                                                  *)
LEMMA Four ==
    ASSUME NEW n \in 0 .. U32 - 1
    PROVE  /\ Text(le_u32(n), 4)
           /\ \A d : \A from \in Nat : At(d, from, le_u32(n)) => u32_at(d, from) = n
<1>1. n % U16 \in 0 .. U16 - 1 /\ n \div U16 \in 0 .. U16 - 1
  <2>1. n \in Nat /\ n < U16 * U16
    BY Sizes DEF U32
  <2> QED  BY <2>1, Sizes, Halves
<1>2. Text(le_u16(n % U16), 2) /\ Text(le_u16(n \div U16), 2)
  BY <1>1, Two
<1>3. Text(le_u32(n), 4)
  <2>1. Text(le_u32(n), 2 + 2)
    BY <1>2, JoinTwo DEF le_u32
  <2> QED  BY <2>1
<1>4. ASSUME NEW d, NEW from \in Nat, At(d, from, le_u32(n)) PROVE u32_at(d, from) = n
  <2>1. At(d, from, le_u16(n % U16)) => u16_at(d, from) = n % U16
    BY <1>1, Two
  <2>2. At(d, from + 2, le_u16(n \div U16)) => u16_at(d, from + 2) = n \div U16
    BY <1>1, Two
  <2>3. At(d, from, le_u16(n % U16) \o le_u16(n \div U16)) /\ n \in 0 .. U16 * U16 - 1
    BY <1>4 DEF le_u32, U32
  <2>4. u16_at(d, from) + U16 * u16_at(d, from + 2) = n
    BY <1>2, <2>1, <2>2, <2>3, Sizes, Doubled
  <2> QED  BY <2>4 DEF u32_at
<1> QED  BY <1>3, <1>4

(* A u64 in eight.                                                         *)
LEMMA Eight ==
    ASSUME NEW n \in 0 .. U64 - 1
    PROVE  /\ Text(le_u64(n), 8)
           /\ \A d : \A from \in Nat : At(d, from, le_u64(n)) => u64_at(d, from) = n
<1>1. n % U32 \in 0 .. U32 - 1 /\ n \div U32 \in 0 .. U32 - 1
  <2>1. n \in Nat /\ n < U32 * U32
    BY Sizes DEF U64
  <2> QED  BY <2>1, Sizes, Halves
<1>2. Text(le_u32(n % U32), 4) /\ Text(le_u32(n \div U32), 4)
  BY <1>1, Four
<1>3. Text(le_u64(n), 8)
  <2>1. Text(le_u64(n), 4 + 4)
    BY <1>2, JoinTwo DEF le_u64
  <2> QED  BY <2>1
<1>4. ASSUME NEW d, NEW from \in Nat, At(d, from, le_u64(n)) PROVE u64_at(d, from) = n
  <2>1. At(d, from, le_u32(n % U32)) => u32_at(d, from) = n % U32
    BY <1>1, Four
  <2>2. At(d, from + 4, le_u32(n \div U32)) => u32_at(d, from + 4) = n \div U32
    BY <1>1, Four
  <2>3. At(d, from, le_u32(n % U32) \o le_u32(n \div U32)) /\ n \in 0 .. U32 * U32 - 1
    BY <1>4 DEF le_u64, U64
  <2>4. u32_at(d, from) + U32 * u32_at(d, from + 4) = n
    BY <1>2, <2>1, <2>2, <2>3, Sizes, Doubled
  <2> QED  BY <2>4 DEF u64_at
<1> QED  BY <1>3, <1>4

(* A u128 in sixteen.                                                      *)
LEMMA Sixteen ==
    ASSUME NEW n \in 0 .. U128 - 1
    PROVE  /\ Text(le_u128(n), 16)
           /\ \A d : \A from \in Nat : At(d, from, le_u128(n)) => u128_at(d, from) = n
<1>1. n % U64 \in 0 .. U64 - 1 /\ n \div U64 \in 0 .. U64 - 1
  <2>1. n \in Nat /\ n < U64 * U64
    BY Sizes DEF U128
  <2> QED  BY <2>1, Sizes, Halves
<1>2. Text(le_u64(n % U64), 8) /\ Text(le_u64(n \div U64), 8)
  BY <1>1, Eight
<1>3. Text(le_u128(n), 16)
  <2>1. Text(le_u128(n), 8 + 8)
    BY <1>2, JoinTwo DEF le_u128
  <2> QED  BY <2>1
<1>4. ASSUME NEW d, NEW from \in Nat, At(d, from, le_u128(n)) PROVE u128_at(d, from) = n
  <2>1. At(d, from, le_u64(n % U64)) => u64_at(d, from) = n % U64
    BY <1>1, Eight
  <2>2. At(d, from + 8, le_u64(n \div U64)) => u64_at(d, from + 8) = n \div U64
    BY <1>1, Eight
  <2>3. At(d, from, le_u64(n % U64) \o le_u64(n \div U64)) /\ n \in 0 .. U64 * U64 - 1
    BY <1>4 DEF le_u128, U128
  <2>4. u64_at(d, from) + U64 * u64_at(d, from + 8) = n
    BY <1>2, <2>1, <2>2, <2>3, Sizes, Doubled
  <2> QED  BY <2>4 DEF u128_at
<1> QED  BY <1>3, <1>4

(* A key is 32 bytes, and is read back from them.                          *)
LEMMA KeyBytes ==
    ASSUME NEW k \in Key
    PROVE  /\ Text(k, 32)
           /\ \A d : \A from \in Nat : At(d, from, k) => key_at(d, from) = k
<1>1. k \in Seq(Int) /\ Len(k) = 32
  <2>1. 0 .. Radix - 1 \subseteq Int
    BY Sizes
  <2>2. k \in [1 .. 32 -> Int]
    BY <2>1 DEF Key
  <2> QED  BY <2>2, Tuple DEF Text
<1>2. ASSUME NEW d, NEW from \in Nat, At(d, from, k) PROVE key_at(d, from) = k
  <2>1. \A i \in from + 1 .. from + 32 : d[i] \in Int
    <3>1. ASSUME NEW i \in from + 1 .. from + 32 PROVE d[i] \in Int
      <4>1. i - from \in 1 .. 32 /\ from + (i - from) = i
        OBVIOUS
      <4>2. d[i] = k[i - from]
        BY <4>1, <1>1, <1>2 DEF At
      <4>3. k[i - from] \in Int
        BY <4>1, <1>1, ElementOfSeq
      <4> QED  BY <4>2, <4>3
    <3> QED  BY <3>1
  <2>2. /\ key_at(d, from) \in Seq(Int)
        /\ Len(key_at(d, from)) = 32
        /\ \A i \in 1 .. 32 : key_at(d, from)[i] = d[from + i]
    <3>1. /\ SubSeq(d, from + 1, from + 32) \in Seq(Int)
          /\ Len(SubSeq(d, from + 1, from + 32)) =
                IF from + 1 <= from + 32 THEN from + 32 - (from + 1) + 1 ELSE 0
          /\ \A i \in 1 .. from + 32 - (from + 1) + 1 :
                SubSeq(d, from + 1, from + 32)[i] = d[from + 1 + i - 1]
      BY <2>1, SubSeqProperties
    <3>2. \A i \in 1 .. 32 : from + 1 + i - 1 = from + i
      OBVIOUS
    <3>3. from + 32 - (from + 1) + 1 = 32
      OBVIOUS
    <3> QED  BY <3>1, <3>2, <3>3 DEF key_at
  <2>3. \A i \in 1 .. 32 : key_at(d, from)[i] = k[i]
    BY <2>2, <1>1, <1>2 DEF At
  <2> QED  BY <1>1, <2>2, <2>3, SeqEqual
<1> QED  BY <1>1, <1>2 DEF Text

----------------------------------------------------------------------------
(* Instructions.                                                           *)

Kinds == {"key", "flag", "option", "u16", "u64", "u128"}

(* The bytes of an argument, and what unpack reads in its place.           *)
Size(kind) ==
    CASE kind = "key" -> 32
      [] kind = "flag" -> 1
      [] kind = "option" -> 9
      [] kind = "u16" -> 2
      [] kind = "u64" -> 8
      [] kind = "u128" -> 16

Read(kind, d, from) ==
    CASE kind = "key" -> key_at(d, from)
      [] kind = "flag" -> flag_at(d, from)
      [] kind = "option" -> option_at(d, from, from + 1)
      [] kind = "u16" -> u16_at(d, from)
      [] kind = "u64" -> u64_at(d, from)
      [] kind = "u128" -> u128_at(d, from)

(* One byte.                                                               *)
LEMMA OneByte ==
    ASSUME NEW b \in Int
    PROVE  Text(<<b>>, 1) /\ \A d : \A from \in Nat : At(d, from, <<b>>) => d[from + 1] = b
BY DEF Text, At

(* A byte and a number behind it.                                          *)
LEMMA FlaggedNumber ==
    ASSUME NEW b \in Int, NEW n \in 0 .. U64 - 1
    PROVE  /\ Text(<<b>> \o le_u64(n), 9)
           /\ \A d : \A from \in Nat :
                 At(d, from, <<b>> \o le_u64(n)) => d[from + 1] = b /\ u64_at(d, from + 1) = n
<1>1. Text(<<b>>, 1) /\ Text(le_u64(n), 8)
  BY OneByte, Eight
<1>2. Text(<<b>> \o le_u64(n), 1 + 8)
  BY <1>1, JoinTwo
<1>3. ASSUME NEW d, NEW from \in Nat, At(d, from, <<b>> \o le_u64(n))
      PROVE  d[from + 1] = b /\ u64_at(d, from + 1) = n
  <2>1. At(d, from, <<b>>) /\ At(d, from + 1, le_u64(n))
    BY <1>1, <1>3, AtParts
  <2>2. from + 1 \in Nat
    OBVIOUS
  <2>3. d[from + 1] = b
    BY <2>1, OneByte
  <2>4. u64_at(d, from + 1) = n
    BY <2>1, <2>2, Eight
  <2> QED  BY <2>3, <2>4
<1> QED  BY <1>2, <1>3

(* Whatever bytes a client sends for an argument, unpack reads the         *)
(* argument from them.                                                     *)
LEMMA ArgumentRead ==
    ASSUME NEW kind \in Kinds, NEW v \in Values(kind), NEW b \in Encodings(kind, v)
    PROVE  /\ Text(b, Size(kind))
           /\ \A d : \A from \in Nat : At(d, from, b) => Read(kind, d, from) = v
<1>1. CASE kind = "key"
  <2>1. v \in Key /\ b = v
    BY <1>1, CodecAssumption DEF Values, Encodings
  <2> QED  BY <1>1, <2>1, KeyBytes DEF Size, Read
<1>2. CASE kind = "flag"
  <2>1. v \in {0, 1}
    BY <1>2 DEF Values
  <2>2. PICK x \in Int : b = <<x>> /\ v = IF x # 0 THEN 1 ELSE 0
    <3>1. CASE v = 1
      <4>1. b \in {<<y>> : y \in 1 .. Radix - 1}
        BY <1>2, <3>1 DEF Encodings
      <4> QED  BY <3>1, <4>1, Sizes
    <3>2. CASE v = 0
      <4>1. b = <<0>>
        BY <1>2, <3>2 DEF Encodings
      <4> QED  BY <3>2, <4>1
    <3> QED  BY <2>1, <3>1, <3>2
  <2> QED  BY <1>2, <2>2, OneByte DEF Size, Read, flag_at
<1>3. CASE kind = "option"
  <2>1. PICK x \in Int, n \in 0 .. U64 - 1 :
           b = <<x>> \o le_u64(n) /\ v = IF x # 0 THEN n ELSE None
    <3>1. CASE v = None
      <4>1. b \in {<<0>> \o le_u64(n) : n \in Numbers["u64"]}
        BY <1>3, <3>1 DEF Encodings
      <4>2. PICK n \in Numbers["u64"] : b = <<0>> \o le_u64(n)
        BY <4>1
      <4>3. n \in 0 .. U64 - 1
        BY CodecAssumption
      <4>4. 0 \in Int /\ v = IF 0 # 0 THEN n ELSE None
        BY <3>1
      <4> QED  BY <4>2, <4>3, <4>4, Zenon
    <3>2. CASE v # None
      <4>1. v \in 0 .. U64 - 1
        BY <1>3, <3>2, CodecAssumption DEF Values
      <4>2. b \in {<<y>> \o le_u64(v) : y \in 1 .. Radix - 1}
        BY <1>3, <3>2 DEF Encodings
      <4>3. PICK y \in 1 .. Radix - 1 : b = <<y>> \o le_u64(v)
        BY <4>2
      <4>4. y \in Int /\ y # 0
        BY Sizes
      <4>5. v = IF y # 0 THEN v ELSE None
        BY <4>4
      <4> QED  BY <4>1, <4>3, <4>4, <4>5, Zenon
    <3> QED  BY <3>1, <3>2
  <2> QED  BY <1>3, <2>1, FlaggedNumber DEF Size, Read, option_at
<1>4. CASE kind = "u16"
  <2>1. v \in 0 .. U16 - 1 /\ b = le_u16(v)
    BY <1>4, CodecAssumption DEF Values, Encodings
  <2> QED  BY <1>4, <2>1, Two DEF Size, Read
<1>5. CASE kind = "u64"
  <2>1. v \in 0 .. U64 - 1 /\ b = le_u64(v)
    BY <1>5, CodecAssumption DEF Values, Encodings
  <2> QED  BY <1>5, <2>1, Eight DEF Size, Read
<1>6. CASE kind = "u128"
  <2>1. v \in 0 .. U128 - 1 /\ b = le_u128(v)
    BY <1>6, CodecAssumption DEF Values, Encodings
  <2> QED  BY <1>6, <2>1, Sixteen DEF Size, Read
<1> QED  BY <1>1, <1>2, <1>3, <1>4, <1>5, <1>6 DEF Kinds

(* A tuple is its elements.                                                *)
LEMMA TupleElements ==
    ASSUME NEW S, NEW t \in Tuples(S)
    PROVE  /\ t = [i \in DOMAIN S |-> t[i]]
           /\ \A i \in DOMAIN S : t[i] \in S[i]
BY DEF Tuples

(* What is asked for, and what is sent for it, argument by argument.       *)
LEMMA RequestElements ==
    ASSUME NEW tag, NEW args \in ArgumentLists(tag), NEW payload \in Payloads(tag, args)
    PROVE  /\ args = [i \in DOMAIN Arguments(tag) |-> args[i]]
           /\ \A i \in DOMAIN Arguments(tag) : args[i] \in Values(Arguments(tag)[i])
           /\ \E b : /\ b = [i \in DOMAIN Arguments(tag) |-> b[i]]
                     /\ payload = Joined(b)
                     /\ \A i \in DOMAIN Arguments(tag) :
                           b[i] \in Encodings(Arguments(tag)[i], args[i])
<1> DEFINE S == [i \in DOMAIN Arguments(tag) |-> Values(Arguments(tag)[i])]
           E == [i \in DOMAIN Arguments(tag) |-> Encodings(Arguments(tag)[i], args[i])]
<1>1. args \in Tuples(S)
  BY DEF ArgumentLists
<1>2. PICK b \in Tuples(E) : payload = Joined(b)
  BY DEF Payloads
<1>3. /\ args = [i \in DOMAIN S |-> args[i]]
      /\ \A i \in DOMAIN S : args[i] \in S[i]
  BY <1>1, TupleElements
<1>4. /\ b = [i \in DOMAIN E |-> b[i]]
      /\ \A i \in DOMAIN E : b[i] \in E[i]
  BY <1>2, TupleElements
<1> QED  BY <1>2, <1>3, <1>4

(* The length of a tuple.                                                  *)
LEMMA TupleLength ==
    ASSUME NEW n \in Nat, NEW f, f = [i \in 1 .. n |-> f[i]]
    PROVE  Len(f) = n
<1> DEFINE S == {f[i] : i \in 1 .. n}
<1>1. f \in [1 .. n -> S]
  OBVIOUS
<1> HIDE DEF S
<1>2. f \in Seq(S)
  BY <1>1
<1> QED  BY <1>1, <1>2, LenProperties

(* Tuples of up to three elements.                                         *)
LEMMA SmallTuples ==
    ASSUME NEW f
    PROVE  /\ f = [i \in DOMAIN <<>> |-> f[i]] => f = <<>> /\ Len(f) = 0
           /\ \A x : f = [i \in DOMAIN <<x>> |-> f[i]] => f = <<f[1]>> /\ Len(f) = 1
           /\ \A x, y : f = [i \in DOMAIN <<x, y>> |-> f[i]] => f = <<f[1], f[2]>> /\ Len(f) = 2
           /\ \A x, y, z : f = [i \in DOMAIN <<x, y, z>> |-> f[i]]
                 => f = <<f[1], f[2], f[3]>> /\ Len(f) = 3
<1>1. f = [i \in DOMAIN <<>> |-> f[i]] => f = <<>> /\ Len(f) = 0
  OBVIOUS
<1>2. ASSUME NEW x, f = [i \in DOMAIN <<x>> |-> f[i]] PROVE f = <<f[1]>> /\ Len(f) = 1
  <2>1. f = [i \in 1 .. 1 |-> f[i]]
    BY <1>2
  <2>2. Len(f) = 1
    BY <2>1, TupleLength
  <2> QED  BY <2>1, <2>2
<1>3. ASSUME NEW x, NEW y, f = [i \in DOMAIN <<x, y>> |-> f[i]]
      PROVE  f = <<f[1], f[2]>> /\ Len(f) = 2
  <2>1. f = [i \in 1 .. 2 |-> f[i]]
    BY <1>3
  <2>2. Len(f) = 2
    BY <2>1, TupleLength
  <2> QED  BY <2>1, <2>2
<1>4. ASSUME NEW x, NEW y, NEW z, f = [i \in DOMAIN <<x, y, z>> |-> f[i]]
      PROVE  f = <<f[1], f[2], f[3]>> /\ Len(f) = 3
  <2>1. f = [i \in 1 .. 3 |-> f[i]]
    BY <1>4
  <2>2. Len(f) = 3
    BY <2>1, TupleLength
  <2> QED  BY <2>1, <2>2
<1> QED  BY <1>1, <1>2, <1>3, <1>4

(* A variant without arguments has no payload.                             *)
LEMMA NoArgument ==
    ASSUME NEW tag, Arguments(tag) = <<>>,
           NEW args \in ArgumentLists(tag), NEW payload \in Payloads(tag, args)
    PROVE  args = <<>> /\ Text(payload, 0)
<1>1. PICK b : /\ args = [i \in DOMAIN <<>> |-> args[i]]
               /\ b = [i \in DOMAIN <<>> |-> b[i]]
               /\ payload = Joined(b)
  BY RequestElements
<1>2. args = <<>> /\ Len(b) = 0
  BY <1>1, SmallTuples
<1>3. payload = <<>>
  BY <1>1, <1>2 DEF Joined
<1> QED  BY <1>2, <1>3 DEF Text

(* One with one argument is read back.                                     *)
LEMMA OneArgument ==
    ASSUME NEW tag, NEW k \in Kinds, Arguments(tag) = <<k>>,
           NEW args \in ArgumentLists(tag), NEW payload \in Payloads(tag, args)
    PROVE  /\ args = <<args[1]>> /\ args[1] \in Values(k)
           /\ Text(payload, Size(k))
           /\ Read(k, payload, 0) = args[1]
<1>1. PICK b : /\ args = [i \in DOMAIN <<k>> |-> args[i]]
               /\ \A i \in DOMAIN <<k>> : args[i] \in Values(<<k>>[i])
               /\ b = [i \in DOMAIN <<k>> |-> b[i]]
               /\ payload = Joined(b)
               /\ \A i \in DOMAIN <<k>> : b[i] \in Encodings(<<k>>[i], args[i])
  BY RequestElements
<1>2. args = <<args[1]>> /\ Len(b) = 1
  BY <1>1, SmallTuples
<1>3. payload = b[1]
  BY <1>1, <1>2 DEF Joined
<1>4. args[1] \in Values(k) /\ b[1] \in Encodings(k, args[1])
  BY <1>1
<1>5. /\ Text(payload, Size(k))
      /\ At(payload, 0, payload) => Read(k, payload, 0) = args[1]
  BY <1>3, <1>4, ArgumentRead
<1>6. At(payload, 0, payload)
  BY <1>5 DEF At, Text
<1> QED  BY <1>2, <1>4, <1>5, <1>6

(* The bytes of an argument are a number.                                  *)
LEMMA SizeNat == \A k \in Kinds : Size(k) \in Nat
BY DEF Kinds, Size

(* Two arguments.                                                          *)
LEMMA TwoArguments ==
    ASSUME NEW tag, NEW k \in Kinds, NEW l \in Kinds, Arguments(tag) = <<k, l>>,
           NEW args \in ArgumentLists(tag), NEW payload \in Payloads(tag, args)
    PROVE  /\ args = <<args[1], args[2]>>
           /\ args[1] \in Values(k) /\ args[2] \in Values(l)
           /\ Text(payload, Size(k) + Size(l))
           /\ Read(k, payload, 0) = args[1]
           /\ Read(l, payload, Size(k)) = args[2]
<1>1. PICK b : /\ args = [i \in DOMAIN <<k, l>> |-> args[i]]
               /\ \A i \in DOMAIN <<k, l>> : args[i] \in Values(<<k, l>>[i])
               /\ b = [i \in DOMAIN <<k, l>> |-> b[i]]
               /\ payload = Joined(b)
               /\ \A i \in DOMAIN <<k, l>> : b[i] \in Encodings(<<k, l>>[i], args[i])
  BY RequestElements
<1>2. args = <<args[1], args[2]>> /\ Len(b) = 2
  BY <1>1, SmallTuples
<1>3. payload = b[1] \o b[2]
  BY <1>1, <1>2 DEF Joined
<1>4. /\ args[1] \in Values(k) /\ b[1] \in Encodings(k, args[1])
      /\ args[2] \in Values(l) /\ b[2] \in Encodings(l, args[2])
  BY <1>1
<1>5. /\ Text(b[1], Size(k)) /\ Text(b[2], Size(l))
      /\ At(payload, 0, b[1]) => Read(k, payload, 0) = args[1]
      /\ At(payload, Size(k), b[2]) => Read(l, payload, Size(k)) = args[2]
  BY <1>4, ArgumentRead, SizeNat
<1>6. /\ Text(payload, Size(k) + Size(l))
      /\ At(payload, 0, b[1]) /\ At(payload, Size(k), b[2])
  BY <1>3, <1>5, JoinTwo, SizeNat
<1> QED  BY <1>2, <1>4, <1>5, <1>6

(* Three.                                                                  *)
LEMMA ThreeArguments ==
    ASSUME NEW tag, NEW k \in Kinds, Arguments(tag) = <<k, k, k>>,
           NEW args \in ArgumentLists(tag), NEW payload \in Payloads(tag, args)
    PROVE  /\ args = <<args[1], args[2], args[3]>>
           /\ args[1] \in Values(k) /\ args[2] \in Values(k) /\ args[3] \in Values(k)
           /\ Text(payload, Size(k) + Size(k) + Size(k))
           /\ Read(k, payload, 0) = args[1]
           /\ Read(k, payload, Size(k)) = args[2]
           /\ Read(k, payload, Size(k) + Size(k)) = args[3]
<1>1. PICK b : /\ args = [i \in DOMAIN <<k, k, k>> |-> args[i]]
               /\ \A i \in DOMAIN <<k, k, k>> : args[i] \in Values(<<k, k, k>>[i])
               /\ b = [i \in DOMAIN <<k, k, k>> |-> b[i]]
               /\ payload = Joined(b)
               /\ \A i \in DOMAIN <<k, k, k>> : b[i] \in Encodings(<<k, k, k>>[i], args[i])
  BY RequestElements
<1>2. args = <<args[1], args[2], args[3]>> /\ Len(b) = 3
  BY <1>1, SmallTuples
<1>3. payload = (b[1] \o b[2]) \o b[3]
  BY <1>1, <1>2 DEF Joined
<1>4. /\ args[1] \in Values(k) /\ b[1] \in Encodings(k, args[1])
      /\ args[2] \in Values(k) /\ b[2] \in Encodings(k, args[2])
      /\ args[3] \in Values(k) /\ b[3] \in Encodings(k, args[3])
  BY <1>1
<1>5. Text(b[1], Size(k)) /\ Text(b[2], Size(k)) /\ Text(b[3], Size(k))
  BY <1>4, ArgumentRead
<1>6. Text(b[1] \o b[2], Size(k) + Size(k))
  BY <1>5, JoinTwo, SizeNat
<1>7. Size(k) \in Nat /\ Size(k) + Size(k) \in Nat /\ 0 \in Nat
  BY SizeNat
<1>8. /\ Text(payload, Size(k) + Size(k) + Size(k))
      /\ At(payload, 0, b[1] \o b[2]) /\ At(payload, Size(k) + Size(k), b[3])
  BY <1>3, <1>5, <1>6, <1>7, JoinTwo
<1>9. At(payload, 0, b[1]) /\ At(payload, 0 + Size(k), b[2])
  BY <1>5, <1>7, <1>8, AtParts
<1>10. /\ Read(k, payload, 0) = args[1]
       /\ Read(k, payload, Size(k)) = args[2]
       /\ Read(k, payload, Size(k) + Size(k)) = args[3]
  <2>1. 0 + Size(k) = Size(k)
    BY <1>7
  <2> QED  BY <1>4, <1>7, <1>8, <1>9, <2>1, ArgumentRead
<1> QED  BY <1>2, <1>4, <1>8, <1>10

(* The length of a variant's payload, and what unpack makes of one of that *)
(* length.                                                                 *)
PayloadSize(tag) ==
    CASE tag \in {0, 13} -> 16
      [] tag \in {1, 2, 3, 7, 10, 16, 23, 28} -> 8
      [] tag = 4 -> 18
      [] tag = 5 -> 32
      [] tag = 14 -> 3
      [] tag = 15 -> 2
      [] tag \in {25, 27} -> 6
      [] tag = 26 -> 16
      [] OTHER -> 0

Fields(tag, rest) ==
    CASE tag \in {0, 13} -> <<u64_at(rest, 0), u64_at(rest, 8)>>
      [] tag \in {1, 2, 3, 7, 10, 16, 23, 28} -> <<u64_at(rest, 0)>>
      [] tag = 4 -> <<option_at(rest, 0, 1), option_at(rest, 9, 10)>>
      [] tag = 5 -> <<key_at(rest, 0)>>
      [] tag = 14 -> <<flag_at(rest, 0), u16_at(rest, 1)>>
      [] tag = 15 -> <<u16_at(rest, 0)>>
      [] tag \in {25, 27} -> <<u16_at(rest, 0), u16_at(rest, 2), u16_at(rest, 4)>>
      [] tag = 26 -> <<u128_at(rest, 0)>>
      [] OTHER -> <<>>

(* Every arm of unpack takes payloads of one length.                       *)
LEMMA UnpackArms ==
    ASSUME NEW tag \in Tags, NEW rest, NEW n \in Nat, Text(rest, n)
    PROVE  unpack(<<tag>> \o rest) =
              IF n = PayloadSize(tag) THEN Ok(tag, Fields(tag, rest)) ELSE Err
<1> DEFINE data == <<tag>> \o rest
<1>1. /\ tag \in Int /\ data # <<>> /\ Head(data) = tag /\ Tail(data) = rest
      /\ Exactly(rest, PayloadSize(tag)) <=> n = PayloadSize(tag)
  <2>1. tag \in Int
    BY DEF Tags
  <2> QED  BY <2>1, Message DEF Exactly, Text
<1> HIDE DEF data
<1>2. unpack(data) = IF tag \in 0 .. 9 THEN unpack_pool(tag, rest)
                     ELSE IF tag \in {10} \cup 19 .. 23 THEN unpack_insurance(tag, rest)
                     ELSE IF tag \in 12 .. 18 \cup {24} THEN unpack_trading(tag, rest)
                     ELSE unpack_policy(tag, rest)
  BY <1>1 DEF unpack
<1> DEFINE Arm(found, t) == found = IF Exactly(rest, PayloadSize(t)) THEN Ok(t, Fields(t, rest)) ELSE Err
<1>3. /\ Arm(unpack_pool(0, rest), 0) /\ Arm(unpack_pool(1, rest), 1)
      /\ Arm(unpack_pool(2, rest), 2) /\ Arm(unpack_pool(3, rest), 3)
      /\ Arm(unpack_pool(4, rest), 4) /\ Arm(unpack_pool(5, rest), 5)
      /\ Arm(unpack_pool(6, rest), 6) /\ Arm(unpack_pool(7, rest), 7)
      /\ Arm(unpack_pool(8, rest), 8) /\ Arm(unpack_pool(9, rest), 9)
  BY DEF unpack_pool, PayloadSize, Fields
<1>4. CASE tag \in 0 .. 9
  <2>1. Arm(unpack_pool(tag, rest), tag)
    <3>1. tag = 0 \/ tag = 1 \/ tag = 2 \/ tag = 3 \/ tag = 4 \/ tag = 5 \/ tag = 6 \/ tag = 7 \/ tag = 8 \/ tag = 9
      BY <1>1, <1>4
    <3> HIDE DEF Arm
    <3> QED  BY <3>1, <1>3
  <2>2. unpack(data) = unpack_pool(tag, rest)
    BY <1>1, <1>2, <1>4
  <2> QED  BY <1>1, <2>1, <2>2 DEF data
<1>5. /\ Arm(unpack_insurance(10, rest), 10) /\ Arm(unpack_insurance(19, rest), 19)
      /\ Arm(unpack_insurance(20, rest), 20) /\ Arm(unpack_insurance(21, rest), 21)
      /\ Arm(unpack_insurance(22, rest), 22) /\ Arm(unpack_insurance(23, rest), 23)
  BY DEF unpack_insurance, PayloadSize, Fields
<1>6. CASE tag \in {10} \cup 19 .. 23
  <2>1. Arm(unpack_insurance(tag, rest), tag)
    <3>1. tag = 10 \/ tag = 19 \/ tag = 20 \/ tag = 21 \/ tag = 22 \/ tag = 23
      BY <1>1, <1>6
    <3> HIDE DEF Arm
    <3> QED  BY <3>1, <1>5
  <2>2. unpack(data) = unpack_insurance(tag, rest)
    BY <1>1, <1>2, <1>6
  <2> QED  BY <1>1, <2>1, <2>2 DEF data
<1>7. /\ Arm(unpack_trading(12, rest), 12) /\ Arm(unpack_trading(13, rest), 13)
      /\ Arm(unpack_trading(14, rest), 14) /\ Arm(unpack_trading(15, rest), 15)
      /\ Arm(unpack_trading(16, rest), 16) /\ Arm(unpack_trading(18, rest), 18)
      /\ Arm(unpack_trading(24, rest), 24)
  BY DEF unpack_trading, PayloadSize, Fields
<1>8. CASE tag \in {12, 13, 14, 15, 16, 18, 24}
  <2>1. Arm(unpack_trading(tag, rest), tag)
    <3>1. tag = 12 \/ tag = 13 \/ tag = 14 \/ tag = 15 \/ tag = 16 \/ tag = 18 \/ tag = 24
      BY <1>1, <1>8
    <3> HIDE DEF Arm
    <3> QED  BY <3>1, <1>7
  <2>2. unpack(data) = unpack_trading(tag, rest)
    BY <1>1, <1>2, <1>8
  <2> QED  BY <1>1, <2>1, <2>2 DEF data
<1>9. /\ Arm(unpack_policy(25, rest), 25) /\ Arm(unpack_policy(26, rest), 26)
      /\ Arm(unpack_policy(27, rest), 27) /\ Arm(unpack_policy(28, rest), 28)
  BY DEF unpack_policy, PayloadSize, Fields
<1>10. CASE tag \in 25 .. 28
  <2>1. Arm(unpack_policy(tag, rest), tag)
    <3>1. tag = 25 \/ tag = 26 \/ tag = 27 \/ tag = 28
      BY <1>1, <1>10
    <3> HIDE DEF Arm
    <3> QED  BY <3>1, <1>9
  <2>2. unpack(data) = unpack_policy(tag, rest)
    BY <1>1, <1>2, <1>10
  <2> QED  BY <1>1, <2>1, <2>2 DEF data
<1> QED  BY <1>1, <1>4, <1>6, <1>8, <1>10 DEF Tags

(* The types of the arguments, variant by variant.                         *)
LEMMA ArgumentTypes ==
    /\ Arguments(0) = <<"u64", "u64">>
    /\ Arguments(1) = <<"u64">>
    /\ Arguments(2) = <<"u64">>
    /\ Arguments(3) = <<"u64">>
    /\ Arguments(4) = <<"option", "option">>
    /\ Arguments(5) = <<"key">>
    /\ Arguments(6) = <<>>
    /\ Arguments(7) = <<"u64">>
    /\ Arguments(8) = <<>>
    /\ Arguments(9) = <<>>
    /\ Arguments(10) = <<"u64">>
    /\ Arguments(12) = <<>>
    /\ Arguments(13) = <<"u64", "u64">>
    /\ Arguments(14) = <<"flag", "u16">>
    /\ Arguments(15) = <<"u16">>
    /\ Arguments(16) = <<"u64">>
    /\ Arguments(18) = <<>>
    /\ Arguments(19) = <<>>
    /\ Arguments(20) = <<>>
    /\ Arguments(21) = <<>>
    /\ Arguments(22) = <<>>
    /\ Arguments(23) = <<"u64">>
    /\ Arguments(24) = <<>>
    /\ Arguments(25) = <<"u16", "u16", "u16">>
    /\ Arguments(26) = <<"u128">>
    /\ Arguments(27) = <<"u16", "u16", "u16">>
    /\ Arguments(28) = <<"u64">>
BY DEF Arguments, PoolVariants, ConfigVariants, AuthorityVariants, TradingVariants, PolicyVariants

(* unpack gives back what was sent.                                        *)
LEMMA UnpackSent ==
    ASSUME NEW tag \in Tags, NEW args \in ArgumentLists(tag), NEW payload \in Payloads(tag, args)
    PROVE  /\ Text(payload, PayloadSize(tag))
           /\ PayloadSize(tag) \in Nat
           /\ unpack(<<tag>> \o payload) = Ok(tag, args)
<1>1. Text(payload, PayloadSize(tag)) /\ Fields(tag, payload) = args
  <2>1. CASE tag \in {0, 13}
    <3>1. Arguments(tag) = <<"u64", "u64">>
      BY <2>1, ArgumentTypes
    <3>2. /\ args = <<args[1], args[2]>>
          /\ Text(payload, Size("u64") + Size("u64"))
          /\ Read("u64", payload, 0) = args[1]
          /\ Read("u64", payload, Size("u64")) = args[2]
      BY <3>1, TwoArguments DEF Kinds
    <3> QED  BY <2>1, <3>2 DEF PayloadSize, Fields, Size, Read
  <2>2. CASE tag \in {1, 2, 3, 7, 10, 16, 23, 28}
    <3>1. Arguments(tag) = <<"u64">>
      BY <2>2, ArgumentTypes
    <3>2. /\ args = <<args[1]>>
          /\ Text(payload, Size("u64"))
          /\ Read("u64", payload, 0) = args[1]
      BY <3>1, OneArgument DEF Kinds
    <3> QED  BY <2>2, <3>2 DEF PayloadSize, Fields, Size, Read
  <2>3. CASE tag = 4
    <3>1. Arguments(tag) = <<"option", "option">>
      BY <2>3, ArgumentTypes
    <3>2. /\ args = <<args[1], args[2]>>
          /\ Text(payload, Size("option") + Size("option"))
          /\ Read("option", payload, 0) = args[1]
          /\ Read("option", payload, Size("option")) = args[2]
      BY <3>1, TwoArguments DEF Kinds
    <3> QED  BY <2>3, <3>2 DEF PayloadSize, Fields, Size, Read
  <2>4. CASE tag = 5
    <3>1. Arguments(tag) = <<"key">>
      BY <2>4, ArgumentTypes
    <3>2. /\ args = <<args[1]>>
          /\ Text(payload, Size("key"))
          /\ Read("key", payload, 0) = args[1]
      BY <3>1, OneArgument DEF Kinds
    <3> QED  BY <2>4, <3>2 DEF PayloadSize, Fields, Size, Read
  <2>5. CASE tag = 14
    <3>1. Arguments(tag) = <<"flag", "u16">>
      BY <2>5, ArgumentTypes
    <3>2. /\ args = <<args[1], args[2]>>
          /\ Text(payload, Size("flag") + Size("u16"))
          /\ Read("flag", payload, 0) = args[1]
          /\ Read("u16", payload, Size("flag")) = args[2]
      BY <3>1, TwoArguments DEF Kinds
    <3> QED  BY <2>5, <3>2 DEF PayloadSize, Fields, Size, Read
  <2>6. CASE tag = 15
    <3>1. Arguments(tag) = <<"u16">>
      BY <2>6, ArgumentTypes
    <3>2. /\ args = <<args[1]>>
          /\ Text(payload, Size("u16"))
          /\ Read("u16", payload, 0) = args[1]
      BY <3>1, OneArgument DEF Kinds
    <3> QED  BY <2>6, <3>2 DEF PayloadSize, Fields, Size, Read
  <2>7. CASE tag \in {25, 27}
    <3>1. Arguments(tag) = <<"u16", "u16", "u16">>
      BY <2>7, ArgumentTypes
    <3>2. /\ args = <<args[1], args[2], args[3]>>
          /\ Text(payload, Size("u16") + Size("u16") + Size("u16"))
          /\ Read("u16", payload, 0) = args[1]
          /\ Read("u16", payload, Size("u16")) = args[2]
          /\ Read("u16", payload, Size("u16") + Size("u16")) = args[3]
      BY <3>1, ThreeArguments DEF Kinds
    <3> QED  BY <2>7, <3>2 DEF PayloadSize, Fields, Size, Read
  <2>8. CASE tag = 26
    <3>1. Arguments(tag) = <<"u128">>
      BY <2>8, ArgumentTypes
    <3>2. /\ args = <<args[1]>>
          /\ Text(payload, Size("u128"))
          /\ Read("u128", payload, 0) = args[1]
      BY <3>1, OneArgument DEF Kinds
    <3> QED  BY <2>8, <3>2 DEF PayloadSize, Fields, Size, Read
  <2>9. CASE tag \in {6, 8, 9, 12, 18, 19, 20, 21, 22, 24}
    <3>1. Arguments(tag) = <<>>
      BY <2>9, ArgumentTypes
    <3>2. args = <<>> /\ Text(payload, 0)
      BY <3>1, NoArgument
    <3>3. PayloadSize(tag) = 0
      BY <2>9 DEF PayloadSize
    <3>4. Fields(tag, payload) = <<>>
      BY <2>9 DEF Fields
    <3> QED  BY <3>2, <3>3, <3>4
  <2> QED  BY <2>1, <2>2, <2>3, <2>4, <2>5, <2>6, <2>7, <2>8, <2>9 DEF Tags
<1>2. PayloadSize(tag) \in Nat
  BY DEF PayloadSize
<1> QED  BY <1>1, <1>2, UnpackArms

----------------------------------------------------------------------------
(* Calls.                                                                  *)

(* A program that is called sees the tag and the rest.                     *)
LEMMA CallSeen ==
    ASSUME NEW t \in Int, NEW rest, NEW n \in Nat, Text(rest, n)
    PROVE  /\ Decoded(Call("wrapper", t, rest)) = WrapperDecoded(t, rest)
           /\ Decoded(Call("token", t, rest)) = TokenDecoded(t, rest)
<1>1. Head(<<t>> \o rest) = t /\ Tail(<<t>> \o rest) = rest
  BY Message
<1> QED  BY <1>1 DEF Decoded, Call

(* The calls that carry one number.                                        *)
LEMMA NumberCalls ==
    /\ \A n \in 0 .. U64 - 1 :
          /\ Decoded(transfer(n)) = Ok(3, <<n>>)
          /\ Decoded(mint_to(n)) = Ok(7, <<n>>)
          /\ Decoded(burn(n)) = Ok(8, <<n>>)
          /\ Decoded(cpi_update_trade_fee_policy(n)) = Ok(55, <<n>>)
    /\ \A n \in 0 .. U128 - 1 :
          /\ Decoded(cpi_top_up_insurance(n)) = Ok(9, <<n>>)
          /\ Decoded(cpi_update_maintenance_fee_per_slot(n)) = Ok(88, <<n>>)
<1>1. ASSUME NEW n \in 0 .. U64 - 1
      PROVE  /\ Decoded(transfer(n)) = Ok(3, <<n>>)
             /\ Decoded(mint_to(n)) = Ok(7, <<n>>)
             /\ Decoded(burn(n)) = Ok(8, <<n>>)
             /\ Decoded(cpi_update_trade_fee_policy(n)) = Ok(55, <<n>>)
  <2> DEFINE b == le_u64(n)
  <2>1. Text(b, 8) /\ u64_at(b, 0) = n
    BY Eight, AtSelf
  <2> HIDE DEF b
  <2>2. /\ \A t \in {3, 7, 8} : TokenDecoded(t, b) = Ok(t, <<n>>)
        /\ WrapperDecoded(55, b) = Ok(55, <<n>>)
    BY <2>1 DEF TokenDecoded, WrapperDecoded, Text
  <2>3. /\ \A t \in {3, 7, 8} : Decoded(Call("token", t, b)) = Ok(t, <<n>>)
        /\ Decoded(Call("wrapper", 55, b)) = Ok(55, <<n>>)
    <3>1. \A t \in {3, 7, 8} : Decoded(Call("token", t, b)) = Ok(t, <<n>>)
      <4>1. ASSUME NEW t \in {3, 7, 8} PROVE Decoded(Call("token", t, b)) = TokenDecoded(t, b)
        <5>1. t \in Int
          OBVIOUS
        <5> QED  BY <2>1, <5>1, CallSeen
      <4> QED  BY <2>2, <4>1
    <3>2. Decoded(Call("wrapper", 55, b)) = Ok(55, <<n>>)
      BY <2>1, <2>2, CallSeen
    <3> QED  BY <3>1, <3>2
  <2> QED  BY <2>3 DEF transfer, mint_to, burn, cpi_update_trade_fee_policy, b
<1>2. ASSUME NEW n \in 0 .. U128 - 1
      PROVE  /\ Decoded(cpi_top_up_insurance(n)) = Ok(9, <<n>>)
             /\ Decoded(cpi_update_maintenance_fee_per_slot(n)) = Ok(88, <<n>>)
  <2> DEFINE b == le_u128(n)
  <2>1. Text(b, 16) /\ u128_at(b, 0) = n
    BY Sixteen, AtSelf
  <2> HIDE DEF b
  <2>2. WrapperDecoded(9, b) = Ok(9, <<n>>) /\ WrapperDecoded(88, b) = Ok(88, <<n>>)
    BY <2>1 DEF WrapperDecoded, Text
  <2>3. /\ Decoded(Call("wrapper", 9, b)) = Ok(9, <<n>>)
        /\ Decoded(Call("wrapper", 88, b)) = Ok(88, <<n>>)
    BY <2>1, <2>2, CallSeen
  <2> QED  BY <2>3 DEF cpi_top_up_insurance, cpi_update_maintenance_fee_per_slot, b
<1> QED  BY <1>1, <1>2

(* Three strings one behind the other.                                     *)
LEMMA JoinThree ==
    ASSUME NEW s, NEW t, NEW u, NEW l \in Nat, NEW m \in Nat, NEW n \in Nat,
           Text(s, l), Text(t, m), Text(u, n)
    PROVE  /\ Text((s \o t) \o u, l + m + n)
           /\ At((s \o t) \o u, 0, s)
           /\ At((s \o t) \o u, l, t)
           /\ At((s \o t) \o u, l + m, u)
<1> DEFINE p == s \o t
<1>1. Text(p, l + m) /\ l + m \in Nat
  <2>1. Text(p, l + m)
    BY JoinTwo
  <2> QED  BY <2>1
<1>2. Text(p \o u, l + m + n) /\ At(p \o u, 0, p) /\ At(p \o u, l + m, u)
  <2> HIDE DEF p
  <2> QED  BY <1>1, JoinTwo
<1> DEFINE d == p \o u
<1> HIDE DEF d
<1>3. At(d, 0, s) /\ At(d, 0 + l, t)
  <2>1. At(d, 0, s \o t)
    BY <1>2 DEF d
  <2> QED  BY <2>1, AtParts
<1> QED  BY <1>2, <1>3 DEF d

(* The policies of three numbers.                                          *)
LEMMA PolicyCalls ==
    ASSUME NEW x \in 0 .. U16 - 1, NEW y \in 0 .. U16 - 1, NEW z \in 0 .. U16 - 1
    PROVE  /\ Decoded(cpi_update_fee_split(x, y, z)) = Ok(86, <<x, y, z>>)
           /\ Decoded(cpi_update_backing_fee_policy(x, y, z)) = Ok(51, <<x, y, z>>)
<1> DEFINE b == le_u16(x) \o le_u16(y) \o le_u16(z)
<1>1. Text(le_u16(x), 2) /\ Text(le_u16(y), 2) /\ Text(le_u16(z), 2)
  BY Two
<1>2. /\ Text(b, 2 + 2 + 2) /\ At(b, 0, le_u16(x))
      /\ At(b, 2, le_u16(y)) /\ At(b, 2 + 2, le_u16(z))
  BY <1>1, JoinThree
<1>3. /\ cpi_update_fee_split(x, y, z) = Call("wrapper", 86, b)
      /\ cpi_update_backing_fee_policy(x, y, z) = Call("wrapper", 51, b)
  BY DEF cpi_update_fee_split, cpi_update_backing_fee_policy
<1> HIDE DEF b
<1>4. u16_at(b, 0) = x /\ u16_at(b, 2) = y /\ u16_at(b, 4) = z
  BY <1>2, Two
<1>5. Text(b, 6) /\ Len(b) = 6
  BY <1>2 DEF Text
<1>6. WrapperDecoded(86, b) = Ok(86, <<x, y, z>>) /\ WrapperDecoded(51, b) = Ok(51, <<x, y, z>>)
  BY <1>4, <1>5 DEF WrapperDecoded
<1> QED  BY <1>3, <1>5, <1>6, CallSeen

(* The market's first asset.                                               *)
LEMMA AssetZero ==
    Text(ASSET_INDEX_ZERO, 2)
    /\ \A d : \A from \in Nat : At(d, from, ASSET_INDEX_ZERO) => u16_at(d, from) = 0
<1>1. 0 \in 0 .. U16 - 1
  BY Sizes
<1> QED  BY <1>1, Two DEF ASSET_INDEX_ZERO

(* A role of the market's first asset moves to a key.                      *)
LEMMA RoleCall ==
    ASSUME NEW kind \in Int, NEW k \in Key
    PROVE  Decoded(UpdateAssetAuthority(kind, k)) = Ok(65, <<0, kind, k>>)
<1> DEFINE b == ASSET_INDEX_ZERO \o <<kind>> \o k
<1>1. Text(ASSET_INDEX_ZERO, 2) /\ Text(<<kind>>, 1) /\ Text(k, 32)
  BY AssetZero, OneByte, KeyBytes
<1>2. /\ Text(b, 2 + 1 + 32) /\ At(b, 0, ASSET_INDEX_ZERO)
      /\ At(b, 2, <<kind>>) /\ At(b, 2 + 1, k)
  BY <1>1, JoinThree
<1>3. UpdateAssetAuthority(kind, k) = Call("wrapper", 65, b)
  BY DEF UpdateAssetAuthority
<1> HIDE DEF b
<1>4. u16_at(b, 0) = 0 /\ b[3] = kind /\ key_at(b, 3) = k
  <2>1. b[2 + 1] = kind
    BY <1>2, OneByte
  <2>2. u16_at(b, 0) = 0
    BY <1>2, AssetZero
  <2>3. key_at(b, 2 + 1) = k
    BY <1>2, KeyBytes
  <2> QED  BY <2>1, <2>2, <2>3
<1>5. Text(b, 35) /\ Len(b) = 35
  BY <1>2 DEF Text
<1>6. WrapperDecoded(65, b) = Ok(65, <<0, kind, k>>)
  BY <1>4, <1>5 DEF WrapperDecoded
<1> QED  BY <1>3, <1>5, <1>6, CallSeen

(* A withdrawal of the market's first asset.                               *)
LEMMA WithdrawCall ==
    ASSUME NEW n \in 0 .. U128 - 1
    PROVE  Decoded(cpi_withdraw_insurance_asset(n)) = Ok(57, <<0, n>>)
<1> DEFINE b == ASSET_INDEX_ZERO \o le_u128(n)
<1>1. Text(ASSET_INDEX_ZERO, 2) /\ Text(le_u128(n), 16)
  BY AssetZero, Sixteen
<1>2. Text(b, 2 + 16) /\ At(b, 0, ASSET_INDEX_ZERO) /\ At(b, 2, le_u128(n))
  BY <1>1, JoinTwo
<1>3. cpi_withdraw_insurance_asset(n) = Call("wrapper", 57, b)
  BY DEF cpi_withdraw_insurance_asset
<1> HIDE DEF b
<1>4. u16_at(b, 0) = 0 /\ u128_at(b, 2) = n
  BY <1>2, AssetZero, Sixteen
<1>5. Text(b, 18) /\ Len(b) = 18
  BY <1>2 DEF Text
<1>6. WrapperDecoded(57, b) = Ok(57, <<0, n>>)
  BY <1>4, <1>5 DEF WrapperDecoded
<1> QED  BY <1>3, <1>5, <1>6, CallSeen

(* The hand-over of the market, its resolution, and a token account.       *)
LEMMA PlainCalls ==
    /\ \A k \in Key : Decoded(cpi_update_authority(k)) = Ok(32, <<k>>)
    /\ Decoded(cpi_resolve_market) = Ok(19, <<>>)
    /\ Decoded(initialize_account) = Ok(1, <<>>)
<1>1. ASSUME NEW k \in Key PROVE Decoded(cpi_update_authority(k)) = Ok(32, <<k>>)
  <2>1. Text(k, 32) /\ key_at(k, 0) = k
    BY KeyBytes, AtSelf
  <2>2. WrapperDecoded(32, k) = Ok(32, <<k>>)
    BY <2>1 DEF WrapperDecoded, Text
  <2> QED  BY <2>1, <2>2, CallSeen DEF cpi_update_authority
<1>2. WrapperDecoded(19, <<>>) = Ok(19, <<>>)
  BY DEF WrapperDecoded
<1>3. TokenDecoded(1, <<>>) = Ok(1, <<>>)
  BY DEF TokenDecoded
<1>4. Text(<<>>, 0)
  BY DEF Text
<1>5. Decoded(cpi_resolve_market) = Ok(19, <<>>)
  BY <1>2, <1>4, CallSeen DEF cpi_resolve_market
<1>6. Decoded(initialize_account) = Ok(1, <<>>)
  BY <1>3, <1>4, CallSeen DEF initialize_account
<1> QED  BY <1>1, <1>5, <1>6

(* The LP mint.                                                            *)
LEMMA MintCall ==
    ASSUME NEW x \in Int, NEW k \in Key
    PROVE  Decoded(initialize_mint(x, k)) = Ok(0, <<x, k, 0>>)
<1> DEFINE b == <<x>> \o k \o <<0>>
<1>1. Text(<<x>>, 1) /\ Text(k, 32) /\ Text(<<0>>, 1)
  BY OneByte, KeyBytes
<1>2. Text(b, 1 + 32 + 1) /\ At(b, 0, <<x>>) /\ At(b, 1, k) /\ At(b, 1 + 32, <<0>>)
  BY <1>1, JoinThree
<1>3. initialize_mint(x, k) = Call("token", 0, b)
  BY DEF initialize_mint
<1> HIDE DEF b
<1>4. b[1] = x /\ key_at(b, 1) = k /\ b[34] = 0
  <2>1. b[0 + 1] = x
    BY <1>2, OneByte
  <2>2. b[1 + 32 + 1] = 0
    BY <1>2, OneByte
  <2>3. key_at(b, 1) = k
    BY <1>2, KeyBytes
  <2> QED  BY <2>1, <2>2, <2>3
<1>5. Text(b, 34) /\ Len(b) = 34
  BY <1>2 DEF Text
<1>6. TokenDecoded(0, b) = Ok(0, <<x, k, 0>>)
  BY <1>4, <1>5 DEF TokenDecoded
<1> QED  BY <1>3, <1>5, <1>6, CallSeen

----------------------------------------------------------------------------
(* Accounts.                                                               *)

VaultOK == vault \in [amount : 0 .. U64 - 1, state : {1, 2}]

(* The parser finds amount and state of the vault's token account.         *)
LEMMA VaultRead ==
    ASSUME VaultOK
    PROVE  /\ account_unpack(TokenAccount(vault)).amount = vault.amount
           /\ account_unpack(TokenAccount(vault)).state = AccountState(vault.state)
<1> DEFINE d == TokenAccount(vault)
           b == le_u64(vault.amount)
<1>1. vault.amount \in 0 .. U64 - 1 /\ vault.state \in {1, 2}
  BY DEF VaultOK
<1>2. Text(b, 8) /\ Len(b) = 8
  BY <1>1, Eight DEF Text
<1>3. d = [i \in 1 .. 165 |-> d[i]]
  BY DEF TokenAccount, ACCOUNT_LEN
<1>4. Len(d) = 165
  <2> HIDE DEF d
  <2> QED  BY <1>3, TupleLength
<1>5. ASSUME NEW i \in 1 .. 8 PROVE d[64 + i] = b[i]
  <2>1. 64 + i \in 1 .. 165 /\ 64 + i \in 65 .. 72 /\ (64 + i) - 64 = i
    OBVIOUS
  <2> QED  BY <2>1 DEF TokenAccount, ACCOUNT_LEN
<1>6. d[109] = vault.state
  BY DEF TokenAccount, ACCOUNT_LEN
<1> HIDE DEF d
<1>7. At(d, 64, b)
  BY <1>2, <1>5 DEF At
<1>8. u64_at(d, 64) = vault.amount
  BY <1>1, <1>7, Eight
<1>9. account_unpack(d) = [ok |-> TRUE, amount |-> u64_at(d, 64), state |-> AccountState(d[109])]
  BY <1>4 DEF account_unpack, ACCOUNT_LEN
<1> QED  BY <1>6, <1>8, <1>9 DEF d

(* A frozen vault is refused, an initialized one is not.                   *)
LEMMA ReadyVault ==
    ASSUME VaultOK, NEW tag
    PROVE  VaultReady(tag) <=> (Pricing(tag) => vault.state = 1)
<1>1. vault.state \in {1, 2}
  BY DEF VaultOK
<1>2. AccountState(1) = "initialized" /\ AccountState(2) = "frozen"
  BY DEF AccountState
<1> QED  BY <1>1, <1>2, VaultRead DEF VaultReady

(* The parser finds the decimals of the mint.                              *)
LEMMA MintRead == mint_unpack(MintAccount).decimals = DECIMALS
<1> DEFINE d == MintAccount
<1>1. d = [i \in 1 .. 82 |-> d[i]] /\ d[45] = DECIMALS
  BY DEF MintAccount, MINT_LEN
<1> HIDE DEF d
<1>2. Len(d) = 82
  BY <1>1, TupleLength
<1>3. mint_unpack(d).decimals = d[45]
  BY <1>2 DEF mint_unpack, MINT_LEN
<1> QED  BY <1>1, <1>3 DEF d

----------------------------------------------------------------------------
(* Handlers.                                                               *)

(* A client's request.                                                     *)
Request(r) ==
    /\ r = [tag |-> r.tag, args |-> r.args, quote |-> r.quote, target |-> r.target]
    /\ r.tag \in Tags
    /\ r.args \in ArgumentLists(r.tag)
    /\ r.quote \in IF r.tag \in {1, 2, 16} THEN Numbers["u64"] ELSE {None}
    /\ r.target \in IF r.tag \in {20, 22} THEN Keys ELSE {ZERO_KEY}

(* What the programs called read.                                          *)
Meant(made) == [i \in DOMAIN made |-> Decoded(made[i])]

(* Call by call.                                                           *)
LEMMA MeantCalls ==
    /\ Meant(<<>>) = <<>>
    /\ \A x : Meant(<<x>>) = <<Decoded(x)>>
    /\ \A x, y : Meant(<<x, y>>) = <<Decoded(x), Decoded(y)>>
    /\ \A x, y, z : Meant(<<x, y, z>>) = <<Decoded(x), Decoded(y), Decoded(z)>>
BY DEF Meant

(* The keys a call may carry.                                              *)
LEMMA KeysTyped == Keys \subseteq Key /\ {POOL_PDA, VAULT_AUTH, ZERO_KEY} \subseteq Key
<1>1. ZERO_KEY \in Key
  <2>1. 0 \in 0 .. Radix - 1
    BY Sizes
  <2> QED  BY <2>1 DEF ZERO_KEY, Key
<1> QED  BY <1>1, CodecAssumption

(* The amounts a request carries fit the types they are sent in.           *)
LEMMA SentAmounts ==
    ASSUME NEW tag \in Tags, NEW args \in ArgumentLists(tag), NEW payload \in Payloads(tag, args)
    PROVE  /\ tag \in {1, 2, 3, 10, 16, 23, 28} =>
                 args = <<args[1]>> /\ args[1] \in 0 .. U64 - 1 /\ args[1] \in 0 .. U128 - 1
           /\ tag = 26 => args = <<args[1]>> /\ args[1] \in 0 .. U128 - 1
           /\ tag \in {25, 27} =>
                 /\ args = <<args[1], args[2], args[3]>>
                 /\ args[1] \in 0 .. U16 - 1 /\ args[2] \in 0 .. U16 - 1 /\ args[3] \in 0 .. U16 - 1
<1>1. /\ Values("u16") \subseteq 0 .. U16 - 1
      /\ Values("u64") \subseteq 0 .. U64 - 1
      /\ Values("u128") \subseteq 0 .. U128 - 1
  BY CodecAssumption DEF Values
<1>2. ASSUME tag \in {1, 2, 3, 10, 16, 23, 28}
      PROVE  args = <<args[1]>> /\ args[1] \in 0 .. U64 - 1 /\ args[1] \in 0 .. U128 - 1
  <2>1. Arguments(tag) = <<"u64">>
    BY <1>2, ArgumentTypes
  <2>2. args = <<args[1]>> /\ args[1] \in Values("u64")
    BY <2>1, OneArgument DEF Kinds
  <2>3. args[1] \in 0 .. U64 - 1
    BY <1>1, <2>2
  <2>4. args[1] \in 0 .. U128 - 1
    BY <2>3, Sizes
  <2> QED  BY <2>2, <2>3, <2>4
<1>3. ASSUME tag = 26 PROVE args = <<args[1]>> /\ args[1] \in 0 .. U128 - 1
  <2>1. Arguments(tag) = <<"u128">>
    BY <1>3, ArgumentTypes
  <2>2. args = <<args[1]>> /\ args[1] \in Values("u128")
    BY <2>1, OneArgument DEF Kinds
  <2> QED  BY <1>1, <2>2
<1>4. ASSUME tag \in {25, 27}
      PROVE  /\ args = <<args[1], args[2], args[3]>>
             /\ args[1] \in 0 .. U16 - 1 /\ args[2] \in 0 .. U16 - 1 /\ args[3] \in 0 .. U16 - 1
  <2>1. Arguments(tag) = <<"u16", "u16", "u16">>
    BY <1>4, ArgumentTypes
  <2>2. /\ args = <<args[1], args[2], args[3]>>
        /\ args[1] \in Values("u16") /\ args[2] \in Values("u16") /\ args[3] \in Values("u16")
    BY <2>1, ThreeArguments DEF Kinds
  <2> QED  BY <1>1, <2>2
<1> QED  BY <1>2, <1>3, <1>4

(* One element behind another.                                             *)
LEMMA PairJoined == ASSUME NEW x, NEW y PROVE <<x>> \o <<y>> = <<x, y>>
<1> DEFINE S == {x, y}
           s == <<x>>
           t == <<y>>
           p == <<x, y>>
<1>1. s \in Seq(S) /\ t \in Seq(S) /\ p \in Seq(S)
  OBVIOUS
<1>2. Len(s) = 1 /\ Len(t) = 1 /\ Len(p) = 2 /\ s[1] = x /\ t[1] = y /\ p[1] = x /\ p[2] = y
  OBVIOUS
<1> HIDE DEF S, s, t, p
<1> DEFINE u == s \o t
<1>3. /\ u \in Seq(S) /\ Len(u) = Len(s) + Len(t)
      /\ \A i \in 1 .. Len(s) + Len(t) : u[i] = IF i <= Len(s) THEN s[i] ELSE t[i - Len(s)]
  BY <1>1, ConcatProperties
<1> HIDE DEF u
<1>4. Len(u) = 2 /\ u[1] = p[1] /\ u[2] = p[2]
  BY <1>2, <1>3
<1>5. \A i \in 1 .. Len(u) : u[i] = p[i]
  <2>1. \A i \in 1 .. Len(u) : i = 1 \/ i = 2
    BY <1>4
  <2> QED  BY <1>4, <2>1
<1>6. s \o t = p
  <2>1. u = p
    BY <1>1, <1>2, <1>3, <1>4, <1>5, SeqEqual
  <2> QED  BY <2>1 DEF u
<1> QED  BY <1>6 DEF s, t, p

(* The calls of a handler are the calls its request stands for.            *)
LEMMA HandlerAsked ==
    ASSUME Request(sent), NEW payload \in Payloads(sent.tag, sent.args)
    PROVE  Meant(Handler(sent.tag, sent.args, sent.quote, sent.target)) = Asked
<1> DEFINE tag == sent.tag
           a == sent.args
           q == sent.quote
           made == Handler(tag, a, q, sent.target)
<1>1. tag \in Tags /\ a \in ArgumentLists(tag) /\ payload \in Payloads(tag, a)
  BY DEF Request
<1>2. /\ tag \in {1, 2, 3, 10, 16, 23, 28} =>
            a = <<a[1]>> /\ a[1] \in 0 .. U64 - 1 /\ a[1] \in 0 .. U128 - 1
      /\ tag = 26 => a = <<a[1]>> /\ a[1] \in 0 .. U128 - 1
      /\ tag \in {25, 27} =>
            /\ a = <<a[1], a[2], a[3]>>
            /\ a[1] \in 0 .. U16 - 1 /\ a[2] \in 0 .. U16 - 1 /\ a[3] \in 0 .. U16 - 1
  BY <1>1, SentAmounts
<1>3. tag \in {1, 2, 16} => q \in 0 .. U64 - 1
  BY CodecAssumption DEF Request
<1>4. tag \in {20, 22} => sent.target \in Key
  BY KeysTyped DEF Request
<1>5. CASE tag \in {0, 13}
  <2>1. made = <<cpi_update_authority(POOL_PDA), initialize_mint(DECIMALS, VAULT_AUTH), initialize_account>>
    BY <1>5, MintRead DEF Handler
  <2>2. Asked = <<Ok(32, <<POOL_PDA>>), Ok(0, <<DECIMALS, VAULT_AUTH, 0>>), Ok(1, <<>>)>>
    <3>1. CASE tag = 0
      BY <3>1 DEF Asked
    <3>2. CASE tag = 13
      BY <3>2 DEF Asked
    <3> QED  BY <1>5, <3>1, <3>2
  <2>3. DECIMALS \in Int
    BY CodecAssumption, Sizes
  <2>4. /\ Decoded(cpi_update_authority(POOL_PDA)) = Ok(32, <<POOL_PDA>>)
        /\ Decoded(initialize_mint(DECIMALS, VAULT_AUTH)) = Ok(0, <<DECIMALS, VAULT_AUTH, 0>>)
        /\ Decoded(initialize_account) = Ok(1, <<>>)
    BY <2>3, KeysTyped, PlainCalls, MintCall
  <2> QED  BY <2>1, <2>2, <2>4, MeantCalls
<1>6. CASE tag \in {1, 16}
  <2>1. made = <<transfer(a[1]), mint_to(q)>> /\ Asked = <<Ok(3, a), Ok(7, <<q>>)>>
    <3>1. CASE tag = 1
      BY <3>1 DEF Handler, Asked
    <3>2. CASE tag = 16
      BY <3>2 DEF Handler, Asked
    <3> QED  BY <1>6, <3>1, <3>2
  <2>2. Decoded(transfer(a[1])) = Ok(3, <<a[1]>>) /\ Decoded(mint_to(q)) = Ok(7, <<q>>)
    BY <1>2, <1>3, <1>6, NumberCalls
  <2>3. a = <<a[1]>>
    BY <1>2, <1>6
  <2>4. Meant(made) = <<Decoded(transfer(a[1])), Decoded(mint_to(q))>>
    BY <2>1, MeantCalls, Zenon
  <2>5. Meant(made) = <<Ok(3, <<a[1]>>), Ok(7, <<q>>)>>
    BY <2>2, <2>4, Zenon
  <2> QED  BY <2>1, <2>3, <2>5, Zenon
<1>7. CASE tag = 2
  <2>1. Decoded(burn(a[1])) = Ok(8, <<a[1]>>) /\ Decoded(transfer(q)) = Ok(3, <<q>>)
    BY <1>2, <1>3, <1>7, NumberCalls
  <2>2. a = <<a[1]>>
    BY <1>2, <1>7
  <2>3. CASE q = 0
    <3>1. made = <<burn(a[1])>> /\ Asked = <<Ok(8, a)>>
      BY <1>7, <2>3 DEF Handler, Asked
    <3> QED  BY <2>1, <2>2, <3>1, MeantCalls
  <2>4. CASE q > 0
    <3>1. made = <<burn(a[1])>> \o <<transfer(q)>>
      BY <1>7, <2>4 DEF Handler
    <3>2. made = <<burn(a[1]), transfer(q)>>
      BY <3>1, PairJoined
    <3>3. q # 0
      BY <1>3, <1>7, <2>4, Sizes
    <3>4. Asked = <<Ok(8, a), Ok(3, <<q>>)>>
      BY <1>7, <2>4, <3>3 DEF Asked
    <3>5. Meant(made) = <<Decoded(burn(a[1])), Decoded(transfer(q))>>
      BY <3>2, MeantCalls, Zenon
    <3>6. Meant(made) = <<Ok(8, <<a[1]>>), Ok(3, <<q>>)>>
      BY <2>1, <3>5, Zenon
    <3> QED  BY <2>2, <3>4, <3>6, Zenon
  <2>5. q = 0 \/ q > 0
    BY <1>3, <1>7, Sizes
  <2> QED  BY <2>3, <2>4, <2>5
<1>8. CASE tag = 3
  <2>1. made = <<cpi_top_up_insurance(a[1])>> /\ Asked = <<Ok(9, a)>>
    BY <1>8 DEF Handler, Asked
  <2>2. Decoded(cpi_top_up_insurance(a[1])) = Ok(9, <<a[1]>>) /\ a = <<a[1]>>
    BY <1>2, <1>8, NumberCalls
  <2> QED  BY <2>1, <2>2, MeantCalls
<1>9. CASE tag = 10
  <2>1. made = <<transfer(a[1])>> /\ Asked = <<Ok(3, a)>>
    BY <1>9 DEF Handler, Asked
  <2>2. Decoded(transfer(a[1])) = Ok(3, <<a[1]>>) /\ a = <<a[1]>>
    BY <1>2, <1>9, NumberCalls
  <2> QED  BY <2>1, <2>2, MeantCalls
<1>10. CASE tag \in {19, 20, 21, 22}
  <2>1. \A k \in Key : /\ Decoded(UpdateAssetAuthority(0, k)) = Ok(65, <<0, 0, k>>)
                        /\ Decoded(UpdateAssetAuthority(1, k)) = Ok(65, <<0, 1, k>>)
                        /\ Decoded(UpdateAssetAuthority(2, k)) = Ok(65, <<0, 2, k>>)
    BY RoleCall
  <2>2. CASE tag = 19
    <3>1. /\ made = <<UpdateAssetAuthority(1, VAULT_AUTH), UpdateAssetAuthority(2, VAULT_AUTH)>>
          /\ Asked = <<Ok(65, <<0, 1, VAULT_AUTH>>), Ok(65, <<0, 2, VAULT_AUTH>>)>>
      BY <2>2 DEF Handler, Asked, cpi_bind_insurance_authority, cpi_bind_insurance_operator
    <3>2. /\ Decoded(UpdateAssetAuthority(1, VAULT_AUTH)) = Ok(65, <<0, 1, VAULT_AUTH>>)
          /\ Decoded(UpdateAssetAuthority(2, VAULT_AUTH)) = Ok(65, <<0, 2, VAULT_AUTH>>)
      BY <2>1, KeysTyped
    <3> QED  BY <3>1, <3>2, MeantCalls
  <2>3. CASE tag = 20
    <3>1. /\ made = <<UpdateAssetAuthority(1, sent.target)>>
          /\ Asked = <<Ok(65, <<0, 1, sent.target>>)>>
      BY <2>3 DEF Handler, Asked, cpi_rotate_insurance_authority
    <3> QED  BY <1>4, <2>1, <2>3, <3>1, MeantCalls
  <2>4. CASE tag = 21
    <3>1. /\ made = <<UpdateAssetAuthority(0, ZERO_KEY)>>
          /\ Asked = <<Ok(65, <<0, 0, ZERO_KEY>>)>>
      BY <2>4 DEF Handler, Asked, cpi_burn_asset_admin
    <3> QED  BY <2>1, <3>1, KeysTyped, MeantCalls
  <2>5. CASE tag = 22
    <3>1. /\ made = <<UpdateAssetAuthority(2, sent.target)>>
          /\ Asked = <<Ok(65, <<0, 2, sent.target>>)>>
      BY <2>5 DEF Handler, Asked, cpi_rotate_insurance_operator
    <3> QED  BY <1>4, <2>1, <2>5, <3>1, MeantCalls
  <2> QED  BY <1>10, <2>2, <2>3, <2>4, <2>5
<1>11. CASE tag = 23
  <2>1. a = <<a[1]>> /\ Decoded(cpi_withdraw_insurance_asset(a[1])) = Ok(57, <<0, a[1]>>)
    BY <1>2, <1>11, WithdrawCall
  <2>2. <<0>> \o a = <<0, a[1]>>
    <3>1. <<0>> \o <<a[1]>> = <<0, a[1]>>
      BY PairJoined
    <3> QED  BY <2>1, <3>1
  <2>3. made = <<cpi_withdraw_insurance_asset(a[1])>> /\ Asked = <<Ok(57, <<0>> \o a)>>
    BY <1>11 DEF Handler, Asked
  <2> QED  BY <2>1, <2>2, <2>3, MeantCalls
<1>12. CASE tag = 24
  <2>1. made = <<cpi_resolve_market>> /\ Asked = <<Ok(19, <<>>)>>
    BY <1>12 DEF Handler, Asked
  <2> QED  BY <2>1, PlainCalls, MeantCalls
<1>13. CASE tag \in {25, 27}
  <2>1. /\ a = <<a[1], a[2], a[3]>>
        /\ Decoded(cpi_update_fee_split(a[1], a[2], a[3])) = Ok(86, <<a[1], a[2], a[3]>>)
        /\ Decoded(cpi_update_backing_fee_policy(a[1], a[2], a[3])) = Ok(51, <<a[1], a[2], a[3]>>)
    BY <1>2, <1>13, PolicyCalls
  <2>2. CASE tag = 25
    <3>1. made = <<cpi_update_fee_split(a[1], a[2], a[3])>> /\ Asked = <<Ok(86, a)>>
      BY <2>2 DEF Handler, Asked
    <3> QED  BY <2>1, <3>1, MeantCalls, ZenonT(40)
  <2>3. CASE tag = 27
    <3>1. made = <<cpi_update_backing_fee_policy(a[1], a[2], a[3])>> /\ Asked = <<Ok(51, a)>>
      BY <2>3 DEF Handler, Asked
    <3> QED  BY <2>1, <3>1, MeantCalls
  <2> QED  BY <1>13, <2>2, <2>3
<1>14. CASE tag = 26
  <2>1. made = <<cpi_update_maintenance_fee_per_slot(a[1])>> /\ Asked = <<Ok(88, a)>>
    BY <1>14 DEF Handler, Asked
  <2>2. Decoded(cpi_update_maintenance_fee_per_slot(a[1])) = Ok(88, <<a[1]>>) /\ a = <<a[1]>>
    BY <1>2, <1>14, NumberCalls
  <2> QED  BY <2>1, <2>2, MeantCalls
<1>15. CASE tag = 28
  <2>1. made = <<cpi_update_trade_fee_policy(a[1])>> /\ Asked = <<Ok(55, a)>>
    BY <1>15 DEF Handler, Asked
  <2>2. Decoded(cpi_update_trade_fee_policy(a[1])) = Ok(55, <<a[1]>>) /\ a = <<a[1]>>
    BY <1>2, <1>15, NumberCalls
  <2> QED  BY <2>1, <2>2, MeantCalls
<1>16. CASE tag \in {4, 5, 6, 7, 8, 9, 12, 14, 15, 18}
  <2>1. made = <<>>
    BY <1>16 DEF Handler
  <2>2. Asked = <<>>
    BY <1>16 DEF Asked
  <2> QED  BY <2>1, <2>2, MeantCalls
<1> QED  BY <1>1, <1>5, <1>6, <1>7, <1>8, <1>9, <1>10, <1>11, <1>12, <1>13, <1>14, <1>15, <1>16 DEF Tags

----------------------------------------------------------------------------
(* The invariant.                                                          *)

(* What a client of this build sends, or one of another build: the tag and *)
(* bytes of another number.                                                *)
OnTheWire ==
    IF skewed
    THEN /\ wire \in Seq(Int) /\ Head(wire) = sent.tag
         /\ Len(wire) # PayloadSize(sent.tag) + 1
    ELSE \E payload \in Payloads(sent.tag, sent.args) : wire = <<sent.tag>> \o payload

CodecInv ==
    /\ VaultOK
    /\ skewed \in BOOLEAN
    /\ sent = NoRequest \/ Request(sent)
    /\ sent = NoRequest => wire = <<>> /\ ~skewed
    /\ wire # <<>> => OnTheWire
    /\ ExactlyWhatWasSent
    /\ CallsMeanWhatWasAsked
    /\ PricedWithVault

(* NoRequest is not a request.                                             *)
LEMMA NoRequestTag == NoRequest.tag \notin Tags
BY DEF NoRequest, None, Tags

(* It holds before the first request.                                      *)
LEMMA CodecInit == Init => CodecInv
<1> SUFFICES ASSUME Init PROVE CodecInv
  OBVIOUS
<1>1. VaultOK
  BY CodecAssumption DEF Init, VaultOK
<1>2. ~Processed /\ wire = <<>> /\ sent = NoRequest /\ skewed = FALSE
  BY DEF Init, Processed
<1> QED  BY <1>1, <1>2 DEF CodecInv, ExactlyWhatWasSent, CallsMeanWhatWasAsked, PricedWithVault

(* A request is on the wire as it was encoded.                             *)
LEMMA CodecSend == ASSUME CodecInv, NEW tag \in Tags, Send(tag) PROVE CodecInv'
<1>1. PICK args \in ArgumentLists(tag),
           quote \in IF tag \in {1, 2, 16} THEN Numbers["u64"] ELSE {None},
           target \in IF tag \in {20, 22} THEN Keys ELSE {ZERO_KEY} :
           \E p \in Payloads(tag, args) :
              /\ sent' = [tag |-> tag, args |-> args, quote |-> quote, target |-> target]
              /\ wire' = <<tag>> \o p
  BY DEF Send
<1>2. PICK payload \in Payloads(tag, args) : wire' = <<tag>> \o payload
  BY <1>1
<1>3. skewed' = FALSE /\ vault' = vault
  BY DEF Send, CodecInv
<1>4. wire' # <<>>
  <2>1. Text(payload, PayloadSize(tag)) /\ PayloadSize(tag) \in Nat /\ tag \in Int
    BY UnpackSent DEF Tags
  <2> QED  BY <1>2, <2>1, Message
<1>5. Request(sent)' /\ (sent # NoRequest)'
  <2>1. /\ sent'.tag = tag /\ sent'.args = args
        /\ sent'.quote = quote /\ sent'.target = target
    BY <1>1
  <2>2. Request(sent')
    BY <1>1, <2>1 DEF Request
  <2>3. sent' # NoRequest
    BY <2>1, NoRequestTag
  <2> QED  BY <2>2, <2>3
<1>6. OnTheWire'
  BY <1>1, <1>2, <1>3 DEF OnTheWire
<1>7. ~Processed'
  BY <1>4 DEF Processed
<1>8. VaultOK'
  BY <1>3 DEF CodecInv, VaultOK
<1> QED  BY <1>3, <1>4, <1>5, <1>6, <1>7, <1>8
         DEF CodecInv, ExactlyWhatWasSent, CallsMeanWhatWasAsked, PricedWithVault

(* A sequence cut short is a shorter one with the same first element.      *)
LEMMA Prefix ==
    ASSUME NEW s \in Seq(Int), NEW n \in Nat, n > 0,
           \A i \in 1 .. n : s[i] \in Int
    PROVE  SubSeq(s, 1, n) \in Seq(Int) /\ Len(SubSeq(s, 1, n)) = n /\ SubSeq(s, 1, n)[1] = s[1]
<1>1. 1 \in Int /\ n \in Int
  OBVIOUS
<1>2. /\ SubSeq(s, 1, n) \in Seq(Int)
      /\ Len(SubSeq(s, 1, n)) = IF 1 <= n THEN n - 1 + 1 ELSE 0
      /\ \A i \in 1 .. n - 1 + 1 : SubSeq(s, 1, n)[i] = s[1 + i - 1]
  BY <1>1, SubSeqProperties
<1> QED  BY <1>2

(* One of another build keeps its tag.                                     *)
LEMMA CodecSkew == ASSUME CodecInv, Skew PROVE CodecInv'
<1>1. /\ sent' = sent /\ vault' = vault /\ skewed' = TRUE
      /\ wire # <<>> /\ skewed = FALSE
      /\ wire' \in {SubSeq(wire, 1, n) : n \in 1 .. Len(wire) - 1} \cup {wire \o <<b>> : b \in {0, 1}}
  BY DEF Skew, CodecInv
<1>2. Request(sent) /\ sent # NoRequest
  BY <1>1 DEF CodecInv
<1>3. PICK payload \in Payloads(sent.tag, sent.args) : wire = <<sent.tag>> \o payload
  BY <1>1 DEF CodecInv, OnTheWire
<1> DEFINE size == PayloadSize(sent.tag) + 1
<1>4. Text(wire, size) /\ size \in Nat \ {0} /\ Head(wire) = sent.tag
  <2>1. Text(payload, PayloadSize(sent.tag)) /\ PayloadSize(sent.tag) \in Nat
    BY <1>2, UnpackSent DEF Request
  <2>2. sent.tag \in Int
    BY <1>2 DEF Request, Tags
  <2>3. Text(<<sent.tag>> \o payload, size) /\ Head(<<sent.tag>> \o payload) = sent.tag
    BY <2>1, <2>2, Message
  <2> QED  BY <1>3, <2>1, <2>3
<1> HIDE DEF size
<1>5. wire' \in Seq(Int) /\ Head(wire') = sent.tag /\ Len(wire') # size /\ wire' # <<>>
  <2>1. CASE \E n \in 1 .. Len(wire) - 1 : wire' = SubSeq(wire, 1, n)
    <3>1. PICK n \in 1 .. Len(wire) - 1 : wire' = SubSeq(wire, 1, n)
      BY <2>1
    <3>2. /\ wire \in Seq(Int) /\ Len(wire) = size /\ n \in 1 .. size - 1 /\ n \in Nat
          /\ \A i \in 1 .. n : wire[i] \in Int
      <4>1. wire \in Seq(Int) /\ Len(wire) = size /\ n \in 1 .. size - 1 /\ n \in Nat
        BY <1>4 DEF Text
      <4>2. \A i \in 1 .. n : wire[i] \in Int
        BY <1>4, <4>1, ElementOfSeq
      <4> QED  BY <4>1, <4>2
    <3>3. wire' \in Seq(Int) /\ Len(wire') = n /\ wire'[1] = wire[1]
      BY <3>1, <3>2, Prefix
    <3>4. wire' # <<>> /\ Len(wire') # size
      BY <1>4, <3>2, <3>3
    <3>5. Head(wire') = wire'[1] /\ Head(wire) = wire[1]
      BY <1>4, <3>3, <3>4 DEF Text
    <3> QED  BY <1>4, <3>3, <3>4, <3>5
  <2>2. CASE \E b \in {0, 1} : wire' = wire \o <<b>>
    <3>1. PICK b \in {0, 1} : wire' = wire \o <<b>>
      BY <2>2
    <3>2. b \in Int /\ Text(<<b>>, 1)
      BY OneByte
    <3>3. Text(wire \o <<b>>, size + 1) /\ At(wire \o <<b>>, 0, wire)
      BY <1>4, <3>2, JoinTwo
    <3>4. wire' \in Seq(Int) /\ Len(wire') = size + 1 /\ At(wire', 0, wire)
      BY <3>1, <3>3 DEF Text
    <3>5. wire'[1] = wire[1] /\ wire' # <<>> /\ Len(wire') # size
      <4>1. 1 \in 1 .. Len(wire) /\ 0 + 1 = 1
        BY <1>4 DEF Text
      <4>2. wire'[1] = wire[1]
        BY <3>4, <4>1 DEF At
      <4> QED  BY <1>4, <3>4, <4>2
    <3>6. Head(wire') = wire'[1] /\ Head(wire) = wire[1]
      BY <1>4, <3>4, <3>5 DEF Text
    <3> QED  BY <1>4, <3>4, <3>5, <3>6
  <2> QED  BY <1>1, <2>1, <2>2
<1>6. OnTheWire'
  BY <1>1, <1>5 DEF OnTheWire, size
<1>7. ~Processed' /\ VaultOK'
  BY <1>1, <1>5 DEF Processed, CodecInv, VaultOK
<1>8. Request(sent)'
  BY <1>1, <1>2 DEF Request
<1> QED  BY <1>1, <1>2, <1>5, <1>6, <1>7, <1>8
         DEF CodecInv, ExactlyWhatWasSent, CallsMeanWhatWasAsked, PricedWithVault

(* A processed request: unpack found it out, and the handler called what   *)
(* it stands for.                                                          *)
LEMMA CodecProcess == ASSUME CodecInv, Process PROVE CodecInv'
<1>1. /\ sent' = sent /\ skewed' = skewed /\ vault' = vault /\ wire' = <<>>
      /\ wire # <<>> /\ result' = unpack(wire)
  BY DEF Process
<1>2. Request(sent) /\ sent # NoRequest /\ sent.tag \in Tags /\ VaultOK /\ OnTheWire
  BY <1>1 DEF CodecInv, Request
<1>3. VaultOK' /\ Request(sent)' /\ Asked' = Asked /\ (VaultReady(sent.tag)' <=> VaultReady(sent.tag))
  BY <1>1, <1>2 DEF VaultOK, Request, Asked, VaultReady, TokenAccount
<1>4. CASE skewed
  <2>1. wire \in Seq(Int) /\ Head(wire) = sent.tag /\ Len(wire) # PayloadSize(sent.tag) + 1
    BY <1>2, <1>4 DEF OnTheWire
  <2>2. unpack(wire) = Err
    <3>1. /\ Tail(wire) \in Seq(Int) /\ Len(Tail(wire)) = Len(wire) - 1
          /\ wire = <<Head(wire)>> \o Tail(wire)
      BY <1>1, <2>1, HeadTailProperties
    <3>2. Len(wire) \in Nat \ {0}
      BY <1>1, <2>1, EmptySeq, LenProperties
    <3>3. Text(Tail(wire), Len(wire) - 1) /\ Len(wire) - 1 \in Nat
      BY <3>1, <3>2 DEF Text
    <3>4. PayloadSize(sent.tag) \in Nat
      BY DEF PayloadSize
    <3>5. Len(wire) - 1 # PayloadSize(sent.tag)
      BY <2>1, <3>2, <3>4
    <3>6. unpack(<<sent.tag>> \o Tail(wire)) = Err
      BY <1>2, <3>3, <3>5, UnpackArms
    <3> QED  BY <2>1, <3>1, <3>6
  <2>3. result' = Err /\ ~result'.ok /\ calls' = <<>>
    BY <1>1, <2>2 DEF Process, Err
  <2>4. ExactlyWhatWasSent'
    BY <1>1, <1>4, <2>3 DEF ExactlyWhatWasSent
  <2>5. CallsMeanWhatWasAsked'
    BY <2>3, MeantCalls DEF CallsMeanWhatWasAsked, Meant
  <2>6. PricedWithVault'
    BY <1>1, <1>4 DEF PricedWithVault
  <2> QED  BY <1>1, <1>2, <1>3, <2>4, <2>5, <2>6 DEF CodecInv
<1>5. CASE ~skewed
  <2>1. PICK payload \in Payloads(sent.tag, sent.args) : wire = <<sent.tag>> \o payload
    BY <1>2, <1>5 DEF OnTheWire
  <2>2. result' = Ok(sent.tag, sent.args)
    BY <1>1, <1>2, <2>1, UnpackSent DEF Request
  <2>3. result'.ok /\ result'.tag = sent.tag /\ result'.args = sent.args
    BY <2>2 DEF Ok
  <2>4. VaultReady(sent.tag) <=> (Pricing(sent.tag) => vault.state = 1)
    BY <1>2, ReadyVault
  <2>5. IF VaultReady(sent.tag)
        THEN /\ seen' = IF Pricing(sent.tag) THEN vault.amount ELSE None
             /\ calls' = Handler(sent.tag, sent.args, sent.quote, sent.target)
        ELSE seen' = None /\ calls' = <<>>
    BY <1>2, <2>3, VaultRead DEF Process
  <2>6. ExactlyWhatWasSent'
    BY <1>1, <1>5, <2>2 DEF ExactlyWhatWasSent
  <2>7. CallsMeanWhatWasAsked'
    <3>1. Meant(calls') = IF VaultReady(sent.tag) THEN Asked ELSE <<>>
      BY <1>2, <2>1, <2>5, HandlerAsked, MeantCalls
    <3> QED  BY <1>1, <1>3, <2>3, <3>1 DEF CallsMeanWhatWasAsked, Meant
  <2>8. PricedWithVault'
    BY <1>1, <2>4, <2>5 DEF PricedWithVault
  <2> QED  BY <1>1, <1>2, <1>3, <2>6, <2>7, <2>8 DEF CodecInv
<1> QED  BY <1>4, <1>5

(* The invariant is inductive.                                             *)
LEMMA CodecStep == CodecInv /\ [Next]_cvars => CodecInv'
<1> SUFFICES ASSUME CodecInv, [Next]_cvars PROVE CodecInv'
  OBVIOUS
<1>1. ASSUME NEW tag \in Tags, Send(tag) PROVE CodecInv'
  BY <1>1, CodecSend
<1>2. CASE Skew
  BY <1>2, CodecSkew
<1>3. CASE Process
  BY <1>3, CodecProcess
<1>4. CASE Acknowledge
  <2>1. sent' = NoRequest /\ wire' = <<>> /\ skewed' = FALSE /\ vault' = vault
    BY <1>4 DEF Acknowledge
  <2>2. ~Processed' /\ VaultOK'
    BY <2>1 DEF Processed, CodecInv, VaultOK
  <2> QED  BY <2>1, <2>2 DEF CodecInv, ExactlyWhatWasSent, CallsMeanWhatWasAsked, PricedWithVault
<1>5. CASE UNCHANGED cvars
  <2>1. /\ sent' = sent /\ wire' = wire /\ skewed' = skewed /\ vault' = vault
        /\ result' = result /\ seen' = seen /\ calls' = calls
    BY <1>5 DEF cvars
  <2>2. VaultOK' /\ (Request(sent)' <=> Request(sent)) /\ (OnTheWire' <=> OnTheWire)
    BY <2>1 DEF CodecInv, VaultOK, Request, OnTheWire
  <2>3. (Processed' <=> Processed) /\ Asked' = Asked
    BY <2>1 DEF Processed, Asked
  <2>4. VaultReady(sent.tag)' <=> VaultReady(sent.tag)
    BY <2>1 DEF VaultReady, TokenAccount
  <2>5. ExactlyWhatWasSent' /\ CallsMeanWhatWasAsked' /\ PricedWithVault'
    BY <2>1, <2>3, <2>4 DEF CodecInv, ExactlyWhatWasSent, CallsMeanWhatWasAsked, PricedWithVault
  <2> QED  BY <2>1, <2>2, <2>5 DEF CodecInv
<1> QED  BY <1>1, <1>2, <1>3, <1>4, <1>5 DEF Next

(* In every reachable state.                                               *)
THEOREM CodecReachable == Spec => []CodecInv
BY CodecInit, CodecStep, PTL DEF Spec

(***************************************************************************)
(* For every byte size, every key and every number of each type,           *)
(* StakeInstruction::unpack gives back the variant and the arguments a     *)
(* client encoded, whatever bytes stand behind a flag or an unset option,  *)
(* and refuses the instruction of a client whose format has another length.*)
(***************************************************************************)
THEOREM UnpackExact == Spec => []ExactlyWhatWasSent
<1>1. CodecInv => ExactlyWhatWasSent
  BY DEF CodecInv
<1> QED  BY <1>1, CodecReachable, PTL

(***************************************************************************)
(* The wrapper and the token program read, in order, exactly the calls a   *)
(* request stands for: cpi.rs and spl_token.rs cut no amount, misplace no  *)
(* field and leave no byte over.                                           *)
(***************************************************************************)
THEOREM CallsExact == Spec => []CallsMeanWhatWasAsked
<1>1. CodecInv => CallsMeanWhatWasAsked
  BY DEF CodecInv
<1> QED  BY <1>1, CodecReachable, PTL

(***************************************************************************)
(* Deposit, DepositJunior, Withdraw and AccrueFees price with the vault's  *)
(* balance as the token program keeps it, and call nothing while the vault *)
(* is frozen.                                                              *)
(***************************************************************************)
THEOREM PricedExactly == Spec => []PricedWithVault
<1>1. CodecInv => PricedWithVault
  BY DEF CodecInv
<1> QED  BY <1>1, CodecReachable, PTL
=============================================================================
