------------------------ MODULE DeviceInstanceProofs ------------------------
(* Proofs about the decoder of the device properties: whatever a device    *)
(* reports, the decoder gets back what the driver put into the buffer.     *)
(*                                                                         *)
(* A buffer, a number and a table are built by recursion.  What is said of *)
(* them is proved by the least natural number that would be an exception.  *)
EXTENDS DeviceInstance, BasicFacts
-----------------------------------------------------------------------------
(* Numbers and bits.                                                       *)

(* The number that the bits 0 to 7 in s make.                              *)
Bit(s, i, w) == IF i \in s THEN w ELSE 0
ByteValue(s) == Bit(s, 0, 1) + Bit(s, 1, 2) + Bit(s, 2, 4) + Bit(s, 3, 8)
                + Bit(s, 4, 16) + Bit(s, 5, 32) + Bit(s, 6, 64)
                + Bit(s, 7, 128)

(* The weights of the bits of a byte.                                      *)
LEMMA TwoPowers == /\ 2^0 = 1 /\ 2^1 = 2 /\ 2^2 = 4 /\ 2^3 = 8
                   /\ 2^4 = 16 /\ 2^5 = 32 /\ 2^6 = 64 /\ 2^7 = 128
  OBVIOUS

(* A bit that is set adds its weight.                                      *)
LEMMA ByteValueStep ==
    ASSUME NEW s, NEW x \in s, x \in 0..7
    PROVE  /\ ByteValue(s) = 2^x + ByteValue(s \ {x})
           /\ ByteValue(s \ {x}) < ByteValue(s)
<1> USE TwoPowers DEF ByteValue, Bit
<1>1. CASE x = 0
  BY <1>1
<1>2. CASE x = 1
  BY <1>2
<1>3. CASE x = 2
  BY <1>3
<1>4. CASE x = 3
  BY <1>4
<1>5. CASE x = 4
  BY <1>5
<1>6. CASE x = 5
  BY <1>6
<1>7. CASE x = 6
  BY <1>7
<1>8. CASE x = 7
  BY <1>8
<1> QED
  BY <1>1, <1>2, <1>3, <1>4, <1>5, <1>6, <1>7, <1>8

(* The sum that Number is defined by, for bits of a byte.                  *)
LEMMA NumberOfByte ==
    ASSUME NEW bits \in SUBSET (0..7)
    PROVE  Number(bits) = ByteValue(bits)
<1> DEFINE weight == [i \in bits |-> 2^i]
           F == {s \in SUBSET bits : SumFunctionOnSet(weight, s) = ByteValue(s)}
<1>1. IsFiniteSet(bits)
  <2>1. IsFiniteSet(0..7)
    BY FS_BoundedSetOfNaturals
  <2> QED
    BY <2>1, FS_Subset
<1>2. \A i \in bits : weight[i] = 2^i /\ weight[i] \in Nat
  BY PowersOfTwo
<1> HIDE DEF weight
<1>3. {} \in F
  BY SumOfNone DEF ByteValue, Bit
<1>4. ASSUME NEW s \in F, NEW x \in bits \ s PROVE s \union {x} \in F
  <2> DEFINE t == s \union {x}
  <2>1. t \in SUBSET bits /\ x \in t /\ x \in 0..7 /\ t \ {x} = s
        /\ SumFunctionOnSet(weight, s) = ByteValue(s)
    OBVIOUS
  <2> HIDE DEF t, F
  <2>2. SumFunctionOnSet(weight, t) = weight[x] + SumFunctionOnSet(weight, t \ {x})
    <3>1. IsFiniteSet(t) /\ \A i \in t : weight[i] \in Nat
      BY <1>1, <1>2, <2>1, FS_Subset
    <3>2. \A y \in t : SumFunctionOnSet(weight, t) =
                          weight[y] + SumFunctionOnSet(weight, t \ {y})
      BY <3>1, SumOfMore
    <3> QED
      BY <2>1, <3>2
  <2>3. ByteValue(t) = 2^x + ByteValue(t \ {x})
    BY <2>1, ByteValueStep
  <2>4. SumFunctionOnSet(weight, t) = ByteValue(t)
    BY <1>2, <2>1, <2>2, <2>3
  <2> QED
    BY <2>1, <2>4 DEF F, t
<1>5. F = SUBSET bits
  <2> HIDE DEF F
  <2>1. F \in SUBSET SUBSET bits
    BY DEF F
  <2> QED
    BY <1>1, <1>3, <1>4, <2>1, SubsetInduction
<1>6. SumFunctionOnSet(weight, bits) = ByteValue(bits)
  BY <1>5
<1> QED
  BY <1>6 DEF Number, SumFunction, weight

(* Bit i of byte k.                                                        *)
LEMMA ReadBit ==
    ASSUME NEW bytes, NEW k \in DOMAIN bytes, DOMAIN bytes \subseteq Int,
           NEW i \in 0..7
    PROVE  8 * (k - 1) + i \in Read(bytes) <=> i \in Bits(bytes[k])
<1>1. ASSUME NEW l \in DOMAIN bytes, NEW j \in Bits(bytes[l]),
             8 * (l - 1) + j = 8 * (k - 1) + i
      PROVE  l = k /\ j = i
  BY <1>1 DEF Bits
<1> QED
  BY <1>1 DEF Read

(* The bits of a byte by division.                                         *)
LEMMA BitsOfByte ==
    ASSUME NEW b \in 0..255
    PROVE  /\ 0 \in Bits(b) <=> b % 2 = 1
           /\ 1 \in Bits(b) <=> (b \div 2) % 2 = 1
           /\ 2 \in Bits(b) <=> (b \div 4) % 2 = 1
           /\ 3 \in Bits(b) <=> (b \div 8) % 2 = 1
           /\ 4 \in Bits(b) <=> (b \div 16) % 2 = 1
           /\ 5 \in Bits(b) <=> (b \div 32) % 2 = 1
           /\ 6 \in Bits(b) <=> (b \div 64) % 2 = 1
           /\ 7 \in Bits(b) <=> (b \div 128) % 2 = 1
  BY TwoPowers DEF Bits

(* A byte is the sum of its binary digits.                                 *)
LEMMA BinaryDigits ==
    ASSUME NEW n \in 0..255
    PROVE  n = (n % 2) + 2 * ((n \div 2) % 2) + 4 * ((n \div 4) % 2)
               + 8 * ((n \div 8) % 2) + 16 * ((n \div 16) % 2)
               + 32 * ((n \div 32) % 2) + 64 * ((n \div 64) % 2)
               + 128 * ((n \div 128) % 2)
  OBVIOUS

(* The head of a property, whose size is two to the log2.                  *)
HeadByte1(id, log2) == (4 * id + log2) % 256
HeadByte2(id, log2) == (4 * id + log2) \div 256
Head4(id, log2) == <<HeadByte1(id, log2), HeadByte2(id, log2), 0, 0>>

(* The binary digits of the first two bytes of a property's head.          *)
DigitsOf(low, high, id, log2) ==
    /\ low \in 0..255 /\ high \in 0..3
    /\ low % 2 = log2 % 2 /\ (low \div 2) % 2 = (log2 \div 2) % 2
    /\ (low \div 4) % 2 = id % 2 /\ (low \div 8) % 2 = (id \div 2) % 2
    /\ (low \div 16) % 2 = (id \div 4) % 2
    /\ (low \div 32) % 2 = (id \div 8) % 2
    /\ (low \div 64) % 2 = (id \div 16) % 2
    /\ (low \div 128) % 2 = (id \div 32) % 2
    /\ high % 2 = (id \div 64) % 2
    /\ (high \div 2) % 2 = (id \div 128) % 2

LEMMA HeadDigits ==
    ASSUME NEW id \in 0..255, NEW log2 \in 0..3
    PROVE  DigitsOf(HeadByte1(id, log2), HeadByte2(id, log2), id, log2)
<1> DEFINE low == HeadByte1(id, log2)
           high == HeadByte2(id, log2)
<1>1. low = log2 + 4 * (id % 64) /\ high = id \div 64
  BY DEF HeadByte1, HeadByte2
<1> HIDE DEF low, high
<1>2. low \in 0..255 /\ high \in 0..3
  BY <1>1
<1>3. low % 2 = log2 % 2 /\ (low \div 2) % 2 = (log2 \div 2) % 2
  BY <1>1
<1>4. low \div 4 = id % 64
  BY <1>1
<1>5. \A m \in {1, 2, 4, 8, 16, 32} : (low \div (4 * m)) = (id % 64) \div m
  BY <1>1
<1>6. \A m \in {1, 2, 4, 8, 16, 32} : ((id % 64) \div m) % 2 = (id \div m) % 2
  OBVIOUS
<1>7. high % 2 = (id \div 64) % 2 /\ (high \div 2) % 2 = (id \div 128) % 2
  BY <1>1
<1>8. \A m \in {1, 2, 4, 8, 16, 32} : (low \div (4 * m)) % 2 = (id \div m) % 2
  BY <1>5, <1>6
<1>9. (low \div 4) % 2 = id % 2
  <2>1. 4 * 1 = 4 /\ id \div 1 = id
    OBVIOUS
  <2> QED
    BY <1>8, <2>1
<1>10. /\ (low \div 8) % 2 = (id \div 2) % 2
       /\ (low \div 16) % 2 = (id \div 4) % 2
       /\ (low \div 32) % 2 = (id \div 8) % 2
  <2>1. 4 * 2 = 8 /\ 4 * 4 = 16 /\ 4 * 8 = 32
    OBVIOUS
  <2> QED
    BY <1>8, <2>1
<1>11. /\ (low \div 64) % 2 = (id \div 16) % 2
       /\ (low \div 128) % 2 = (id \div 32) % 2
  <2>1. 4 * 16 = 64 /\ 4 * 32 = 128
    OBVIOUS
  <2> QED
    BY <1>8, <2>1
<1> QED
  <2>1. DigitsOf(low, high, id, log2)
    BY <1>2, <1>3, <1>7, <1>9, <1>10, <1>11, Zenon DEF DigitsOf
  <2> QED
    BY <2>1 DEF low, high

(* Decoding the head of a property inverts its encoding.                   *)
LEMMA HeadDecoded ==
    ASSUME NEW id \in 0..255, NEW log2 \in 0..3, NEW rest,
           rest = Read(Head4(id, log2))
    PROVE  prop_decoder__to_prop_metadata(rest) =
               [size |-> 2 ^ log2, id |-> id]
<1> DEFINE low == HeadByte1(id, log2)
           high == HeadByte2(id, log2)
           bytes == <<low, high, 0, 0>>
           number == {i - 2 : i \in rest \intersect 2..9}
<1>1. rest = Read(bytes)
  BY DEF Head4
<1>2. /\ low \in 0..255 /\ high \in 0..3
      /\ low % 2 = log2 % 2 /\ (low \div 2) % 2 = (log2 \div 2) % 2
      /\ (low \div 4) % 2 = id % 2 /\ (low \div 8) % 2 = (id \div 2) % 2
      /\ (low \div 16) % 2 = (id \div 4) % 2
      /\ (low \div 32) % 2 = (id \div 8) % 2
      /\ (low \div 64) % 2 = (id \div 16) % 2
      /\ (low \div 128) % 2 = (id \div 32) % 2
      /\ high % 2 = (id \div 64) % 2
      /\ (high \div 2) % 2 = (id \div 128) % 2
  <2>1. DigitsOf(low, high, id, log2)
    BY HeadDigits
  <2> HIDE DEF low, high
  <2> QED
    BY <2>1, Zenon DEF DigitsOf
<1>3. \A i \in 0..7 : /\ i \in rest <=> i \in Bits(low)
                      /\ 8 + i \in rest <=> i \in Bits(high)
  <2> HIDE DEF low, high
  <2>1. DOMAIN bytes = 1..4 /\ bytes[1] = low /\ bytes[2] = high
    OBVIOUS
  <2> HIDE DEF bytes
  <2>2. ASSUME NEW i \in 0..7
        PROVE  /\ 8 * (1 - 1) + i \in Read(bytes) <=> i \in Bits(bytes[1])
               /\ 8 * (2 - 1) + i \in Read(bytes) <=> i \in Bits(bytes[2])
    BY <2>1, ReadBit
  <2> QED
    BY <1>1, <2>1, <2>2
<1> HIDE DEF low, high
<1>9. /\ 0 \in Bits(low) <=> low % 2 = 1
      /\ 1 \in Bits(low) <=> (low \div 2) % 2 = 1
      /\ 2 \in Bits(low) <=> (low \div 4) % 2 = 1
      /\ 3 \in Bits(low) <=> (low \div 8) % 2 = 1
      /\ 4 \in Bits(low) <=> (low \div 16) % 2 = 1
      /\ 5 \in Bits(low) <=> (low \div 32) % 2 = 1
      /\ 6 \in Bits(low) <=> (low \div 64) % 2 = 1
      /\ 7 \in Bits(low) <=> (low \div 128) % 2 = 1
  BY <1>2, BitsOfByte
<1>10. /\ 0 \in Bits(high) <=> high % 2 = 1
       /\ 1 \in Bits(high) <=> (high \div 2) % 2 = 1
  <2>1. high \in 0..255
    BY <1>2
  <2> QED
    BY <2>1, BitsOfByte
<1>4. Number(rest \intersect {0, 1}) = log2
  <2>1. /\ 0 \in rest <=> log2 % 2 = 1
        /\ 1 \in rest <=> (log2 \div 2) % 2 = 1
    BY <1>2, <1>3, <1>9
  <2>2. rest \intersect {0, 1} \in SUBSET (0..7)
    OBVIOUS
  <2>3. ByteValue(rest \intersect {0, 1})
            = (log2 % 2) + 2 * ((log2 \div 2) % 2)
    BY <2>1 DEF ByteValue, Bit
  <2> QED
    BY <2>2, <2>3, NumberOfByte
<1>5. Number(number) = id
  <2>1. number \in SUBSET (0..7)
        /\ \A j \in 0..7 : j \in number <=> j + 2 \in rest
    OBVIOUS
  <2> HIDE DEF number
  <2>2. /\ 2 \in rest <=> id % 2 = 1
        /\ 3 \in rest <=> (id \div 2) % 2 = 1
        /\ 4 \in rest <=> (id \div 4) % 2 = 1
        /\ 5 \in rest <=> (id \div 8) % 2 = 1
        /\ 6 \in rest <=> (id \div 16) % 2 = 1
        /\ 7 \in rest <=> (id \div 32) % 2 = 1
        /\ 8 \in rest <=> (id \div 64) % 2 = 1
        /\ 9 \in rest <=> (id \div 128) % 2 = 1
    <3>1. /\ 8 \in rest <=> 0 \in Bits(high)
          /\ 9 \in rest <=> 1 \in Bits(high)
      BY <1>3
    <3>2. \A i \in 2..7 : i \in rest <=> i \in Bits(low)
      BY <1>3
    <3> QED
      BY <1>2, <1>9, <1>10, <3>1, <3>2
  <2>3. /\ 0 \in number <=> id % 2 = 1
        /\ 1 \in number <=> (id \div 2) % 2 = 1
        /\ 2 \in number <=> (id \div 4) % 2 = 1
        /\ 3 \in number <=> (id \div 8) % 2 = 1
        /\ 4 \in number <=> (id \div 16) % 2 = 1
        /\ 5 \in number <=> (id \div 32) % 2 = 1
        /\ 6 \in number <=> (id \div 64) % 2 = 1
        /\ 7 \in number <=> (id \div 128) % 2 = 1
    BY <2>1, <2>2
  <2>4. \A n \in Int : n % 2 = 1 \/ n % 2 = 0
    OBVIOUS
  <2>5. ByteValue(number) = (id % 2) + 2 * ((id \div 2) % 2)
            + 4 * ((id \div 4) % 2) + 8 * ((id \div 8) % 2)
            + 16 * ((id \div 16) % 2) + 32 * ((id \div 32) % 2)
            + 64 * ((id \div 64) % 2) + 128 * ((id \div 128) % 2)
    BY <2>3, <2>4 DEF ByteValue, Bit
  <2> QED
    BY <2>1, <2>5, BinaryDigits, NumberOfByte
<1> QED
  BY <1>4, <1>5 DEF prop_decoder__to_prop_metadata

-----------------------------------------------------------------------------
(* What the driver encodes.                                                *)

Bytes == 0..255

(* Strings of bytes.                                                       *)
LEMMA ByteStrings ==
    /\ <<>> \in Seq(Bytes)
    /\ \A s, t \in Seq(Bytes) : s \o t \in Seq(Bytes)
    /\ \A s \in Seq(Bytes) : s \o <<>> = s /\ <<>> \o s = s
<1>1. <<>> \in Seq(Bytes)
  OBVIOUS
<1>2. ASSUME NEW s \in Seq(Bytes), NEW t \in Seq(Bytes)
      PROVE s \o t \in Seq(Bytes)
  BY ConcatProperties
<1>3. ASSUME NEW s \in Seq(Bytes) PROVE s \o <<>> = s /\ <<>> \o s = s
  BY ConcatEmptySeq
<1> QED
  BY <1>1, <1>2, <1>3

(* Appending is associative.                                               *)
LEMMA AppendByParts ==
    ASSUME NEW s \in Seq(Bytes), NEW t \in Seq(Bytes), NEW u \in Seq(Bytes)
    PROVE  (s \o t) \o u = s \o (t \o u)
  BY ConcatAssociative

(* A common beginning cancels.                                             *)
LEMMA CancelPrefix ==
    ASSUME NEW s \in Seq(Bytes), NEW t \in Seq(Bytes), NEW u \in Seq(Bytes),
           s \o t = s \o u
    PROVE  t = u
  BY ConcatSimplifications

(* The parts of a property.                                                *)
LEMMA PropertyTyped ==
    ASSUME NEW p \in Property
    PROVE  /\ p.id \in 0..255 /\ p.bytes \in Seq(Bytes)
           /\ Len(p.bytes) \in {1, 2, 4, 8}
  BY DEF Property, Bytes

(* An encoded property is a head of four bytes and the property's bytes.   *)
LEMMA Encoded ==
    ASSUME NEW p \in Property
    PROVE  \E head \in Seq(Bytes) :
               /\ Len(head) = 4
               /\ Encode(p) = head \o p.bytes
               /\ prop_decoder__to_prop_metadata(Read(head)) =
                      [size |-> Len(p.bytes), id |-> p.id]
<1> DEFINE id == p.id
           log2 == CHOOSE n \in 0..3 : 2^n = Len(p.bytes)
           size == 2^log2
           low == HeadByte1(id, log2)
           high == HeadByte2(id, log2)
           head == <<low, high, 0, 0>>
           bits == Read(head)
<1>1. id \in 0..255 /\ Len(p.bytes) \in {1, 2, 4, 8}
  BY PropertyTyped
<1>2. \E n \in 0..3 : 2^n = Len(p.bytes)
  BY <1>1, TwoPowers
<1>3. log2 \in 0..3 /\ size = Len(p.bytes)
  BY <1>2
<1>4. Encode(p) = head \o p.bytes
  BY DEF Encode, HeadByte1, HeadByte2
<1>5. log2 \in 0..3
  BY <1>3
<1>6. size = Len(p.bytes)
  BY <1>3
<1> HIDE DEF id, log2
<1>7. prop_decoder__to_prop_metadata(bits) = [size |-> size, id |-> id]
  <2>1. bits = Read(Head4(id, log2))
    BY Zenon DEF Head4
  <2> HIDE DEF bits
  <2> QED
    BY <1>1, <1>5, <2>1, HeadDecoded, Zenon
<1>8. low \in 0..255 /\ high \in 0..3
  BY <1>1, <1>5, HeadDigits DEF DigitsOf
<1> HIDE DEF size, low, high
<1>9. head \in Seq(Bytes) /\ Len(head) = 4
  BY <1>8 DEF Bytes
<1> HIDE DEF head
<1> QED
  BY <1>4, <1>6, <1>7, <1>9 DEF bits, id

(* An encoded property is a string of bytes, and not the empty one.        *)
LEMMA EncodedTyped ==
    ASSUME NEW p \in Property
    PROVE  /\ Encode(p) \in Seq(Bytes)
           /\ \A rest \in Seq(Bytes) : Encode(p) \o rest # <<>>
<1> DEFINE bytes == p.bytes
<1>1. bytes \in Seq(Bytes)
  BY PropertyTyped
<1>2. PICK head \in Seq(Bytes) : Len(head) = 4 /\ Encode(p) = head \o bytes
  BY Encoded
<1> HIDE DEF bytes
<1>3. Encode(p) \in Seq(Bytes)
  BY <1>1, <1>2, ByteStrings
<1>4. ASSUME NEW rest \in Seq(Bytes) PROVE Encode(p) \o rest # <<>>
  <2>1. Len(head \o bytes) = Len(head) + Len(bytes) /\ Len(bytes) \in Nat
    BY <1>1
  <2>2. Len(Encode(p)) \in Nat /\ Len(Encode(p)) # 0
    BY <1>2, <2>1
  <2>3. /\ Len(Encode(p) \o rest) = Len(Encode(p)) + Len(rest)
        /\ Len(rest) \in Nat
    BY <1>3
  <2> QED
    BY <2>2, <2>3
<1> QED
  BY <1>3, <1>4

(* A buffer that is not cut can be consumed property by property: what is  *)
(* left after the first k begins with the next one.                        *)
LEMMA BufferByParts ==
    ASSUME NEW d \in Devices, d.cut = 0
    PROVE  \E R \in [0..Len(d.props) -> Seq(Bytes)] :
               /\ R[0] = Buffer(d)
               /\ \A k \in 1..Len(d.props) :
                     R[k - 1] = Encode(d.props[k]) \o R[k]
               /\ R[Len(d.props)] = <<>>
<1> DEFINE n == Len(d.props)
           parts == [k \in DOMAIN d.props |-> Encode(d.props[k])]
           whole == FlattenSeq(parts)
<1>1. n \in Nat /\ DOMAIN d.props = 1..n
      /\ \A k \in 1..n : d.props[k] \in Property
  BY DeviceAssumption
<1>2. \A k \in 1..n : Encode(d.props[k]) \in Seq(Bytes)
  BY <1>1, EncodedTyped
<1>3. parts \in Seq(Seq(Bytes)) /\ Len(parts) = n
      /\ \A k \in 1..n : parts[k] = Encode(d.props[k])
  BY <1>1, <1>2
<1> HIDE DEF n, parts
<1>4. PICK P \in [0..n -> Seq(Bytes)] :
          /\ P[0] = <<>>
          /\ \A k \in 1..n : P[k] = P[k - 1] \o parts[k]
          /\ P[n] = whole
  BY <1>3, FlattenedByParts
<1> HIDE DEF whole
<1>5. \A k \in 0..n : \E t \in Seq(Bytes) : P[k] \o t = whole
  <2> DEFINE Starts == {m \in 0..n :
                              \E t \in Seq(Bytes) : P[n - m] \o t = whole}
  <2>1. 0 \in Starts
    <3>1. P[n - 0] \in Seq(Bytes) /\ P[n - 0] = whole /\ 0 \in 0..n
      BY <1>1, <1>4
    <3>2. P[n - 0] \o <<>> = whole /\ <<>> \in Seq(Bytes)
      BY <3>1, ByteStrings
    <3> QED
      BY <3>1, <3>2
  <2>2. ASSUME NEW m \in Starts, m < n PROVE m + 1 \in Starts
    <3> DEFINE k == n - m
    <3>1. k \in 1..n /\ k - 1 = n - (m + 1) /\ m + 1 \in 0..n
      BY <1>1, <2>2
    <3>2. PICK t \in Seq(Bytes) : P[k] \o t = whole
      OBVIOUS
    <3> HIDE DEF k
    <3> HIDE DEF Starts
    <3>3. P[k - 1] \in Seq(Bytes) /\ parts[k] \in Seq(Bytes)
      <4>1. k - 1 \in 0..n
        BY <1>1, <3>1
      <4> QED
        BY <1>2, <1>3, <1>4, <3>1, <4>1
    <3>4. P[k - 1] \o (parts[k] \o t) = whole
      <4>1. P[k] = P[k - 1] \o parts[k]
        BY <1>4, <3>1
      <4>2. (P[k - 1] \o parts[k]) \o t = P[k - 1] \o (parts[k] \o t)
        BY <3>3, AppendByParts
      <4> QED
        BY <3>2, <4>1, <4>2
    <3>5. parts[k] \o t \in Seq(Bytes)
      BY <3>3, ByteStrings
    <3> QED
      BY <3>1, <3>4, <3>5 DEF Starts
  <2> HIDE DEF Starts
  <2>3. Starts = 0..n
    <3>1. Starts \in SUBSET (0..n)
      BY DEF Starts
    <3> QED
      BY <1>1, <2>1, <2>2, <3>1, SetInduction
  <2>4. ASSUME NEW k \in 0..n PROVE \E t \in Seq(Bytes) : P[k] \o t = whole
    <3>1. n - k \in Starts /\ n - (n - k) = k
      BY <1>1, <2>3
    <3> QED
      BY <3>1 DEF Starts
  <2> QED
    BY <2>4
<1> DEFINE R == [k \in 0..n |-> CHOOSE t \in Seq(Bytes) : P[k] \o t = whole]
<1>6. \A k \in 0..n : R[k] \in Seq(Bytes) /\ P[k] \o R[k] = whole
  BY <1>5
<1>7. R \in [0..n -> Seq(Bytes)]
  BY <1>6
<1> HIDE DEF R
<1>8. R[0] = Buffer(d)
  <2>1. R[0] \in Seq(Bytes) /\ <<>> \o R[0] = whole
    <3>1. 0 \in 0..n
      BY <1>1
    <3> QED
      BY <1>4, <1>6, <3>1
  <2>2. R[0] = whole /\ whole \in Seq(Bytes)
    BY <2>1, ByteStrings
  <2>3. SubSeq(whole, 1, Len(whole)) = whole
    BY <2>2, SubSeqFull
  <2>4. Len(whole) - d.cut = Len(whole)
    BY <2>2
  <2> QED
    BY <2>2, <2>3, <2>4 DEF Buffer, whole, parts
<1>9. ASSUME NEW k \in 1..n PROVE R[k - 1] = Encode(d.props[k]) \o R[k]
  <2>1. k \in 0..n /\ k - 1 \in 0..n
    BY <1>1
  <2>2. /\ P[k - 1] \in Seq(Bytes) /\ R[k] \in Seq(Bytes)
        /\ R[k - 1] \in Seq(Bytes)
        /\ parts[k] \in Seq(Bytes) /\ parts[k] = Encode(d.props[k])
    BY <1>2, <1>3, <1>4, <1>7, <2>1
  <2>3. P[k - 1] \o R[k - 1] = P[k - 1] \o (parts[k] \o R[k])
    <3>1. (P[k - 1] \o parts[k]) \o R[k] = P[k - 1] \o (parts[k] \o R[k])
      <4> DEFINE a == P[k - 1]   b == parts[k]   c == R[k]
      <4>1. a \in Seq(Bytes) /\ b \in Seq(Bytes) /\ c \in Seq(Bytes)
        BY <2>2
      <4> HIDE DEF a, b, c
      <4>2. (a \o b) \o c = a \o (b \o c)
        BY <4>1, AppendByParts
      <4> QED
        BY <4>2 DEF a, b, c
    <3> QED
      BY <1>4, <1>6, <2>1, <3>1
  <2>4. parts[k] \o R[k] \in Seq(Bytes)
    BY <2>2, ByteStrings
  <2>5. R[k - 1] = parts[k] \o R[k]
    BY <2>2, <2>3, <2>4, CancelPrefix
  <2> QED
    BY <2>2, <2>5
<1>10. R[n] = <<>>
  <2>1. n \in 0..n /\ R[n] \in Seq(Bytes)
        /\ P[n] \in Seq(Bytes) /\ P[n] \o R[n] = P[n]
    BY <1>1, <1>4, <1>6
  <2> QED
    BY <2>1, ByteStrings
<1> QED
  BY <1>7, <1>8, <1>9, <1>10 DEF n

-----------------------------------------------------------------------------
(* Splitting a string where two were joined.                               *)
LEMMA SplitString ==
    ASSUME NEW s \in Seq(Bytes), NEW t \in Seq(Bytes)
    PROVE  /\ SubSeq(s \o t, 1, Len(s)) = s
           /\ SubSeq(s \o t, Len(s) + 1, Len(s \o t)) = t
           /\ Len(s \o t) = Len(s) + Len(t)
<1>1. /\ Len(s \o t) = Len(s) + Len(t) /\ Len(s) \in Nat /\ Len(t) \in Nat
      /\ \A i \in 1..Len(s) : (s \o t)[i] = s[i] /\ s[i] \in Bytes
      /\ \A i \in 1..Len(t) : (s \o t)[Len(s) + i] = t[i] /\ t[i] \in Bytes
  OBVIOUS
<1> DEFINE st == s \o t
<1> HIDE DEF st
<1>2. SubSeq(st, 1, Len(s)) = s
  <2>1. \A i \in 1..Len(s) : st[i] \in Bytes
    BY <1>1 DEF st
  <2>2. /\ SubSeq(st, 1, Len(s)) \in Seq(Bytes)
        /\ Len(SubSeq(st, 1, Len(s))) =
                IF 1 <= Len(s) THEN Len(s) - 1 + 1 ELSE 0
        /\ \A i \in 1..(Len(s) - 1 + 1) :
                SubSeq(st, 1, Len(s))[i] = st[1 + i - 1]
    BY <1>1, <2>1, SubSeqProperties
  <2>3. \A i \in 1..Len(s) : SubSeq(st, 1, Len(s))[i] = s[i]
    BY <1>1, <2>2 DEF st
  <2>4. Len(SubSeq(st, 1, Len(s))) = Len(s)
    BY <1>1, <2>2
  <2> QED
    BY <2>2, <2>3, <2>4, SeqEqual
<1>3. SubSeq(st, Len(s) + 1, Len(st)) = t
  <2> DEFINE m == Len(s) + 1
             n == Len(s) + Len(t)
  <2>1. \A i \in m..n : st[i] \in Bytes
    <3> SUFFICES ASSUME NEW i \in m..n PROVE st[i] \in Bytes
      OBVIOUS
    <3>1. i - Len(s) \in 1..Len(t) /\ Len(s) + (i - Len(s)) = i
      BY <1>1
    <3> QED
      BY <1>1, <3>1 DEF st
  <2>2. m \in Int /\ n \in Int /\ n - m + 1 = Len(t) /\ Len(st) = n
    BY <1>1 DEF st
  <2> HIDE DEF m, n
  <2>3. /\ SubSeq(st, m, n) \in Seq(Bytes)
        /\ Len(SubSeq(st, m, n)) = IF m <= n THEN n - m + 1 ELSE 0
        /\ \A i \in 1..(n - m + 1) : SubSeq(st, m, n)[i] = st[m + i - 1]
    BY <2>1, <2>2, SubSeqProperties
  <2>4. Len(SubSeq(st, m, n)) = Len(t)
    BY <1>1, <2>2, <2>3 DEF m, n
  <2>5. \A i \in 1..Len(t) : SubSeq(st, m, n)[i] = t[i]
    <3> SUFFICES ASSUME NEW i \in 1..Len(t) PROVE SubSeq(st, m, n)[i] = t[i]
      OBVIOUS
    <3>1. m + i - 1 = Len(s) + i
      BY <1>1 DEF m
    <3>2. SubSeq(st, m, n)[i] = st[Len(s) + i]
      BY <2>2, <2>3, <3>1
    <3> QED
      BY <1>1, <3>2 DEF st
  <2>6. SubSeq(st, m, n) = t
    BY <2>3, <2>4, <2>5, SeqEqual
  <2> QED
    BY <2>2, <2>6 DEF m
<1> QED
  BY <1>1, <1>2, <1>3 DEF st

(* Up to eight bytes are a number of 64 bits.                              *)
LEMMA ReadIn64 ==
    ASSUME NEW bytes \in Seq(Bytes), Len(bytes) <= 8
    PROVE  Read(bytes) \subseteq 0..63
<1>1. DOMAIN bytes = 1..Len(bytes) /\ Len(bytes) \in Nat
  OBVIOUS
<1>2. \A b : Bits(b) \subseteq 0..7
  BY Zenon DEF Bits
<1>3. ASSUME NEW k \in 1..Len(bytes), NEW i \in 0..7
      PROVE  8 * (k - 1) + i \in 0..63
  BY <1>1
<1>4. ASSUME NEW k \in DOMAIN bytes, NEW i \in Bits(bytes[k])
      PROVE  8 * (k - 1) + i \in 0..63
  <2>1. k \in 1..Len(bytes) /\ i \in 0..7
    BY <1>1, <1>2
  <2> QED
    BY <1>3, <2>1
<1> QED
  <2> SUFFICES ASSUME NEW b \in Read(bytes) PROVE b \in 0..63
    OBVIOUS
  <2>1. \E k \in DOMAIN bytes : \E i \in Bits(bytes[k]) : b = 8 * (k - 1) + i
    BY Zenon DEF Read
  <2> QED
    BY <1>4, <2>1

(* A decoded value has at least the bits reported, and no others if they   *)
(* are 32 or more.                                                         *)
Faithful(value, bytes) ==
    /\ Read(bytes) \subseteq value /\ value \subseteq 0..63
    /\ Len(bytes) >= 4 => value = Read(bytes)

(* R[k]: what is left of the buffer of d after k properties.               *)
IsRemainders(R, d) ==
    /\ R \in [0..Len(d.props) -> Seq(Bytes)]
    /\ R[0] = Buffer(d)
    /\ \A k \in 1..Len(d.props) : R[k - 1] = Encode(d.props[k]) \o R[k]
    /\ R[Len(d.props)] = <<>>

Remainders(d) == CHOOSE R : IsRemainders(R, d)

(* The table holds the first k properties, of a number that is reported    *)
(* more than once the last value.                                          *)
IsDecoded(table, props, k) ==
    /\ \A id \in DOMAIN table : \E j \in 1..k : props[j].id = id
    /\ \A j \in 1..k :
          /\ props[j].id \in DOMAIN table
          /\ (\A m \in (j + 1)..k : props[m].id # props[j].id)
                => Faithful(table[props[j].id], props[j].bytes)

(* One step of the decoder consumes exactly the property at the front of   *)
(* the buffer, and enters its value under its number.                      *)
LEMMA PropertyDecoded ==
    ASSUME NEW p \in Property, NEW rest \in Seq(Bytes), stage = "decode",
           data = Encode(p) \o rest, prop_decoder__next
    PROVE  /\ data' = rest
           /\ \E value : /\ Faithful(value, p.bytes)
                         /\ decoded' = With(decoded, p.id, value)
<1> DEFINE bytes == p.bytes
           id == p.id
           meta == prop_decoder__to_prop_metadata(Read(SubSeq(data, 1, 4)))
           body == SubSeq(data, 5, Len(data))
           value == Read(SubSeq(body, 1, meta.size))
<1>1. id \in 0..255 /\ bytes \in Seq(Bytes) /\ Len(bytes) \in {1, 2, 4, 8}
  BY PropertyTyped
<1>2. Read(bytes) \subseteq 0..63
  <2> HIDE DEF bytes
  <2>1. \A n \in {1, 2, 4, 8} : n <= 8
    OBVIOUS
  <2>2. Len(bytes) <= 8
    BY <1>1, <2>1
  <2> QED
    BY <1>1, <2>2, ReadIn64
<1>3. PICK head \in Seq(Bytes) :
          /\ Len(head) = 4
          /\ Encode(p) = head \o bytes
          /\ prop_decoder__to_prop_metadata(Read(head)) =
                 [size |-> Len(bytes), id |-> id]
  BY Encoded
<1> HIDE DEF bytes, id
<1>4. bytes \o rest \in Seq(Bytes) /\ data = head \o (bytes \o rest)
  <2>1. bytes \o rest \in Seq(Bytes)
    BY <1>1, ByteStrings
  <2>2. (head \o bytes) \o rest = head \o (bytes \o rest)
    <3>1. \A a, b, c \in Seq(Bytes) : (a \o b) \o c = a \o (b \o c)
      BY AppendByParts
    <3> QED
      BY <1>1, <1>3, <3>1, Zenon
  <2> QED
    BY <1>3, <2>1, <2>2
<1>5. SubSeq(data, 1, 4) = head /\ body = bytes \o rest
  <2>1. /\ SubSeq(head \o (bytes \o rest), 1, Len(head)) = head
        /\ SubSeq(head \o (bytes \o rest), Len(head) + 1,
                  Len(head \o (bytes \o rest))) = bytes \o rest
    BY <1>3, <1>4, SplitString
  <2>2. Len(head) = 4 /\ Len(head) + 1 = 5
    BY <1>3
  <2> QED
    BY <1>4, <2>1, <2>2
<1>6. meta = [size |-> Len(bytes), id |-> id]
  BY <1>3, <1>5
<1> HIDE DEF body
<1>7. meta.size = Len(bytes) /\ meta.id = id
  BY <1>6
<1>8. Len(bytes) \in Nat /\ Len(rest) \in Nat
  OBVIOUS
<1>9. /\ Len(body) = Len(bytes) + Len(rest)
      /\ SubSeq(body, 1, Len(bytes)) = bytes
      /\ SubSeq(body, Len(bytes) + 1, Len(body)) = rest
  BY <1>1, <1>5, SplitString
<1>10. Len(body) >= meta.size /\ ~(Len(body) < meta.size)
  BY <1>7, <1>8, <1>9
<1>11. value = Read(bytes)
  BY <1>7, <1>9
<1>12. PICK garbage \in IF meta.size <= 2
                        THEN {u \intersect 0..(8 * meta.size - 1) :
                                  u \in Uninitialized}
                        ELSE {{}} :
           /\ data' = SubSeq(body, meta.size + 1, Len(body))
           /\ decoded' = With(decoded, meta.id, value \union garbage)
  BY <1>10, Zenon DEF prop_decoder__next, body
<1>13. data' = rest
  BY <1>7, <1>9, <1>12
<1>14. garbage \subseteq 0..63 /\ (Len(bytes) >= 4 => garbage = {})
  <2> HIDE DEF meta
  <2>1. CASE meta.size <= 2
    <3>1. PICK u \in Uninitialized :
              garbage = u \intersect 0..(8 * meta.size - 1)
      BY <1>12, <2>1
    <3>2. u \subseteq 0..63
      BY DeviceAssumption
    <3>3. ~(Len(bytes) >= 4)
      BY <1>7, <1>8, <2>1
    <3> QED
      BY <3>1, <3>2, <3>3
  <2>2. CASE ~(meta.size <= 2)
    BY <1>12, <2>2
  <2> QED
    BY <2>1, <2>2
<1> HIDE DEF meta, value
<1>15. Faithful(value \union garbage, bytes)
  BY <1>2, <1>11, <1>14 DEF Faithful
<1>16. decoded' = With(decoded, id, value \union garbage)
  BY <1>7, <1>12
<1> QED
  BY <1>13, <1>15, <1>16 DEF bytes, id

(* Entering the next property's value.                                     *)
LEMMA OneMoreDecoded ==
    ASSUME NEW props, NEW table, NEW k \in Nat, IsDecoded(table, props, k),
           NEW value, Faithful(value, props[k + 1].bytes)
    PROVE  IsDecoded(With(table, props[k + 1].id, value), props, k + 1)
<1> DEFINE id == props[k + 1].id
           new == With(table, id, value)
<1>1. /\ DOMAIN new = DOMAIN table \union {id}
      /\ new[id] = value
      /\ \A i \in DOMAIN table : i # id => new[i] = table[i]
  BY DEF With
<1>2. 1..(k + 1) = 1..k \union {k + 1}
  OBVIOUS
<1> HIDE DEF new
<1>3. ASSUME NEW i \in DOMAIN new PROVE \E j \in 1..(k + 1) : props[j].id = i
  <2>1. CASE i = id
    BY <1>2, <2>1
  <2>2. CASE i \in DOMAIN table
    BY <1>2, <2>2 DEF IsDecoded
  <2> QED
    BY <1>1, <2>1, <2>2
<1>4. ASSUME NEW j \in 1..(k + 1)
      PROVE  /\ props[j].id \in DOMAIN new
             /\ (\A m \in (j + 1)..(k + 1) : props[m].id # props[j].id)
                   => Faithful(new[props[j].id], props[j].bytes)
  <2>1. CASE j = k + 1
    BY <1>1, <2>1
  <2>2. CASE j \in 1..k
    <3>1. props[j].id \in DOMAIN table
      BY <2>2 DEF IsDecoded
    <3>2. ASSUME \A m \in (j + 1)..(k + 1) : props[m].id # props[j].id
          PROVE  Faithful(new[props[j].id], props[j].bytes)
      <4>1. k + 1 \in (j + 1)..(k + 1) /\ (j + 1)..k \subseteq (j + 1)..(k + 1)
        BY <2>2
      <4>2. props[j].id # id
        BY <3>2, <4>1
      <4>3. Faithful(table[props[j].id], props[j].bytes)
        BY <2>2, <3>2, <4>1 DEF IsDecoded
      <4> QED
        BY <1>1, <3>1, <4>2, <4>3
    <3> QED
      BY <1>1, <3>1, <3>2
  <2> QED
    BY <1>2, <2>1, <2>2
<1> QED
  BY <1>3, <1>4 DEF IsDecoded, new

(* With every property entered, the table says what the device reports.    *)
LEMMA AllDecoded ==
    ASSUME NEW d, d.props \in Seq(Property), NEW table,
           IsDecoded(table, d.props, Len(d.props)), NEW id
    PROVE  /\ id \in DOMAIN table <=>
                 \E k \in DOMAIN d.props : d.props[k].id = id
           /\ id \notin DOMAIN table => ReportedBy(d, id) = {}
           /\ id \in DOMAIN table =>
                /\ ReportedBy(d, id) \subseteq table[id]
                /\ ReportedWide(d, id) => table[id] = ReportedBy(d, id)
<1> DEFINE n == Len(d.props)
           own == {k \in DOMAIN d.props : d.props[k].id = id}
<1>1. n \in Nat /\ DOMAIN d.props = 1..n
  OBVIOUS
<1>2. id \in DOMAIN table <=> own # {}
  BY <1>1, Zenon DEF IsDecoded
<1>3. CASE own = {}
  BY <1>2, <1>3 DEF ReportedBy
<1>4. CASE own # {}
  <2>1. PICK last \in own : \A k \in own : last >= k
    <3>1. own \subseteq 1..n /\ own # {}
      BY <1>1, <1>4
    <3> HIDE DEF own, n
    <3>2. \A k \in own : n - k \in Nat
      BY <1>1, <3>1
    <3>3. {n - k : k \in own} \in SUBSET Nat /\ {n - k : k \in own} # {}
      BY <3>1, <3>2
    <3>4. PICK m \in {n - k : k \in own} :
              \A l \in {n - k : k \in own} : m <= l
      BY <3>3, LeastNatural
    <3>5. PICK k \in own : m = n - k
      OBVIOUS
    <3>6. \A l \in own : n - k <= n - l
      BY <3>4, <3>5
    <3>7. \A l \in own : k >= l
      BY <1>1, <3>1, <3>6
    <3> QED
      BY <3>7
  <2> DEFINE max == Max(own)
  <2>2. max \in own /\ \A k \in own : max >= k
    <3> HIDE DEF own
    <3> QED
      BY <2>1 DEF Max
  <2>3. ReportedBy(d, id) = Read(d.props[max].bytes)
    BY <1>4 DEF ReportedBy
  <2> HIDE DEF max
  <2>4. max \in 1..n /\ d.props[max].id = id
    BY <1>1, <2>2
  <2>5. \A m \in (max + 1)..n : d.props[m].id # d.props[max].id
    <3> SUFFICES ASSUME NEW m \in (max + 1)..n, m \in own PROVE FALSE
      BY <1>1, <2>4
    <3> QED
      BY <1>1, <2>2, <2>4
  <2>6. Faithful(table[id], d.props[max].bytes)
    BY <2>4, <2>5 DEF IsDecoded
  <2>7. ReportedBy(d, id) \subseteq table[id]
    BY <2>3, <2>6 DEF Faithful
  <2>8. ASSUME ReportedWide(d, id) PROVE table[id] = ReportedBy(d, id)
    <3>1. Len(d.props[max].bytes) >= 4
      BY <1>1, <2>4, <2>8 DEF ReportedWide
    <3> QED
      BY <2>3, <2>6, <3>1 DEF Faithful
  <2>9. own # {}
    BY <1>4
  <2> HIDE DEF own
  <2> QED
    BY <1>2, <2>7, <2>8, <2>9 DEF own
<1> QED
  BY <1>3, <1>4

(* The remainders of a buffer are defined.                                 *)
LEMMA RemaindersExist ==
    ASSUME NEW d \in Devices, d.cut = 0
    PROVE  IsRemainders(Remainders(d), d)
  BY BufferByParts DEF IsRemainders, Remainders

(* While a complete buffer is decoded, what is consumed and what is in the *)
(* table are the same properties.                                          *)
DecodeInv ==
    /\ device \in Devices
    /\ (stage = "decode" /\ device.cut = 0) =>
          \E k \in 0..Len(device.props) :
             /\ data = Remainders(device)[k]
             /\ IsDecoded(decoded, device.props, k)

(* Decoding a property keeps the invariant of the decoder.                 *)
LEMMA DecodeStep == DecodeInv /\ prop_decoder__next => DecodeInv'
<1> SUFFICES ASSUME DecodeInv, prop_decoder__next PROVE DecodeInv'
  OBVIOUS
<1>1. device \in Devices /\ device' = device
      /\ stage = "decode" /\ Len(data) >= 4
  BY DEF DecodeInv, prop_decoder__next
<1> SUFFICES ASSUME device.cut = 0
             PROVE  \E k \in 0..Len(device.props) :
                       /\ data' = Remainders(device)[k]
                       /\ IsDecoded(decoded', device.props, k)
  BY <1>1 DEF DecodeInv
<1> DEFINE n == Len(device.props)
           R == Remainders(device)
<1>2. n \in Nat /\ \A k \in 1..n : device.props[k] \in Property
  BY <1>1, DeviceAssumption
<1>3. IsRemainders(R, device)
  BY <1>1, RemaindersExist
<1>4. PICK k \in 0..n : data = R[k] /\ IsDecoded(decoded, device.props, k)
  BY <1>1 DEF DecodeInv
<1> HIDE DEF R, n
<1>5. k < n
  <2> SUFFICES ASSUME k = n PROVE FALSE
    BY <1>2, <1>4
  <2>1. data = <<>>
    BY <1>3, <1>4 DEF IsRemainders, n
  <2> QED
    BY <1>1, <2>1
<1>6. k \in Nat /\ k + 1 \in 1..n /\ (k + 1) - 1 = k /\ k + 1 \in 0..n
  BY <1>2, <1>5
<1> DEFINE p == device.props[k + 1]
<1>7. p \in Property /\ R[k + 1] \in Seq(Bytes) /\ data = Encode(p) \o R[k + 1]
  <2>1. R[(k + 1) - 1] = Encode(p) \o R[k + 1]
    BY <1>3, <1>6 DEF IsRemainders, n
  <2>2. R \in [0..n -> Seq(Bytes)]
    BY <1>3 DEF IsRemainders, n
  <2> QED
    BY <1>2, <1>4, <1>6, <2>1, <2>2
<1> HIDE DEF p
<1>8. PICK value : /\ data' = R[k + 1]
                   /\ Faithful(value, p.bytes)
                   /\ decoded' = With(decoded, p.id, value)
  BY <1>1, <1>7, PropertyDecoded
<1>9. IsDecoded(decoded', device.props, k + 1)
  BY <1>4, <1>6, <1>8, OneMoreDecoded DEF p
<1> QED
  BY <1>6, <1>8, <1>9 DEF R, n

(* Every step of opening a device keeps it.                                *)
LEMMA DecodeInvStep ==
    DecodeInv /\ (InstanceNext \/ SecondPass \/ UNCHANGED instanceVars)
        => DecodeInv'
<1> SUFFICES ASSUME DecodeInv,
                    InstanceNext \/ SecondPass \/ UNCHANGED instanceVars
             PROVE  DecodeInv'
  OBVIOUS
<1>1. CASE instance__props_post_r21
  <2>1. device' = device /\ device \in Devices
    BY <1>1 DEF instance__props_post_r21, DecodeInv
  <2>2. ASSUME stage' = "decode", device.cut = 0
        PROVE  \E k \in 0..Len(device.props) :
                       /\ data' = Remainders(device)[k]
                       /\ IsDecoded(decoded', device.props, k)
    <3>1. data' = Buffer(device) /\ decoded' = <<>>
      BY <1>1, <2>2 DEF instance__props_post_r21
    <3>2. Remainders(device)[0] = Buffer(device)
      BY <2>1, <2>2, RemaindersExist DEF IsRemainders
    <3>3. IsDecoded(<<>>, device.props, 0)
      BY DEF IsDecoded
    <3>4. 0 \in 0..Len(device.props)
      BY <2>1, DeviceAssumption
    <3> QED
      BY <3>1, <3>2, <3>3, <3>4
  <2> QED
    BY <2>1, <2>2 DEF DecodeInv
<1>2. CASE prop_decoder__next
  BY <1>2, DecodeStep
<1>3. CASE handle__create
  BY <1>3 DEF handle__create, DecodeInv
<1>4. CASE instance__version_check
  BY <1>4 DEF instance__version_check, DecodeInv
<1>5. CASE instance__set_flags
  BY <1>5 DEF instance__set_flags, DecodeInv
<1>6. CASE DeriveConstants
  <2>1. device' = device /\ stage' = "decoded"
    BY <1>6, Zenon DEF DeriveConstants
  <2> QED
    BY <2>1 DEF DecodeInv
<1>7. CASE SecondPass
  BY <1>7 DEF SecondPass, DecodeInv
<1>8. CASE UNCHANGED instanceVars
  BY <1>8 DEF instanceVars, DecodeInv
<1> QED
  BY <1>1, <1>2, <1>3, <1>4, <1>5, <1>6, <1>7, <1>8 DEF InstanceNext

(* The device counts its core groups in 32 or 64 bits, and reports a mask, *)
(* as wide, for each of them, which are not more than the interface has    *)
(* property numbers for.                                                   *)
WellReported(d) ==
    /\ ReportedWide(d, coherency_num_core_groups)
    /\ \A i \in 0..(Number(ReportedBy(d, coherency_num_core_groups)) - 1) :
          /\ i < 16
          /\ \E k \in DOMAIN d.props : d.props[k].id = coherency_group(i)
          /\ ReportedWide(d, coherency_group(i))

(* The constants that are made of a fully decoded buffer are the reported  *)
(* ones.                                                                   *)
LEMMA ConstantsDerived ==
    ASSUME DecodeInv, device.cut = 0, WellReported(device), DeriveConstants
    PROVE  ConstantsAreReported'
<1>1. device \in Devices /\ device' = device /\ stage = "decode" /\ data = <<>>
  BY Zenon DEF DecodeInv, DeriveConstants
<1> DEFINE n == Len(device.props)
           R == Remainders(device)
           table == decoded
<1>2. n \in Nat /\ (\A k \in 1..n : device.props[k] \in Property)
      /\ device.props \in Seq(Property)
  BY <1>1, DeviceAssumption
<1>3. IsRemainders(R, device)
  BY <1>1, RemaindersExist
<1>4. PICK k \in 0..n : data = R[k] /\ IsDecoded(table, device.props, k)
  BY <1>1 DEF DecodeInv
<1> HIDE DEF R, n
<1>5. k = n
  <2> SUFFICES ASSUME k < n PROVE FALSE
    BY <1>2, <1>4
  <2>1. k + 1 \in 1..n /\ (k + 1) - 1 = k
    BY <1>2, <1>4
  <2>2. R[(k + 1) - 1] = Encode(device.props[k + 1]) \o R[k + 1]
    BY <1>3, <2>1 DEF IsRemainders, n
  <2>3. R[k + 1] \in Seq(Bytes)
    <3>1. k + 1 \in 0..n
      BY <1>2, <2>1
    <3> QED
      BY <1>3, <3>1 DEF IsRemainders, n
  <2>4. R[(k + 1) - 1] # <<>>
    BY <1>2, <2>1, <2>2, <2>3, EncodedTyped
  <2> QED
    BY <1>1, <1>4, <2>1, <2>4
<1>6. \A id : /\ id \in DOMAIN table <=>
                     \E j \in DOMAIN device.props : device.props[j].id = id
              /\ id \notin DOMAIN table => Reported(id) = {}
              /\ id \in DOMAIN table =>
                   /\ Reported(id) \subseteq table[id]
                   /\ Wide(id) => table[id] = Reported(id)
  BY <1>2, <1>4, <1>5, AllDecoded DEF Reported, Wide, n
<1>7. \A id : /\ Reported(id) \subseteq Constant(id)
              /\ Wide(id) => Constant(id) = Reported(id)
  BY <1>6, Zenon DEF Constant
<1> DEFINE groups == GroupsOf(Number(Constant(coherency_num_core_groups)))
<1>8. groups = 0..(Number(Reported(coherency_num_core_groups)) - 1)
  <2>1. Constant(coherency_num_core_groups)
            = Reported(coherency_num_core_groups)
    BY <1>7, Zenon DEF WellReported, Wide
  <2> QED
    BY <2>1, Zenon DEF GroupsOf
<1>9. ASSUME NEW i \in groups
      PROVE  /\ GroupReported(i)
             /\ decoded[coherency_group(i)] = Reported(coherency_group(i))
  <2>1. i \in 0..(Number(ReportedBy(device, coherency_num_core_groups)) - 1)
    BY <1>8, Zenon DEF Reported
  <2>2. /\ i < 16
        /\ \E j \in DOMAIN device.props :
              device.props[j].id = coherency_group(i)
        /\ Wide(coherency_group(i))
    BY <2>1, Zenon DEF WellReported, Wide
  <2>3. /\ coherency_group(i) \in DOMAIN decoded
        /\ decoded[coherency_group(i)] = Reported(coherency_group(i))
    BY <1>6, <2>2, Zenon
  <2>4. i \in 0..15
    <3> DEFINE top == Number(ReportedBy(device, coherency_num_core_groups)) - 1
    <3> HIDE DEF top
    <3>1. i \in 0..top
      BY <2>1 DEF top
    <3> QED
      BY <2>2, <3>1
  <2> QED
    BY <2>3, <2>4 DEF GroupReported
<1>10. PICK core_features, thread_features, core_mask :
           constants' = Derived(core_features, thread_features, core_mask)
  BY DEF DeriveConstants
<1>11. /\ constants'.num_l2_slices = Constant(l2_num_l2_slices)
        /\ constants'.shader_core_mask =
             UNION {IF GroupReported(i)
                    THEN decoded[coherency_group(i)] ELSE core_mask :
                    i \in groups}
  BY <1>10 DEF Derived
<1> HIDE DEF groups
<1>12. constants'.shader_core_mask =
           UNION {Reported(coherency_group(i)) : i \in groups}
  BY <1>9, <1>11
<1>13. /\ Reported(l2_num_l2_slices) \subseteq constants'.num_l2_slices
       /\ Wide(l2_num_l2_slices) =>
              constants'.num_l2_slices = Reported(l2_num_l2_slices)
  BY <1>7, <1>11, Zenon
<1> DEFINE AsReported(d, c) ==
        LET group == 0..(Number(ReportedBy(d, coherency_num_core_groups)) - 1)
        IN  /\ ReportedBy(d, l2_num_l2_slices) \subseteq c.num_l2_slices
            /\ ReportedWide(d, l2_num_l2_slices) =>
                   c.num_l2_slices = ReportedBy(d, l2_num_l2_slices)
            /\ c.shader_core_mask =
                   UNION {ReportedBy(d, coherency_group(i)) : i \in group}
<1>14. AsReported(device, constants')
  BY <1>8, <1>12, <1>13 DEF Reported, Wide
<1>15. AsReported(device', constants')
  <2> HIDE DEF AsReported
  <2> QED
    BY <1>1, <1>14
<1> QED
  BY <1>15 DEF ConstantsAreReported, Reported, Wide

-----------------------------------------------------------------------------
(* The size of a property is read from two bits.                           *)
LEMMA SizeOfHead ==
    ASSUME NEW head
    PROVE  prop_decoder__to_prop_metadata(head).size \in {1, 2, 4, 8}
<1> DEFINE low == head \intersect {0, 1}
           n == Number(low)
<1>1. low \in SUBSET (0..7)
  OBVIOUS
<1>2. ByteValue(low) \in {0, 1, 2, 3}
  BY DEF ByteValue, Bit
<1> HIDE DEF low
<1>3. n \in {0, 1, 2, 3}
  BY <1>1, <1>2, NumberOfByte
<1> HIDE DEF n
<1>4. 2^n \in {1, 2, 4, 8}
  BY <1>3, TwoPowers
<1>5. prop_decoder__to_prop_metadata(head).size = 2^n
  BY Zenon DEF prop_decoder__to_prop_metadata, n, low
<1> QED
  BY <1>4, <1>5, Zenon

(* A part of a string of bytes.                                            *)
LEMMA PartOfBytes ==
    ASSUME NEW s \in Seq(Bytes), NEW m \in Int, NEW n \in Int,
           m >= 1, n <= Len(s)
    PROVE  /\ SubSeq(s, m, n) \in Seq(Bytes)
           /\ Len(SubSeq(s, m, n)) = IF m <= n THEN n - m + 1 ELSE 0
<1>1. \A i \in m..n : s[i] \in Bytes
  <2> SUFFICES ASSUME NEW i \in m..n PROVE s[i] \in Bytes
    OBVIOUS
  <2>1. i \in 1..Len(s)
    OBVIOUS
  <2> QED
    BY <2>1
<1> QED
  BY <1>1, SubSeqProperties

(* The buffer, cut or not, is a string of bytes.                           *)
LEMMA BufferTyped ==
    ASSUME NEW d \in Devices
    PROVE  Buffer(d) \in Seq(Bytes)
<1> DEFINE n == Len(d.props)
           parts == [k \in DOMAIN d.props |-> Encode(d.props[k])]
           whole == FlattenSeq(parts)
<1>1. n \in Nat /\ DOMAIN d.props = 1..n
      /\ \A k \in 1..n : d.props[k] \in Property
  BY DeviceAssumption
<1>2. \A k \in 1..n : Encode(d.props[k]) \in Seq(Bytes)
  BY <1>1, EncodedTyped
<1>3. parts \in Seq(Seq(Bytes))
  BY <1>1, <1>2
<1> HIDE DEF parts, n
<1>4. PICK P \in [0..Len(parts) -> Seq(Bytes)] : P[Len(parts)] = whole
  BY <1>3, FlattenedByParts, Zenon
<1>5. whole \in Seq(Bytes)
  <2>1. Len(parts) \in 0..Len(parts)
    BY <1>3
  <2> QED
    BY <1>4, <2>1
<1> HIDE DEF whole
<1>6. d.cut \in Nat /\ Len(whole) \in Nat
  BY <1>5, DeviceAssumption
<1>7. SubSeq(whole, 1, Len(whole) - d.cut) \in Seq(Bytes)
  BY <1>5, <1>6, PartOfBytes
<1> QED
  BY <1>7 DEF Buffer, whole, parts

(* The types of the variables of DeviceInstance.                           *)
DeviceTypeInv ==
    /\ pass \in {1, 2} /\ stage \in Stages
    /\ device_fd \in {"none", "open", "stdin", "closed"}
    /\ handshake \in {"none", "version", "flags"}
    /\ data \in Seq(Bytes)
    /\ \A id \in DOMAIN decoded : decoded[id] \subseteq 0..63
    /\ constants.num_shader_cores \in 0..32
    /\ constants.shader_core_mask \subseteq 0..63
    /\ constants.num_l2_slices \subseteq 0..63

(* A decoded value has 64 bits, and what is left is bytes.                 *)
LEMMA DecoderTyped ==
    ASSUME DecodeInv, DeviceTypeInv, prop_decoder__next
    PROVE  DeviceTypeInv'
<1> DEFINE meta == prop_decoder__to_prop_metadata(Read(SubSeq(data, 1, 4)))
           size == meta.size
           body == SubSeq(data, 5, Len(data))
           value == Read(SubSeq(body, 1, size))
<1>1. size \in {1, 2, 4, 8}
  BY SizeOfHead
<1>2. data \in Seq(Bytes) /\ Len(data) \in Nat /\ Len(data) >= 4
  BY DEF DeviceTypeInv, prop_decoder__next
<1>3. body \in Seq(Bytes)
  BY <1>2, PartOfBytes
<1> HIDE DEF body, meta
<1>4. \/ data' = body /\ decoded' = decoded
      \/ /\ Len(body) >= size
         /\ data' = SubSeq(body, size + 1, Len(body))
         /\ \E garbage \in IF size <= 2
                           THEN {u \intersect 0..(8 * size - 1) :
                                   u \in Uninitialized}
                           ELSE {{}} :
                decoded' = With(decoded, meta.id, value \union garbage)
  BY Zenon DEF prop_decoder__next, body, meta
<1> HIDE DEF size
<1>5. size \in Nat /\ size >= 1 /\ size <= 8
  <2>1. \A n \in {1, 2, 4, 8} : n \in Nat /\ n >= 1 /\ n <= 8
    OBVIOUS
  <2> QED
    BY <1>1, <2>1
<1> HIDE DEF value
<1>6. data' \in Seq(Bytes)
      /\ \A id \in DOMAIN decoded' : decoded'[id] \subseteq 0..63
  <2>1. CASE data' = body /\ decoded' = decoded
    BY <1>3, <2>1 DEF DeviceTypeInv
  <2>2. CASE ~(data' = body /\ decoded' = decoded)
    <3>1. Len(body) >= size /\ data' = SubSeq(body, size + 1, Len(body))
          /\ Len(body) \in Nat
      BY <1>3, <1>4, <2>2
    <3>2. PICK garbage \in IF size <= 2
                           THEN {u \intersect 0..(8 * size - 1) :
                                   u \in Uninitialized}
                           ELSE {{}} :
                decoded' = With(decoded, meta.id, value \union garbage)
      BY <1>4, <2>2
    <3>3. garbage \subseteq 0..63
      <4>1. CASE size <= 2
        <5>1. PICK u \in Uninitialized :
                  garbage = u \intersect 0..(8 * size - 1)
          BY <3>2, <4>1
        <5> QED
          BY <5>1, DeviceAssumption
      <4>2. CASE ~(size <= 2)
        BY <3>2, <4>2
      <4> QED
        BY <4>1, <4>2
    <3>4. value \subseteq 0..63
      <4>1. SubSeq(body, 1, size) \in Seq(Bytes)
            /\ Len(SubSeq(body, 1, size)) <= 8
        BY <1>3, <1>5, <3>1, PartOfBytes
      <4> QED
        BY <4>1, ReadIn64 DEF value
    <3>5. data' \in Seq(Bytes)
      BY <1>3, <1>5, <3>1, PartOfBytes
    <3>6. \A id \in DOMAIN decoded' : decoded'[id] \subseteq 0..63
      BY <3>2, <3>3, <3>4 DEF DeviceTypeInv, With
    <3> QED
      BY <3>5, <3>6
  <2> QED
    BY <2>1, <2>2
<1>7. UNCHANGED <<pass, stage, device_fd, handshake, constants>>
  BY Zenon DEF prop_decoder__next
<1> QED
  BY <1>6, <1>7 DEF DeviceTypeInv

(* The constants fit their types.                                          *)
LEMMA ConstantsTyped ==
    ASSUME DeviceTypeInv, DeriveConstants
    PROVE  DeviceTypeInv'
<1>1. PICK core_mask \in Uninitialized : \E core_features, thread_features :
          constants' = Derived(core_features, thread_features, core_mask)
  BY DEF DeriveConstants
<1> DEFINE groups == GroupsOf(Number(Constant(coherency_num_core_groups)))
           mask == UNION {IF GroupReported(i)
                          THEN decoded[coherency_group(i)] ELSE core_mask :
                          i \in groups}
<1>2. /\ constants'.shader_core_mask = mask
      /\ constants'.num_shader_cores = Cardinality(mask \intersect 0..31)
      /\ constants'.num_l2_slices = Constant(l2_num_l2_slices)
  BY <1>1 DEF Derived
<1> HIDE DEF groups
<1>3. mask \subseteq 0..63
  <2> SUFFICES ASSUME NEW i \in groups
               PROVE  (IF GroupReported(i)
                       THEN decoded[coherency_group(i)] ELSE core_mask)
               \subseteq 0..63
    OBVIOUS
  <2>1. core_mask \subseteq 0..63
    BY DeviceAssumption
  <2> QED
    BY <2>1 DEF DeviceTypeInv, GroupReported
<1> HIDE DEF mask
<1>4. Cardinality(mask \intersect 0..31) \in 0..32
  <2>1. /\ mask \intersect 0..31 \in SUBSET Nat
        /\ \A k \in mask \intersect 0..31 : k <= 31
    OBVIOUS
  <2>2. /\ IsFiniteSet(mask \intersect 0..31)
        /\ Cardinality(mask \intersect 0..31) <= 31 + 1
    BY <2>1, FS_BoundedSetOfNaturals
  <2>3. Cardinality(mask \intersect 0..31) \in Nat
    BY <2>2, FS_CardinalityType
  <2> QED
    BY <2>2, <2>3
<1>5. stage' = "decoded" /\ decoded' = <<>>
      /\ UNCHANGED <<pass, device_fd, handshake, data>>
  BY Zenon DEF DeriveConstants
<1>6. constants'.num_l2_slices \subseteq 0..63
  BY <1>2 DEF Constant, DeviceTypeInv
<1>7. /\ constants'.num_shader_cores \in 0..32
      /\ constants'.shader_core_mask \subseteq 0..63
      /\ constants'.num_l2_slices \subseteq 0..63
  BY <1>2, <1>3, <1>4, <1>6
<1>8. stage' \in Stages /\ \A id \in DOMAIN decoded' : decoded'[id] \subseteq 0..63
  BY <1>5 DEF Stages
<1> QED
  BY <1>5, <1>7, <1>8 DEF DeviceTypeInv

(* Every step of opening a device keeps the types.                         *)
LEMMA DeviceTypeStep ==
    ASSUME DecodeInv, DeviceTypeInv,
           InstanceNext \/ SecondPass \/ UNCHANGED instanceVars
    PROVE  DeviceTypeInv'
<1>1. CASE instance__props_post_r21
  <2>1. \/ data' = Buffer(device) /\ decoded' = <<>>
        \/ UNCHANGED <<data, decoded>>
    BY <1>1 DEF instance__props_post_r21
  <2>2. stage' \in {"decode", "failed"}
        /\ UNCHANGED <<pass, device_fd, handshake, constants>>
    BY <1>1 DEF instance__props_post_r21
  <2>3. Buffer(device) \in Seq(Bytes)
    BY BufferTyped DEF DecodeInv
  <2>4. data' \in Seq(Bytes)
        /\ \A id \in DOMAIN decoded' : decoded'[id] \subseteq 0..63
    <3>1. CASE data' = Buffer(device) /\ decoded' = <<>>
      BY <2>3, <3>1
    <3>2. CASE UNCHANGED <<data, decoded>>
      BY <3>2 DEF DeviceTypeInv
    <3> QED
      BY <2>1, <3>1, <3>2
  <2> QED
    BY <2>2, <2>4 DEF DeviceTypeInv, Stages
<1>2. CASE prop_decoder__next
  BY <1>2, DecoderTyped
<1>3. CASE handle__create
  BY <1>3 DEF handle__create, DeviceTypeInv, Stages
<1>4. CASE instance__version_check
  BY <1>4 DEF instance__version_check, DeviceTypeInv, Stages
<1>5. CASE instance__set_flags
  BY <1>5 DEF instance__set_flags, DeviceTypeInv, Stages
<1>6. CASE DeriveConstants
  BY <1>6, ConstantsTyped
<1>7. CASE SecondPass
  BY <1>7 DEF SecondPass, DeviceTypeInv, Stages
<1>8. CASE UNCHANGED instanceVars
  BY <1>8 DEF instanceVars, DeviceTypeInv
<1> QED
  BY <1>1, <1>2, <1>3, <1>4, <1>5, <1>6, <1>7, <1>8 DEF InstanceNext

DeviceInv == DecodeInv /\ DeviceTypeInv

(* What bits of 64 stand for is a number.                                  *)
LEMMA NumberTyped ==
    ASSUME NEW bits \in SUBSET (0..63)
    PROVE  Number(bits) \in Nat
<1> DEFINE weight == [i \in bits |-> 2^i]
<1>1. IsFiniteSet(bits)
  <2>1. IsFiniteSet(0..63)
    BY FS_BoundedSetOfNaturals
  <2> QED
    BY <2>1, FS_Subset
<1>2. \A i \in bits : weight[i] \in Nat
  BY PowersOfTwo
<1> HIDE DEF weight
<1>3. SumFunctionOnSet(weight, bits) \in Nat
  BY <1>1, <1>2, SumOfMore
<1> QED
  BY <1>3 DEF Number, SumFunction, weight

(* A device that is not open yet.                                          *)
LEMMA DeviceInvInit == InstanceInit => DeviceInv
<1> SUFFICES ASSUME InstanceInit PROVE DeviceInv
  OBVIOUS
<1>2. DecodeInv
  BY DEF InstanceInit, DecodeInv
<1>3. DeviceTypeInv
  BY DEF InstanceInit, DeviceTypeInv, NoConstants, Stages
<1> QED
  BY <1>2, <1>3 DEF DeviceInv
=============================================================================
