--------------------------- MODULE ReceiveProofs ---------------------------
(***************************************************************************)
(* Proofs about Receive and the part of Wire it uses, for any packets that *)
(* say what their bytes say, any pieces, any pool, any bytes behind the    *)
(* buffer and any bounds.                                                  *)
(***************************************************************************)
EXTENDS Receive, SequenceTheorems, LeastNumber

-----------------------------------------------------------------------------
(***************************************************************************)
(* The remaining length: decode_length reads what encode_length writes.    *)
(***************************************************************************)

\* A number is its lowest seven bits and the rest.
LEMMA Digit ==
  ASSUME NEW n \in Nat
  PROVE  /\ n \div 128 \in Nat /\ n % 128 \in 0 .. 127
         /\ n = 128 * (n \div 128) + (n % 128)
         /\ n \div 1 = n
OBVIOUS

\* The eighth bit does not disturb the other seven.
LEMMA SevenBits ==
  ASSUME NEW d \in 0 .. 127
  PROVE  (128 + d) % 128 = d /\ d % 128 = d /\ 128 + d \in 128 .. 255
OBVIOUS

\* Below 128 * 128 the second seven bits are the last.
LEMMA TwoDigits ==
  ASSUME NEW n \in Nat, 128 =< n, n < 128 * 128
  PROVE  n \div 128 \in 1 .. 127
<1>1. n \div 128 >= 1  OBVIOUS
<1>2. n \div 128 < 128  OBVIOUS
<1> QED BY <1>1, <1>2, Digit

\* Below 128 * 128 * 128 the third seven bits are the last.
LEMMA ThreeDigits ==
  ASSUME NEW n \in Nat, 128 * 128 =< n, n < 128 * 128 * 128
  PROVE  /\ n \div (128 * 128) \in 1 .. 127
         /\ n \div 128 = 128 * (n \div (128 * 128)) + ((n \div 128) % 128)
<1> PICK m \in Nat : m = n \div 128  BY Digit
<1>1. n \div (128 * 128) = m \div 128  OBVIOUS
<1>2. m >= 128  OBVIOUS
<1>3. m < 128 * 128  OBVIOUS
<1>4. m \div 128 \in 1 .. 127  BY <1>2, <1>3, TwoDigits
<1> QED BY <1>1, <1>4, Digit

-----------------------------------------------------------------------------
\* The length that n bytes say
Value(bytes, n) ==
  (bytes[1] % 128) + (IF n > 1 THEN 128 * (bytes[2] % 128) ELSE 0)
                   + (IF n > 2 THEN 128 * 128 * (bytes[3] % 128) ELSE 0)

\* All that the proofs need of a byte, so that Byte stays unexpanded
LEMMA ByteNat == \A b \in Byte : b \in Nat /\ b < 256
BY DEF Byte

LEMMA ValueNat ==
  ASSUME NEW bytes \in Seq(Byte), NEW n \in 1 .. 3, n =< Len(bytes)
  PROVE  Value(bytes, n) \in Nat
<1>1. \A i \in 1 .. n : bytes[i] \in Nat
  <2>1. \A i \in 1 .. n : bytes[i] \in Byte  OBVIOUS
  <2> QED BY <2>1, ByteNat
<1>2. \A i \in 1 .. n : bytes[i] % 128 \in Nat  BY <1>1
<1>3. 128 * 128 = 16384  OBVIOUS
<1> QED BY <1>2, <1>3 DEF Value

\* A byte below 128 after n - 1 others that are not ends the length.
LEMMA DecodeRead ==
  ASSUME NEW bytes \in Seq(Byte), NEW n \in 1 .. 3, n =< Len(bytes),
         bytes[n] < 128, \A i \in 1 .. n - 1 : bytes[i] >= 128
  PROVE  decode_length(bytes) = [rc |-> "read", len |-> Value(bytes, n), n |-> n]
<1> DEFINE Last(k) == k \in 1 .. Len(bytes) /\ bytes[k] < 128
<1>1. Last(n)  OBVIOUS
<1>2. \A i \in 1 .. n - 1 : ~Last(i)
  <2>1. \A i \in 1 .. n - 1 : bytes[i] \in Byte  OBVIOUS
  <2> QED BY <2>1, ByteNat
<1>3. \/ n = 1 /\ Last(1)
      \/ n = 2 /\ ~Last(1) /\ Last(2)
      \/ n = 3 /\ ~Last(1) /\ ~Last(2) /\ Last(3)
  BY <1>1, <1>2
<1>4. decode_length(bytes) =
        CASE Last(1) -> [rc |-> "read", len |-> Value(bytes, 1), n |-> 1]
          [] ~Last(1) /\ Last(2) -> [rc |-> "read", len |-> Value(bytes, 2), n |-> 2]
          [] ~Last(1) /\ ~Last(2) /\ Last(3) ->
               [rc |-> "read", len |-> Value(bytes, 3), n |-> 3]
          [] OTHER -> [rc |-> IF Len(bytes) > 3 THEN "throws" ELSE "partial"]
  BY DEF decode_length, Value
<1> HIDE DEF Last
<1> QED BY <1>3, <1>4

\* Without such a byte among the first three the length goes on.
LEMMA DecodeOn ==
  ASSUME NEW bytes \in Seq(Byte),
         \A i \in 1 .. 3 : i =< Len(bytes) => bytes[i] >= 128
  PROVE  decode_length(bytes) = [rc |-> IF Len(bytes) > 3 THEN "throws" ELSE "partial"]
<1>1. \A i \in 1 .. 3 : ~(i \in 1 .. Len(bytes) /\ bytes[i] < 128)
  <2> SUFFICES ASSUME NEW i \in 1 .. 3, i \in 1 .. Len(bytes) PROVE ~(bytes[i] < 128)
    OBVIOUS
  <2>1. bytes[i] >= 128 /\ bytes[i] \in Byte  OBVIOUS
  <2> QED BY <2>1, ByteNat
<1>2. /\ ~(1 \in 1 .. Len(bytes) /\ bytes[1] < 128)
      /\ ~(2 \in 1 .. Len(bytes) /\ bytes[2] < 128)
      /\ ~(3 \in 1 .. Len(bytes) /\ bytes[3] < 128)
  BY <1>1
<1> QED BY <1>2 DEF decode_length

\* What encode_length writes: at most three bytes, the last one below 128
LEMMA EncodeShape ==
  ASSUME NEW len \in Nat, len < 128 * 128 * 128
  PROVE  /\ encode_length(len) \in Seq(Byte)
         /\ Len(encode_length(len)) \in 1 .. 3
         /\ encode_length(len)[Len(encode_length(len))] < 128
         /\ \A i \in 1 .. Len(encode_length(len)) - 1 : encode_length(len)[i] >= 128
         /\ Value(encode_length(len), Len(encode_length(len))) = len
<1> DEFINE c == encode_length(len)
           d1 == len % 128
           d2 == (len \div 128) % 128
<1>1. /\ len = 128 * (len \div 128) + d1 /\ d1 \in 0 .. 127
      /\ len \div 128 \in Nat /\ len \div 1 = len
  BY Digit
<1>2. d2 \in 0 .. 127  BY <1>1, Digit
<1>3. (128 + d1) % 128 = d1 /\ 128 + d1 \in 128 .. 255  BY <1>1, SevenBits
<1>4. (128 + d2) % 128 = d2 /\ 128 + d2 \in 128 .. 255  BY <1>2, SevenBits
<1>5. CASE len < 128
  <2>1. c = <<len>>  BY <1>5 DEF encode_length
  <2>2. len \in 0 .. 127 /\ len % 128 = len  BY <1>5, SevenBits
  <2>3. c \in Seq(Byte) /\ Len(c) = 1 /\ c[1] = len  BY <2>1, <2>2 DEF Byte
  <2> HIDE DEF c
  <2>4. Value(c, 1) = len  BY <2>2, <2>3 DEF Value
  <2> QED BY <2>2, <2>3, <2>4 DEF c
<1>6. CASE 128 =< len /\ len < 128 * 128
  <2> DEFINE e == len \div 128
  <2>1. c = <<128 + d1, e>>  BY <1>1, <1>6 DEF encode_length
  <2>2. e \in 1 .. 127  BY <1>6, TwoDigits
  <2>3. e % 128 = e  BY <2>2, SevenBits
  <2>4. len = 128 * e + d1  BY <1>1
  <2> HIDE DEF c, d1, e
  <2>5. /\ c \in Seq(Byte) /\ Len(c) = 2 /\ c[1] = 128 + d1 /\ c[2] = e
    BY <1>3, <2>1, <2>2 DEF Byte
  <2>6. Value(c, 2) = d1 + 128 * e
    BY <1>1, <1>3, <2>2, <2>3, <2>5 DEF Value
  <2>7. Value(c, 2) = len  BY <1>1, <2>2, <2>4, <2>6
  <2>8. \A i \in 1 .. 1 : c[i] >= 128
    <3>1. c[1] = 128 + d1  BY <2>5
    <3>2. c[1] >= 128  BY <1>3, <3>1
    <3> QED BY <3>2
  <2> QED BY <2>2, <2>5, <2>7, <2>8 DEF c
<1>7. CASE 128 * 128 =< len
  <2> DEFINE e == len \div (128 * 128)
  <2>1. c = <<128 + d1, 128 + d2, e>>  BY <1>1, <1>7 DEF encode_length
  <2>2. e \in 1 .. 127 /\ len \div 128 = 128 * e + d2  BY <1>7, ThreeDigits
  <2>3. e % 128 = e  BY <2>2, SevenBits
  <2>4. len = 128 * (128 * e + d2) + d1  BY <1>1, <2>2
  <2> HIDE DEF c, d1, d2, e
  <2>5. /\ c \in Seq(Byte) /\ Len(c) = 3
        /\ c[1] = 128 + d1 /\ c[2] = 128 + d2 /\ c[3] = e
    BY <1>3, <1>4, <2>1, <2>2 DEF Byte
  <2>6. Value(c, 3) = d1 + 128 * d2 + 128 * 128 * e
    BY <1>1, <1>2, <1>3, <1>4, <2>2, <2>3, <2>5 DEF Value
  <2>7. Value(c, 3) = len  BY <1>1, <1>2, <2>2, <2>4, <2>6
  <2>8. \A i \in 1 .. 2 : c[i] >= 128
    <3>1. c[1] = 128 + d1 /\ c[2] = 128 + d2  BY <2>5
    <3>2. c[1] >= 128 /\ c[2] >= 128  BY <1>3, <1>4, <3>1
    <3> QED BY <3>2
  <2> QED BY <2>2, <2>5, <2>7, <2>8 DEF c
<1> QED BY <1>5, <1>6, <1>7

\* What begins with an encoded length decodes to it
LEMMA DecodeEncoded ==
  ASSUME NEW len \in Nat, len < 128 * 128 * 128, NEW bytes \in Seq(Byte),
         Len(encode_length(len)) =< Len(bytes),
         \A i \in 1 .. Len(encode_length(len)) : bytes[i] = encode_length(len)[i]
  PROVE  decode_length(bytes) =
           [rc |-> "read", len |-> len, n |-> Len(encode_length(len))]
<1> PICK c : c = encode_length(len)  OBVIOUS
<1>1. /\ c \in Seq(Byte) /\ Len(c) \in 1 .. 3 /\ c[Len(c)] < 128
      /\ \A i \in 1 .. Len(c) - 1 : c[i] >= 128
      /\ Value(c, Len(c)) = len
  BY EncodeShape
<1>2. /\ Len(c) =< Len(bytes) /\ \A i \in 1 .. Len(c) : bytes[i] = c[i]
  OBVIOUS
<1>3. bytes[Len(c)] < 128 /\ \A i \in 1 .. Len(c) - 1 : bytes[i] >= 128
  <2> PICK k \in 1 .. 3 : k = Len(c)  BY <1>1
  <2>1. k \in 1 .. k /\ \A i \in 1 .. k - 1 : i \in 1 .. k  OBVIOUS
  <2>2. c[k] < 128 /\ \A i \in 1 .. k - 1 : c[i] >= 128  BY <1>1
  <2>3. \A i \in 1 .. k : bytes[i] = c[i]  BY <1>2
  <2>4. bytes[k] < 128 /\ \A i \in 1 .. k - 1 : bytes[i] >= 128
    BY <2>1, <2>2, <2>3
  <2> QED BY <2>4
<1>4. decode_length(bytes) =
        [rc |-> "read", len |-> Value(bytes, Len(c)), n |-> Len(c)]
  BY <1>1, <1>2, <1>3, DecodeRead
<1>5. Value(bytes, Len(c)) = Value(c, Len(c))  BY <1>1, <1>2 DEF Value
<1> QED BY <1>1, <1>4, <1>5

-----------------------------------------------------------------------------
\* What decode_length is given
LEMMA RemainingBytes ==
  ASSUME NEW q \in Seq(Byte), q # <<>>, NEW past \in Byte
  PROVE  /\ Remaining(q, past) \in Seq(Byte)
         /\ Len(Remaining(q, past)) = Len(q)
         /\ Remaining(q, past)[Len(q)] = past
         /\ \A i \in 1 .. Len(q) - 1 : Remaining(q, past)[i] = q[i + 1]
<1> PICK t : t = Tail(q)  OBVIOUS
<1>1. /\ t \in Seq(Byte) /\ Len(t) = Len(q) - 1
      /\ \A i \in 1 .. Len(t) : t[i] = q[i + 1]
  BY HeadTailProperties
<1>2. /\ Append(t, past) \in Seq(Byte) /\ Len(Append(t, past)) = Len(t) + 1
      /\ \A i \in 1 .. Len(t) : Append(t, past)[i] = t[i]
      /\ Append(t, past)[Len(t) + 1] = past
  BY <1>1, AppendProperties
<1>3. Remaining(q, past) = Append(t, past)  BY DEF Remaining
<1>4. Len(q) \in Nat  OBVIOUS
<1> QED BY <1>1, <1>2, <1>3, <1>4

\* Cut inside the remaining length, whatever lies behind the cut
LEMMA CutLength ==
  ASSUME NEW q \in Seq(Byte), Len(q) \in 1 .. 3, NEW past \in Byte,
         \A i \in 2 .. Len(q) : q[i] >= 128
  PROVE  is_partial(q, past).rc = "partial"
<1> PICK b : b = Remaining(q, past)  OBVIOUS
<1>1. /\ b \in Seq(Byte) /\ Len(b) = Len(q) /\ b[Len(q)] = past
      /\ \A i \in 1 .. Len(q) - 1 : b[i] = q[i + 1]
  <2>1. q # <<>>  BY EmptySeq
  <2> QED BY <2>1, RemainingBytes
<1> PICK length : length = decode_length(b)  OBVIOUS
<1>2. is_partial(q, past) =
        IF Len(q) =< 1 THEN [rc |-> "partial"]
        ELSE IF length.rc = "read" /\ 1 + length.n + length.len > Len(q)
             THEN [rc |-> "partial"]
             ELSE length
  BY DEF is_partial
<1>3. \A i \in 1 .. Len(q) - 1 : b[i] >= 128  BY <1>1
<1>4. CASE past < 128
  <2>1. length = [rc |-> "read", len |-> Value(b, Len(q)), n |-> Len(q)]
    BY <1>1, <1>3, <1>4, DecodeRead
  <2>2. Value(b, Len(q)) \in Nat
    <3> PICK n \in 1 .. 3 : n = Len(q)  OBVIOUS
    <3>1. n =< Len(b)  BY <1>1
    <3>2. Value(b, n) \in Nat  BY <1>1, <3>1, ValueNat
    <3> QED BY <3>2
  <2> QED BY <1>2, <2>1, <2>2
<1>5. CASE past >= 128
  <2>1. length = [rc |-> "partial"]
    <3>1. \A i \in 1 .. 3 : i =< Len(b) => b[i] >= 128  BY <1>1, <1>3, <1>5
    <3>2. decode_length(b) = [rc |-> IF Len(b) > 3 THEN "throws" ELSE "partial"]
      BY <1>1, <3>1, DecodeOn
    <3>3. ~(Len(b) > 3)  BY <1>1
    <3> QED BY <3>2, <3>3
  <2> QED BY <1>2, <2>1
<1> QED BY <1>4, <1>5 DEF Byte

\* Past its length, a buffer is partial until all of the packet is there
LEMMA LengthRead ==
  ASSUME NEW q \in Seq(Byte), NEW past \in Byte,
         NEW len \in Nat, len < 128 * 128 * 128,
         Len(q) > Len(encode_length(len)),
         \A i \in 1 .. Len(encode_length(len)) : q[i + 1] = encode_length(len)[i]
  PROVE  is_partial(q, past) =
           IF 1 + Len(encode_length(len)) + len > Len(q) THEN [rc |-> "partial"]
           ELSE [rc |-> "read", len |-> len, n |-> Len(encode_length(len))]
<1> PICK b, c : b = Remaining(q, past) /\ c = encode_length(len)  OBVIOUS
<1>1. c \in Seq(Byte) /\ Len(c) \in 1 .. 3  BY EncodeShape
<1>2. q # <<>> /\ Len(q) > 1  BY <1>1
<1>3. /\ b \in Seq(Byte) /\ Len(b) = Len(q)
      /\ \A i \in 1 .. Len(q) - 1 : b[i] = q[i + 1]
  BY <1>2, RemainingBytes
<1>4. \A i \in 1 .. Len(c) : b[i] = c[i]  BY <1>1, <1>3
<1>5. decode_length(b) = [rc |-> "read", len |-> len, n |-> Len(c)]
  BY <1>1, <1>3, <1>4, DecodeEncoded
<1> QED BY <1>1, <1>2, <1>5 DEF is_partial

-----------------------------------------------------------------------------
(***************************************************************************)
(* The fixed header, and where the parts of a frame are.                   *)
(***************************************************************************)
\* The first byte, with the flags as bits
Packed(t, d, q, r) == 16 * t + 8 * d + 2 * q + r

LEMMA PackedByte ==
  ASSUME NEW t \in 0 .. 15, NEW d \in 0 .. 1, NEW q \in 0 .. 3, NEW r \in 0 .. 1
  PROVE  Packed(t, d, q, r) \in Byte
BY DEF Packed, Byte

\* Each field of the first byte is where HeaderUnpack looks for it.
LEMMA PackedHeader ==
  ASSUME NEW t \in 0 .. 15, NEW d \in 0 .. 1, NEW q \in 0 .. 3, NEW r \in 0 .. 1
  PROVE  HeaderUnpack(Packed(t, d, q, r)) = Header(t, d = 1, q, r = 1)
<1> DEFINE b == Packed(t, d, q, r)
<1>1. b \div 16 = t  BY DEF Packed
<1>2. (b \div 8) % 2 = d  BY DEF Packed
<1>3. (b \div 2) % 4 = q  BY DEF Packed
<1>4. (b \div 1) % 2 = r  BY DEF Packed
<1> HIDE DEF b
<1>5. Flag(b, 8) = (d = 1) /\ Flag(b, 1) = (r = 1)  BY <1>2, <1>4 DEF Flag
<1>6. HeaderUnpack(b) = Header(t, d = 1, q, r = 1)
  BY <1>1, <1>3, <1>5 DEF HeaderUnpack
<1> QED BY <1>6 DEF b

\* Header::unpack reads what Header::pack writes.
LEMMA HeaderRoundTrip ==
  ASSUME NEW h \in Headers
  PROVE  HeaderPack(h) \in Byte /\ HeaderUnpack(HeaderPack(h)) = h
<1>1. /\ h.type \in 0 .. 15 /\ h.dup \in BOOLEAN /\ h.qos \in 0 .. 3
      /\ h.retain \in BOOLEAN /\ h = Header(h.type, h.dup, h.qos, h.retain)
  BY DEF Headers, Header
<1>2. \A v \in BOOLEAN : Bit(v) \in 0 .. 1 /\ ((Bit(v) = 1) = v)  BY DEF Bit
<1>3. Bit(h.dup) \in 0 .. 1 /\ Bit(h.retain) \in 0 .. 1  BY <1>1, <1>2
<1>4. HeaderPack(h) = Packed(h.type, Bit(h.dup), h.qos, Bit(h.retain))
  BY DEF HeaderPack, Packed
<1>5. HeaderPack(h) \in Byte  BY <1>1, <1>3, <1>4, PackedByte
<1>6. HeaderUnpack(HeaderPack(h))
        = Header(h.type, Bit(h.dup) = 1, h.qos, Bit(h.retain) = 1)
  BY <1>1, <1>3, <1>4, PackedHeader
<1>7. (Bit(h.dup) = 1) = h.dup /\ (Bit(h.retain) = 1) = h.retain
  BY <1>1, <1>2
<1> QED BY <1>1, <1>5, <1>6, <1>7

\* Where the parts of a frame are
LEMMA FrameBytes ==
  ASSUME NEW h \in Headers, NEW body \in Seq(Byte), Len(body) < 128 * 128 * 128
  PROVE  /\ Frame(h, body) \in Seq(Byte)
         /\ Len(Frame(h, body)) = 1 + Len(encode_length(Len(body))) + Len(body)
         /\ Frame(h, body)[1] = HeaderPack(h)
         /\ \A i \in 1 .. Len(encode_length(Len(body))) :
              Frame(h, body)[i + 1] = encode_length(Len(body))[i]
         /\ \A i \in 1 .. Len(body) :
              Frame(h, body)[1 + Len(encode_length(Len(body))) + i] = body[i]
<1> PICK a, c : a = <<HeaderPack(h)>> /\ c = encode_length(Len(body))  OBVIOUS
<1>1. a \in Seq(Byte) /\ Len(a) = 1 /\ a[1] = HeaderPack(h)  BY HeaderRoundTrip
<1>2. c \in Seq(Byte)
  <2>1. Len(body) \in Nat  OBVIOUS
  <2> QED BY <2>1, EncodeShape
<1> PICK ac : ac = a \o c  OBVIOUS
<1>3. /\ ac \in Seq(Byte) /\ Len(ac) = 1 + Len(c)
      /\ \A i \in 1 .. 1 + Len(c) : ac[i] = IF i <= 1 THEN a[i] ELSE c[i - 1]
  BY <1>1, <1>2, ConcatProperties
<1> PICK f : f = ac \o body  OBVIOUS
<1>4. /\ f \in Seq(Byte) /\ Len(f) = Len(ac) + Len(body)
      /\ \A i \in 1 .. Len(ac) + Len(body) :
           f[i] = IF i <= Len(ac) THEN ac[i] ELSE body[i - Len(ac)]
  BY <1>3, ConcatProperties
<1>5. f = Frame(h, body)  BY DEF Frame
<1> PICK n \in Nat, m \in Nat : n = Len(c) /\ m = Len(body)  BY <1>2
<1>6. Len(f) = 1 + n + m  BY <1>3, <1>4
<1>7. f[1] = HeaderPack(h)  BY <1>1, <1>3, <1>4
<1>8. \A i \in 1 .. n : f[i + 1] = c[i]
  <2> TAKE i \in 1 .. n
  <2>1. i + 1 \in 1 .. 1 + n + m /\ i + 1 \in 1 .. 1 + n /\ i + 1 <= 1 + n
        /\ ~(i + 1 <= 1) /\ (i + 1) - 1 = i
    OBVIOUS
  <2>2. f[i + 1] = ac[i + 1]  BY <1>3, <1>4, <2>1
  <2>3. ac[i + 1] = c[i]  BY <1>3, <2>1
  <2> QED BY <2>2, <2>3
<1>9. \A i \in 1 .. m : f[1 + n + i] = body[i]
  <2> TAKE i \in 1 .. m
  <2>1. /\ 1 + n + i \in 1 .. (1 + n) + m /\ ~(1 + n + i <= 1 + n)
        /\ (1 + n + i) - (1 + n) = i
    OBVIOUS
  <2> QED BY <1>3, <1>4, <2>1
<1> QED BY <1>4, <1>5, <1>6, <1>7, <1>8, <1>9

-----------------------------------------------------------------------------
(***************************************************************************)
(* What unpack says of the front of a buffer.                              *)
(***************************************************************************)
\* The types with a function are entries of the table that are not null.
LEMMA KindsHandled ==
  \A type \in 0 .. 15 :
    type \in Kinds <=> type \in DOMAIN unpack_handlers /\ unpack_handlers[type]
<1>1. DOMAIN unpack_handlers = 0 .. 10
      /\ \A type \in 0 .. 10 : unpack_handlers[type] = (type \notin {0, 2, 9})
  BY DEF unpack_handlers
<1>2. Kinds = {1, 3, 4, 5, 6, 7, 8, 10}
  BY DEF Kinds, CONNECT, PUBLISH, PUBREL, SUBSCRIBE, UNSUBSCRIBE
<1> SUFFICES ASSUME NEW type \in 0 .. 15
             PROVE  type \in Kinds
                    <=> type \in DOMAIN unpack_handlers /\ unpack_handlers[type]
  OBVIOUS
<1>3. CASE type > 10
  <2>1. type \notin 0 .. 10 /\ type \notin {1, 3, 4, 5, 6, 7, 8, 10}  BY <1>3
  <2> QED BY <1>1, <1>2, <2>1
<1>4. CASE type =< 10
  <2>1. type \in 0 .. 10 /\ (type \in {1, 3, 4, 5, 6, 7, 8, 10} <=> type \notin {0, 2, 9})
    BY <1>4
  <2> QED BY <1>1, <1>2, <2>1
<1> QED BY <1>3, <1>4

\* Any byte reads as a header.
LEMMA HeaderRead == \A byte \in Byte : HeaderUnpack(byte) \in Headers
<1> SUFFICES ASSUME NEW byte \in Byte PROVE HeaderUnpack(byte) \in Headers
  OBVIOUS
<1>1. byte \in Nat /\ byte < 256  BY ByteNat
<1>2. byte \div 16 \in 0 .. 15 /\ (byte \div 2) % 4 \in 0 .. 3  BY <1>1
<1>3. Flag(byte, 8) \in BOOLEAN /\ Flag(byte, 1) \in BOOLEAN  BY DEF Flag
<1> QED BY <1>2, <1>3 DEF HeaderUnpack, Header, Headers

\* A whole packet at the front is unpacked or refused, whatever lies behind it.
LEMMA FrontWhole ==
  ASSUME NEW h \in Headers, h.type \in Kinds,
         NEW body \in Seq(Byte), Len(body) < 128 * 128 * 128,
         NEW f, f = Frame(h, body), NEW q \in Seq(Byte), NEW past \in Byte,
         Len(f) =< Len(q), \A i \in 1 .. Len(f) : q[i] = f[i]
  PROVE  unpack(q, past) =
           IF Refused(h, body) THEN [rc |-> "error"]
           ELSE [rc |-> "ok", pkt_len |-> Len(f),
                 packet |-> [header |-> h, pkt |-> Body(h, body)]]
<1> PICK m \in Nat : m = Len(body)  OBVIOUS
<1> PICK c : c = encode_length(m)  OBVIOUS
<1>1. c \in Seq(Byte) /\ Len(c) \in 1 .. 3  BY EncodeShape
<1> PICK n \in 1 .. 3 : n = Len(c)  BY <1>1
<1>2. /\ Len(f) = 1 + n + m /\ f[1] = HeaderPack(h)
      /\ \A i \in 1 .. n : f[i + 1] = c[i]
      /\ \A i \in 1 .. m : f[1 + n + i] = body[i]
  <2>1. /\ Len(f) = 1 + Len(c) + Len(body) /\ f[1] = HeaderPack(h)
        /\ \A i \in 1 .. Len(c) : f[i + 1] = c[i]
        /\ \A i \in 1 .. Len(body) : f[1 + Len(c) + i] = body[i]
    BY FrameBytes
  <2> QED BY <2>1
<1> PICK k \in Nat : k = Len(q)  OBVIOUS
<1>3. 1 + n + m =< k /\ \A i \in 1 .. 1 + n + m : q[i] = f[i]  BY <1>2
<1>4. q[1] = HeaderPack(h)  BY <1>2, <1>3
<1>5. \A i \in 1 .. n : q[i + 1] = c[i]  BY <1>2, <1>3
<1>6. is_partial(q, past) = [rc |-> "read", len |-> m, n |-> n]
  <2>1. Len(q) > Len(encode_length(m))  BY <1>3
  <2>2. is_partial(q, past) =
          IF 1 + Len(encode_length(m)) + m > Len(q) THEN [rc |-> "partial"]
          ELSE [rc |-> "read", len |-> m, n |-> Len(encode_length(m))]
    BY <1>5, <2>1, LengthRead
  <2> QED BY <1>3, <2>2
<1>7. HeaderUnpack(q[1]) = h  BY <1>4, HeaderRoundTrip
<1>8. SubSeq(q, 2 + n, 1 + n + m) = body
  <2> PICK s : s = SubSeq(q, 2 + n, 1 + n + m)  OBVIOUS
  <2>1. \A i \in 2 + n .. 1 + n + m : q[i] \in Byte
    <3>1. \A i \in 2 + n .. 1 + n + m : i \in 1 .. Len(q)  BY <1>3
    <3> QED BY <3>1
  <2>2. /\ s \in Seq(Byte)
        /\ Len(s) = IF 2 + n <= 1 + n + m THEN 1 + n + m - (2 + n) + 1 ELSE 0
        /\ \A i \in 1 .. 1 + n + m - (2 + n) + 1 : s[i] = q[2 + n + i - 1]
    BY <2>1, SubSeqProperties
  <2>3. /\ 1 + n + m - (2 + n) + 1 = m
        /\ (2 + n <= 1 + n + m) = (m > 0)
    OBVIOUS
  <2>4. Len(s) = m  BY <2>2, <2>3
  <2>5. \A i \in 1 .. m : s[i] = body[i]
    <3> TAKE i \in 1 .. m
    <3>1. 2 + n + i - 1 = 1 + n + i /\ 1 + n + i \in 1 .. 1 + n + m  OBVIOUS
    <3>2. s[i] = q[2 + n + i - 1]  BY <2>2, <2>3
    <3>3. q[1 + n + i] = f[1 + n + i]  BY <1>3, <3>1
    <3> QED BY <1>2, <3>1, <3>2, <3>3
  <2> QED BY <2>2, <2>4, <2>5, SeqEqual
<1> PICK length : length = is_partial(q, past)  OBVIOUS
<1>9. length.rc = "read" /\ length.len = m /\ length.n = n  BY <1>6
<1>10. PktLen(length) = Len(f)  BY <1>2, <1>9 DEF PktLen
<1>11. SubSeq(q, 2 + length.n, 1 + length.n + length.len) = body
  BY <1>8, <1>9
<1>12. h.type \in DOMAIN unpack_handlers /\ unpack_handlers[h.type]
  BY KindsHandled DEF Headers
<1> QED BY <1>7, <1>9, <1>10, <1>11, <1>12 DEF unpack

\* A part of it is partial, whatever lies behind the end of the buffer.
LEMMA FrontCut ==
  ASSUME NEW h \in Headers, h.type \in Kinds,
         NEW body \in Seq(Byte), Len(body) < 128 * 128 * 128,
         NEW f, f = Frame(h, body), NEW q \in Seq(Byte), NEW past \in Byte,
         q # <<>>, Len(q) < Len(f), \A i \in 1 .. Len(q) : q[i] = f[i]
  PROVE  unpack(q, past) = [rc |-> "partial"]
<1> PICK m \in Nat : m = Len(body)  OBVIOUS
<1> PICK c : c = encode_length(m)  OBVIOUS
<1>1. /\ c \in Seq(Byte) /\ Len(c) \in 1 .. 3
      /\ \A i \in 1 .. Len(c) - 1 : c[i] >= 128
  BY EncodeShape
<1> PICK n \in 1 .. 3 : n = Len(c)  BY <1>1
<1>2. /\ Len(f) = 1 + n + m /\ f[1] = HeaderPack(h)
      /\ \A i \in 1 .. n : f[i + 1] = c[i]
  <2>1. /\ Len(f) = 1 + Len(c) + Len(body) /\ f[1] = HeaderPack(h)
        /\ \A i \in 1 .. Len(c) : f[i + 1] = c[i]
    BY FrameBytes
  <2> QED BY <2>1
<1> PICK k \in Nat : k = Len(q)  OBVIOUS
<1>3. k >= 1 /\ k < 1 + n + m /\ \A i \in 1 .. k : q[i] = f[i]
  BY <1>2, EmptySeq
<1>4. is_partial(q, past).rc = "partial"
  <2>1. CASE k > n
    <3>1. \A i \in 1 .. n : q[i + 1] = c[i]  BY <1>2, <1>3, <2>1
    <3>2. Len(q) > Len(encode_length(m))  BY <2>1
    <3>3. is_partial(q, past) =
            IF 1 + Len(encode_length(m)) + m > Len(q) THEN [rc |-> "partial"]
            ELSE [rc |-> "read", len |-> m, n |-> Len(encode_length(m))]
      BY <3>1, <3>2, LengthRead
    <3> QED BY <1>3, <3>3
  <2>2. CASE k =< n
    <3>1. \A i \in 2 .. k : q[i] >= 128
      <4> TAKE i \in 2 .. k
      <4>1. i - 1 \in 1 .. n - 1 /\ i - 1 \in 1 .. n /\ (i - 1) + 1 = i
            /\ i \in 1 .. k
        BY <2>2
      <4>2. c[i - 1] >= 128  BY <1>1, <4>1
      <4>3. q[i] = c[i - 1]  BY <1>2, <1>3, <4>1
      <4> QED BY <4>2, <4>3
    <3>2. Len(q) \in 1 .. 3  BY <1>3, <2>2
    <3> QED BY <3>1, <3>2, CutLength
  <2> QED BY <2>1, <2>2
<1>5. HeaderUnpack(q[1]) = h  BY <1>2, <1>3, HeaderRoundTrip
<1>6. h.type \in DOMAIN unpack_handlers /\ unpack_handlers[h.type]
  BY KindsHandled DEF Headers
<1> QED BY <1>4, <1>5, <1>6 DEF unpack

\* What is foreign or too long is never unpacked, and only the foreign is refused.
LEMMA FrontMute ==
  ASSUME NEW p, p.bytes \in Seq(Byte), p.bytes # <<>>, Foreign(p) \/ Long(p),
         NEW q \in Seq(Byte), q # <<>>, NEW past \in Byte,
         \A i \in 1 .. Len(q) : i =< Len(p.bytes) => q[i] = p.bytes[i]
  PROVE  /\ unpack(q, past).rc # "ok"
         /\ unpack(q, past).rc \in Refusals => Foreign(p)
<1> PICK f : f = p.bytes  OBVIOUS
<1> PICK k \in Nat, m \in Nat : k = Len(q) /\ m = Len(f)  OBVIOUS
<1>1. k >= 1 /\ m >= 1  BY EmptySeq
<1>2. q[1] = f[1]  BY <1>1
<1> PICK type : type = HeaderUnpack(f[1]).type  OBVIOUS
<1>5. type \in 0 .. 15
  <2>1. f[1] \in Byte  BY <1>1
  <2> QED BY <2>1, HeaderRead DEF Headers
<1>3. CASE type \notin Kinds
  <2>1. ~(type \in DOMAIN unpack_handlers /\ unpack_handlers[type])
    BY <1>3, <1>5, KindsHandled
  <2>2. unpack(q, past) \in {[rc |-> "error"], [rc |-> "undefined"]}
    BY <1>2, <2>1 DEF unpack
  <2> QED BY <1>3, <2>2 DEF Foreign
<1>4. CASE type \in Kinds
  <2>1. m >= 4 /\ \A i \in 2 .. 4 : f[i] >= 128  BY <1>4 DEF Foreign, Long
  <2>2. \A i \in 2 .. 4 : i =< k => q[i] >= 128  BY <2>1
  <2>3. is_partial(q, past).rc \in {"partial", "throws"}
    <3>1. CASE k =< 3
      <4>1. \A i \in 2 .. k : q[i] >= 128  BY <2>2, <3>1
      <4>2. Len(q) \in 1 .. 3  BY <1>1, <3>1
      <4> QED BY <4>1, <4>2, CutLength
    <3>2. CASE k > 3
      <4> PICK b : b = Remaining(q, past)  OBVIOUS
      <4>1. /\ b \in Seq(Byte) /\ Len(b) = Len(q)
            /\ \A i \in 1 .. Len(q) - 1 : b[i] = q[i + 1]
        BY RemainingBytes
      <4>2. \A i \in 1 .. 3 : i =< Len(b) => b[i] >= 128  BY <2>2, <3>2, <4>1
      <4>3. decode_length(b) =
              [rc |-> IF Len(b) > 3 THEN "throws" ELSE "partial"]
        BY <4>1, <4>2, DecodeOn
      <4> QED BY <3>2, <4>1, <4>3 DEF is_partial
    <3> QED BY <3>1, <3>2
  <2>4. type \in DOMAIN unpack_handlers /\ unpack_handlers[type]
    BY <1>4, <1>5, KindsHandled
  <2>5. unpack(q, past) = [rc |-> is_partial(q, past).rc]
    BY <1>2, <2>3, <2>4 DEF unpack
  <2> QED BY <2>3, <2>5 DEF Refusals
<1> QED BY <1>3, <1>4

\* What an unpacker refuses is never unpacked.
LEMMA FrontWrong ==
  ASSUME NEW p, p.bytes \in Seq(Byte), p.bytes # <<>>, Wrong(p),
         NEW q \in Seq(Byte), q # <<>>, NEW past \in Byte,
         \A i \in 1 .. Len(q) : i =< Len(p.bytes) => q[i] = p.bytes[i]
  PROVE  unpack(q, past).rc # "ok"
<1> PICK h : h = HeaderUnpack(p.bytes[1])  OBVIOUS
<1> PICK f : f = p.bytes  OBVIOUS
<1>1. h \in Headers
  <2>1. p.bytes[1] \in Byte  BY EmptySeq
  <2> QED BY <2>1, HeaderRead
<1>2. PICK k \in 3 .. 5 : /\ h.type \in Kinds /\ f = Frame(h, From(f, k))
                          /\ Len(From(f, k)) < 128 * 128 * 128
                          /\ Refused(h, From(f, k))
  BY DEF Wrong
<1> PICK body : body = From(f, k)  OBVIOUS
<1>3. body \in Seq(Byte)
  <2>1. \A i \in k .. Len(f) : i \in 1 .. Len(f)  OBVIOUS
  <2>2. \A i \in k .. Len(f) : f[i] \in Byte  BY <2>1
  <2>3. SubSeq(f, k, Len(f)) \in Seq(Byte)  BY <2>2, SubSeqProperties
  <2> QED BY <2>3 DEF From
<1>4. /\ h.type \in Kinds /\ f = Frame(h, body) /\ Len(body) < 128 * 128 * 128
      /\ Refused(h, body)
  BY <1>2
<1>5. CASE Len(f) =< Len(q)
  <2>1. \A i \in 1 .. Len(f) : q[i] = f[i]
    <3>1. \A i \in 1 .. Len(f) : i \in 1 .. Len(q)  BY <1>5
    <3> QED BY <3>1
  <2>2. unpack(q, past) = [rc |-> "error"]
    BY <1>1, <1>3, <1>4, <1>5, <2>1, FrontWhole
  <2> QED BY <2>2
<1>6. CASE Len(q) < Len(f)
  <2>1. \A i \in 1 .. Len(q) : q[i] = f[i]
    <3>1. \A i \in 1 .. Len(q) : i =< Len(f)  BY <1>6
    <3> QED BY <3>1
  <2>2. unpack(q, past) = [rc |-> "partial"]
    BY <1>1, <1>3, <1>4, <1>6, <2>1, FrontCut
  <2> QED BY <2>2
<1> QED BY <1>5, <1>6

\* The front of the buffer, for any packet of the assumption
LEMMA PacketFront ==
  ASSUME NEW p \in Packet, NEW q \in Seq(Byte), q # <<>>, NEW past \in Byte,
         \A i \in 1 .. Len(q) : i =< Len(p.bytes) => q[i] = p.bytes[i]
  PROVE  /\ unpack(q, past).rc = "ok" =>
              /\ p.says # None /\ Len(p.bytes) =< Len(q)
              /\ unpack(q, past).pkt_len = Len(p.bytes)
              /\ unpack(q, past).packet = p.says
         /\ unpack(q, past).rc \in Refusals =>
              p.says = None /\ (Foreign(p) \/ Wrong(p))
         /\ p.says # None /\ Len(p.bytes) =< Len(q) => unpack(q, past).rc = "ok"
<1>1. /\ p.bytes \in Seq(Byte) /\ p.bytes # <<>>
      /\ p.says = None => Foreign(p) \/ Wrong(p) \/ Long(p)
      /\ p.says # None => Spoken(p)
  BY ReceiveAssumption
<1>2. CASE p.says = None
  <2>1. unpack(q, past).rc # "ok"  BY <1>1, <1>2, FrontMute, FrontWrong
  <2>2. unpack(q, past).rc \in Refusals => Foreign(p) \/ Wrong(p)
    BY <1>1, <1>2, FrontMute
  <2> QED BY <1>2, <2>1, <2>2
<1>3. CASE p.says # None
  <2>1. Spoken(p)  BY <1>1, <1>3
  <2> PICK h : h = p.says.header  OBVIOUS
  <2>2. h \in Headers /\ h.type \in Kinds  BY <2>1 DEF Spoken
  <2>4. \E k \in 3 .. 5 :
          /\ p.bytes = Frame(h, From(p.bytes, k))
          /\ Len(From(p.bytes, k)) < 128 * 128 * 128
          /\ ~Refused(h, From(p.bytes, k))
          /\ p.says = [header |-> h, pkt |-> Body(h, From(p.bytes, k))]
    BY <2>1 DEF Spoken
  <2> PICK k \in 3 .. 5 : \E body :
        /\ body = From(p.bytes, k) /\ p.bytes = Frame(h, body)
        /\ Len(body) < 128 * 128 * 128 /\ ~Refused(h, body)
        /\ p.says = [header |-> h, pkt |-> Body(h, body)]
    BY <2>4
  <2> PICK body :
        /\ body = From(p.bytes, k) /\ p.bytes = Frame(h, body)
        /\ Len(body) < 128 * 128 * 128 /\ ~Refused(h, body)
        /\ p.says = [header |-> h, pkt |-> Body(h, body)]
    OBVIOUS
  <2>5. body \in Seq(Byte)
    <3>1. \A i \in k .. Len(p.bytes) : p.bytes[i] \in Byte
      <4>1. \A i \in k .. Len(p.bytes) : i \in 1 .. Len(p.bytes)  OBVIOUS
      <4> QED BY <1>1, <4>1
    <3>2. Len(p.bytes) \in Int  BY <1>1
    <3>3. SubSeq(p.bytes, k, Len(p.bytes)) \in Seq(Byte)
      BY <3>1, <3>2, SubSeqProperties
    <3> QED BY <3>3 DEF From
  <2> PICK f : f = p.bytes  OBVIOUS
  <2> PICK pkt : pkt = [header |-> h, pkt |-> Body(h, body)]  OBVIOUS
  <2>6. /\ f \in Seq(Byte) /\ f = Frame(h, body) /\ p.says = pkt
        /\ \A i \in 1 .. Len(q) : i =< Len(f) => q[i] = f[i]
    BY <1>1
  <2>7. CASE Len(f) =< Len(q)
    <3>1. \A i \in 1 .. Len(f) : q[i] = f[i]
      <4>1. \A i \in 1 .. Len(f) : i \in 1 .. Len(q)  BY <2>6, <2>7
      <4> QED BY <2>6, <4>1
    <3>3. unpack(q, past) =
            IF Refused(h, body) THEN [rc |-> "error"]
            ELSE [rc |-> "ok", pkt_len |-> Len(f),
                  packet |-> [header |-> h, pkt |-> Body(h, body)]]
      BY <2>2, <2>5, <2>6, <2>7, <3>1, FrontWhole
    <3>2. unpack(q, past) = [rc |-> "ok", pkt_len |-> Len(f), packet |-> pkt]
      BY <3>3
    <3> QED BY <1>3, <2>6, <2>7, <3>2 DEF Refusals
  <2>8. CASE ~(Len(f) =< Len(q))
    <3>1. Len(q) < Len(f)  BY <2>6, <2>8
    <3>2. \A i \in 1 .. Len(q) : q[i] = f[i]
      <4>1. \A i \in 1 .. Len(q) : i =< Len(f)  BY <2>6, <3>1
      <4> QED BY <2>6, <4>1
    <3>3. unpack(q, past) = [rc |-> "partial"]
      BY <2>2, <2>5, <2>6, <3>1, <3>2, FrontCut
    <3> QED BY <2>8, <3>3 DEF Refusals
  <2> QED BY <2>7, <2>8
<1> QED BY <1>2, <1>3

-----------------------------------------------------------------------------
\* Start, Written and Buffered of any stream
StartOf(en, i) == IF i = 1 THEN 0 ELSE en[i - 1]

IsWritten(sn, en, st) ==
  /\ Len(en) = Len(sn) /\ StartOf(en, Len(sn) + 1) = Len(st)
  /\ \A i \in 1 .. Len(sn) :
       /\ en[i] = StartOf(en, i) + Len(sn[i].bytes) /\ en[i] =< Len(st)
       /\ \A j \in 1 .. Len(sn[i].bytes) : st[StartOf(en, i) + j] = sn[i].bytes[j]

IsBuffered(en, st, rd, buff, n) ==
  /\ StartOf(en, n + 1) + Len(buff) = rd
  /\ \A j \in 1 .. Len(buff) : buff[j] = st[StartOf(en, n + 1) + j]

LEMMA PacketBytes == \A p \in Packet : p.bytes \in Seq(Byte) /\ p.bytes # <<>>
BY ReceiveAssumption

LEMMA StartNat ==
  ASSUME NEW en \in Seq(Nat), NEW i \in 1 .. Len(en) + 1
  PROVE  StartOf(en, i) \in Nat
<1>1. i # 1 => i - 1 \in 1 .. Len(en)  OBVIOUS
<1> QED BY <1>1 DEF StartOf

LEMMA Between ==
  ASSUME NEW s \in Nat, NEW k \in Nat, NEW l \in Nat, s + k =< l, NEW j \in 1 .. k
  PROVE  s + j \in 1 .. l
OBVIOUS

LEMMA LastOrBefore ==
  ASSUME NEW n \in Nat, NEW i \in 1 .. n + 1
  PROVE  i = n + 1 \/ i \in 1 .. n
OBVIOUS

\* The stream with p written behind it
Longer(st, p) == st \o p.bytes
Ended(en, st, p) == Append(en, Len(Longer(st, p)))

\* Written holds with another packet behind.
LEMMA WriteOne ==
  ASSUME NEW sn \in Seq(Packet), NEW en \in Seq(Nat), NEW st \in Seq(Byte),
         IsWritten(sn, en, st), NEW p \in Packet
  PROVE  /\ Longer(st, p) \in Seq(Byte) /\ Len(Longer(st, p)) >= Len(st)
         /\ Ended(en, st, p) \in Seq(Nat)
         /\ IsWritten(Append(sn, p), Ended(en, st, p), Longer(st, p))
         /\ \A i \in 1 .. Len(sn) + 1 :
              StartOf(Ended(en, st, p), i) = StartOf(en, i)
         /\ \A j \in 1 .. Len(st) : Longer(st, p)[j] = st[j]
<1> DEFINE st2 == Longer(st, p)
           en2 == Ended(en, st, p)
<1> HIDE DEF st2, en2
<1> PICK b : b = p.bytes  OBVIOUS
<1> PICK n \in Nat, l \in Nat, m \in Nat : n = Len(sn) /\ l = Len(st) /\ m = Len(b)
  BY PacketBytes
<1>1. /\ st2 \in Seq(Byte) /\ Len(st2) = l + m
      /\ \A i \in 1 .. l + m : st2[i] = IF i <= l THEN st[i] ELSE b[i - l]
  BY PacketBytes, ConcatProperties DEF Longer, st2
<1>2. Len(en) = n /\ StartOf(en, n + 1) = l  BY DEF IsWritten
<1>3. /\ en2 \in Seq(Nat) /\ Len(en2) = n + 1 /\ en2[n + 1] = l + m
      /\ \A i \in 1 .. n : en2[i] = en[i]
  BY <1>1, <1>2, AppendProperties DEF Ended, en2, st2
<1> PICK s2 : s2 = Append(sn, p)  OBVIOUS
<1>4. /\ s2 \in Seq(Packet) /\ Len(s2) = n + 1 /\ s2[n + 1] = p
      /\ \A i \in 1 .. n : s2[i] = sn[i]
  BY AppendProperties
<1>5. \A i \in 1 .. n + 1 : StartOf(en2, i) = StartOf(en, i)
  <2> TAKE i \in 1 .. n + 1
  <2>1. i # 1 => i - 1 \in 1 .. n  OBVIOUS
  <2> QED BY <1>3, <2>1 DEF StartOf
<1>6. \A j \in 1 .. l : st2[j] = st[j]  BY <1>1
<1>7. StartOf(en2, (n + 1) + 1) = l + m
  <2>1. (n + 1) + 1 # 1 /\ ((n + 1) + 1) - 1 = n + 1  OBVIOUS
  <2> QED BY <1>3, <2>1 DEF StartOf
<1>8. ASSUME NEW i \in 1 .. n + 1
      PROVE  /\ en2[i] = StartOf(en2, i) + Len(s2[i].bytes) /\ en2[i] =< l + m
             /\ \A j \in 1 .. Len(s2[i].bytes) :
                  st2[StartOf(en2, i) + j] = s2[i].bytes[j]
  <2>1. CASE i = n + 1
    <3>1. StartOf(en2, i) = l /\ s2[i].bytes = b /\ en2[i] = l + m
      BY <1>2, <1>3, <1>4, <1>5, <2>1
    <3>2. \A j \in 1 .. m : st2[l + j] = b[j]
      <4> TAKE j \in 1 .. m
      <4>1. l + j \in 1 .. l + m /\ ~(l + j <= l) /\ (l + j) - l = j  OBVIOUS
      <4> QED BY <1>1, <4>1
    <3>3. Len(s2[i].bytes) = m  BY <3>1
    <3>4. \A j \in 1 .. Len(s2[i].bytes) :
            st2[StartOf(en2, i) + j] = s2[i].bytes[j]
      BY <3>1, <3>2, <3>3
    <3>5. en2[i] = StartOf(en2, i) + Len(s2[i].bytes) /\ en2[i] =< l + m
      BY <3>1, <3>3
    <3> QED BY <3>4, <3>5, Zenon
  <2>2. CASE i \in 1 .. n
    <3> PICK s, k : s = StartOf(en, i) /\ k = Len(sn[i].bytes)  OBVIOUS
    <3>1. /\ en[i] = s + k /\ en[i] =< l
          /\ \A j \in 1 .. k : st[s + j] = sn[i].bytes[j]
      BY <2>2 DEF IsWritten
    <3>2. s \in Nat
      <4>1. i \in 1 .. Len(en) + 1  BY <1>2
      <4> QED BY <4>1, StartNat
    <3>3. k \in Nat
      <4>1. sn[i] \in Packet  BY <2>2
      <4> QED BY <4>1, PacketBytes
    <3>4. StartOf(en2, i) = s /\ s2[i] = sn[i] /\ en2[i] = en[i]
      BY <1>3, <1>4, <1>5, <2>2
    <3>5. \A j \in 1 .. k : st2[s + j] = st[s + j]
      <4>1. \A j \in 1 .. k : s + j \in 1 .. l
        <5>1. s + k =< l  BY <3>1
        <5> QED BY <3>2, <3>3, <5>1, Between
      <4> QED BY <1>6, <4>1
    <3>6. en2[i] = s + k /\ s + k =< l + m
      <4>1. s + k =< l /\ en2[i] = s + k  BY <3>1, <3>4
      <4>2. s + k \in Nat  BY <3>2, <3>3
      <4>3. \A x \in Nat : x =< l => x =< l + m  OBVIOUS
      <4> QED BY <4>1, <4>2, <4>3
    <3>7. Len(s2[i].bytes) = k  BY <3>4
    <3>8. en2[i] = StartOf(en2, i) + Len(s2[i].bytes) /\ en2[i] =< l + m
      BY <3>4, <3>6, <3>7
    <3>9. \A j \in 1 .. Len(s2[i].bytes) :
            st2[StartOf(en2, i) + j] = s2[i].bytes[j]
      BY <3>1, <3>4, <3>5, <3>7
    <3> QED BY <3>8, <3>9, Zenon
  <2>3. i = n + 1 \/ i \in 1 .. n  BY LastOrBefore
  <2> QED BY <2>1, <2>2, <2>3
<1>9. IsWritten(s2, en2, st2)
  <2>1. Len(en2) = Len(s2) /\ Len(s2) = n + 1 /\ Len(st2) = l + m
    BY <1>1, <1>3, <1>4
  <2>2. StartOf(en2, Len(s2) + 1) = Len(st2)  BY <1>7, <2>1
  <2>3. \A i \in 1 .. Len(s2) :
          /\ en2[i] = StartOf(en2, i) + Len(s2[i].bytes) /\ en2[i] =< Len(st2)
          /\ \A j \in 1 .. Len(s2[i].bytes) :
               st2[StartOf(en2, i) + j] = s2[i].bytes[j]
    <3> TAKE i \in 1 .. Len(s2)
    <3>1. i \in 1 .. n + 1  BY <2>1
    <3>2. /\ en2[i] = StartOf(en2, i) + Len(s2[i].bytes) /\ en2[i] =< l + m
          /\ \A j \in 1 .. Len(s2[i].bytes) :
               st2[StartOf(en2, i) + j] = s2[i].bytes[j]
      BY <1>8, <3>1
    <3> QED BY <2>1, <3>2
  <2> QED BY <2>1, <2>2, <2>3, Zenon DEF IsWritten
<1>10. Len(st2) >= Len(st)  BY <1>1
<1> QED BY <1>1, <1>3, <1>5, <1>6, <1>9, <1>10 DEF st2, en2

\* What is written behind it does not disturb the buffer.
LEMMA KeepBuffered ==
  ASSUME NEW en \in Seq(Nat), NEW st \in Seq(Byte), NEW rd \in Nat, rd =< Len(st),
         NEW buff \in Seq(Byte), NEW n \in Nat, n =< Len(en),
         IsBuffered(en, st, rd, buff, n),
         NEW en2, StartOf(en2, n + 1) = StartOf(en, n + 1),
         NEW st2, \A j \in 1 .. Len(st) : st2[j] = st[j]
  PROVE  IsBuffered(en2, st2, rd, buff, n)
<1>0. n + 1 \in 1 .. Len(en) + 1  OBVIOUS
<1>a. PICK s \in Nat : s = StartOf(en, n + 1)  BY <1>0, StartNat
<1>b. PICK k \in Nat, l \in Nat : k = Len(buff) /\ l = Len(st)  OBVIOUS
<1>1. s + k = rd /\ rd =< l /\ \A j \in 1 .. k : buff[j] = st[s + j]
  BY <1>a, <1>b DEF IsBuffered
<1>2. \A j \in 1 .. k : s + j \in 1 .. l
  <2>1. s + k =< l  BY <1>1
  <2> QED BY <2>1, Between
<1>3. \A j \in 1 .. k : st2[s + j] = st[s + j]  BY <1>b, <1>2
<1>4. StartOf(en2, n + 1) = s  BY <1>a
<1> QED BY <1>b, <1>1, <1>3, <1>4 DEF IsBuffered

\* A part of a sequence of bytes
LEMMA Part ==
  ASSUME NEW q \in Seq(Byte), NEW a \in Nat, NEW m \in Nat, a + m =< Len(q)
  PROVE  /\ SubSeq(q, a + 1, a + m) \in Seq(Byte)
         /\ Len(SubSeq(q, a + 1, a + m)) = m
         /\ \A i \in 1 .. m : SubSeq(q, a + 1, a + m)[i] = q[a + i]
<1>1. \A i \in a + 1 .. a + m : q[i] \in Byte
  <2>1. \A i \in a + 1 .. a + m : i \in 1 .. Len(q)  OBVIOUS
  <2> QED BY <2>1
<1> DEFINE b == SubSeq(q, a + 1, a + m)
<1>2. /\ b \in Seq(Byte)
      /\ Len(b) = IF a + 1 <= a + m THEN a + m - (a + 1) + 1 ELSE 0
      /\ \A i \in 1 .. a + m - (a + 1) + 1 : b[i] = q[a + 1 + i - 1]
  BY <1>1, SubSeqProperties
<1> HIDE DEF b
<1>3. a + m - (a + 1) + 1 = m  OBVIOUS
<1>4. \A i \in 1 .. m : a + 1 + i - 1 = a + i  OBVIOUS
<1>5. Len(b) = m
  <2>1. CASE m = 0
    <3>1. ~(a + 1 <= a + m)  BY <2>1
    <3> QED BY <1>2, <2>1, <3>1
  <2>2. CASE m # 0
    <3>1. a + 1 <= a + m  BY <2>2
    <3> QED BY <1>2, <1>3, <3>1
  <2> QED BY <2>1, <2>2
<1>6. \A i \in 1 .. m : b[i] = q[a + i]
  <2> TAKE i \in 1 .. m
  <2>1. b[i] = q[a + 1 + i - 1]  BY <1>2, <1>3
  <2> QED BY <1>4, <2>1
<1> QED BY <1>2, <1>5, <1>6 DEF b

Joined(s, t) == s \o t

\* The part in front and the part behind of a concatenation
LEMMA JoinedParts ==
  ASSUME NEW s \in Seq(Byte), NEW t \in Seq(Byte)
  PROVE  /\ Joined(s, t) \in Seq(Byte) /\ Len(Joined(s, t)) = Len(s) + Len(t)
         /\ \A i \in 1 .. Len(s) : Joined(s, t)[i] = s[i]
         /\ From(Joined(s, t), Len(s) + 1) = t
<1>1. PICK k \in Nat, m \in Nat : k = Len(s) /\ m = Len(t)  OBVIOUS
<1> DEFINE j == Joined(s, t)
           b == SubSeq(j, k + 1, k + m)
<1>2. /\ j \in Seq(Byte) /\ Len(j) = k + m
      /\ \A i \in 1 .. k + m : j[i] = IF i <= k THEN s[i] ELSE t[i - k]
  BY <1>1, ConcatProperties DEF Joined
<1> HIDE DEF j, b
<1>3. \A i \in 1 .. k : j[i] = s[i]  BY <1>2
<1>4. b \in Seq(Byte) /\ Len(b) = m /\ \A i \in 1 .. m : b[i] = j[k + i]
  BY <1>2, Part DEF b
<1>5. \A i \in 1 .. m : b[i] = t[i]
  <2> TAKE i \in 1 .. m
  <2>1. k + i \in 1 .. k + m /\ ~(k + i <= k) /\ (k + i) - k = i  OBVIOUS
  <2>2. j[k + i] = t[i]  BY <1>2, <2>1
  <2> QED BY <1>4, <2>2
<1>6. b = t  BY <1>1, <1>4, <1>5, SeqEqual
<1>7. From(j, k + 1) = b  BY <1>2 DEF From, b
<1> QED BY <1>1, <1>2, <1>3, <1>6, <1>7 DEF j

LEMMA Behind ==
  ASSUME NEW k \in Nat, NEW m \in Nat, NEW s \in Nat, NEW j \in 1 .. k + m, ~(j <= k)
  PROVE  j - k \in 1 .. m /\ (s + k) + (j - k) = s + j
OBVIOUS

\* The buffer with the next m bytes of the stream
LEMMA ReadMore ==
  ASSUME NEW en \in Seq(Nat), NEW st \in Seq(Byte), NEW rd \in Nat, rd =< Len(st),
         NEW buff \in Seq(Byte), NEW n \in Nat, n =< Len(en),
         IsBuffered(en, st, rd, buff, n), NEW m \in Nat, rd + m =< Len(st)
  PROVE  /\ buff \o SubSeq(st, rd + 1, rd + m) \in Seq(Byte)
         /\ Len(buff \o SubSeq(st, rd + 1, rd + m)) >= Len(buff)
         /\ IsBuffered(en, st, rd + m, buff \o SubSeq(st, rd + 1, rd + m), n)
<1>0. n + 1 \in 1 .. Len(en) + 1  OBVIOUS
<1>a. PICK s \in Nat : s = StartOf(en, n + 1)  BY <1>0, StartNat
<1>b. PICK k \in Nat, l \in Nat : k = Len(buff) /\ l = Len(st)  OBVIOUS
<1> DEFINE new == SubSeq(st, rd + 1, rd + m)
           buff2 == buff \o new
<1> HIDE DEF new, buff2
<1>1. s + k = rd /\ rd + m =< l /\ \A j \in 1 .. k : buff[j] = st[s + j]
  BY <1>a, <1>b DEF IsBuffered
<1>2. /\ new \in Seq(Byte) /\ Len(new) = m
      /\ \A i \in 1 .. m : new[i] = st[rd + i]
  <2>1. rd \in Nat /\ rd + m =< Len(st)  OBVIOUS
  <2> QED BY <2>1, Part DEF new
<1>3. /\ buff2 \in Seq(Byte) /\ Len(buff2) = k + m
      /\ \A i \in 1 .. k + m :
           buff2[i] = IF i <= k THEN buff[i] ELSE new[i - k]
  <2>1. /\ buff2 \in Seq(Byte) /\ Len(buff2) = Len(buff) + Len(new)
        /\ \A i \in 1 .. Len(buff) + Len(new) :
             buff2[i] = IF i <= Len(buff) THEN buff[i] ELSE new[i - Len(buff)]
    BY <1>2, ConcatProperties DEF buff2
  <2>2. Len(buff) = k /\ Len(new) = m  BY <1>b, <1>2
  <2> QED BY <2>1, <2>2
<1>4. s + (k + m) = rd + m
  <2>1. s + k = rd  BY <1>1
  <2> QED BY <2>1
<1>5. \A j \in 1 .. k + m : buff2[j] = st[s + j]
  <2> TAKE j \in 1 .. k + m
  <2>1. CASE j <= k
    <3>1. j \in 1 .. k  BY <2>1
    <3> QED BY <1>1, <1>3, <2>1, <3>1
  <2>2. CASE ~(j <= k)
    <3>1. j - k \in 1 .. m /\ rd + (j - k) = s + j
      <4>1. s + k = rd  BY <1>1
      <4> QED BY <2>2, <4>1, Behind
    <3>2. buff2[j] = new[j - k]  BY <1>3, <2>2
    <3>3. new[j - k] = st[rd + (j - k)]  BY <1>2, <3>1
    <3> QED BY <3>1, <3>2, <3>3
  <2> QED BY <2>1, <2>2
<1>6. Len(buff2) >= Len(buff)  BY <1>b, <1>3
<1>7. IsBuffered(en, st, rd + m, buff2, n)
  BY <1>a, <1>3, <1>4, <1>5 DEF IsBuffered
<1> QED BY <1>3, <1>6, <1>7 DEF buff2, new

\* The buffer without the packet at its front
LEMMA EraseOne ==
  ASSUME NEW sn \in Seq(Packet), NEW en \in Seq(Nat), NEW st \in Seq(Byte),
         IsWritten(sn, en, st), NEW rd \in Nat, rd =< Len(st),
         NEW buff \in Seq(Byte), NEW n \in Nat, n < Len(sn),
         IsBuffered(en, st, rd, buff, n),
         Len(sn[n + 1].bytes) =< Len(buff)
  PROVE  /\ From(buff, Len(sn[n + 1].bytes) + 1) \in Seq(Byte)
         /\ IsBuffered(en, st, rd, From(buff, Len(sn[n + 1].bytes) + 1), n + 1)
<1>1. n + 1 \in 1 .. Len(sn) /\ Len(en) = Len(sn)  BY DEF IsWritten
<1>2. PICK m \in Nat : m = Len(sn[n + 1].bytes)
  <2>1. sn[n + 1] \in Packet  BY <1>1
  <2> QED BY <2>1, PacketBytes
<1>0. n + 1 \in 1 .. Len(en) + 1  BY <1>1
<1>a. PICK s \in Nat : s = StartOf(en, n + 1)  BY <1>0, StartNat
<1>b. PICK k \in Nat : k = Len(buff)  OBVIOUS
<1>3. s + k = rd /\ \A j \in 1 .. k : buff[j] = st[s + j]
  BY <1>a, <1>b DEF IsBuffered
<1>c. m =< k  BY <1>b, <1>2
<1>4. StartOf(en, (n + 1) + 1) = s + m
  <2>1. en[n + 1] = s + m  BY <1>a, <1>1, <1>2 DEF IsWritten
  <2>2. (n + 1) + 1 # 1 /\ ((n + 1) + 1) - 1 = n + 1  OBVIOUS
  <2> QED BY <2>1, <2>2 DEF StartOf
<1> DEFINE b == From(buff, m + 1)
<1> HIDE DEF b
<1>5. /\ b \in Seq(Byte) /\ Len(b) = k - m
      /\ \A i \in 1 .. k - m : b[i] = buff[m + i]
  <2>0. k - m \in Nat  BY <1>c
  <2>1. PICK r \in Nat : r = k - m  BY <2>0
  <2>2. m + r = k  BY <2>1
  <2>3. b = SubSeq(buff, m + 1, m + r)  BY <1>b, <2>2 DEF From, b
  <2>4. m + r =< Len(buff)  BY <1>b, <2>2
  <2>5. b \in Seq(Byte) /\ Len(b) = r /\ \A i \in 1 .. r : b[i] = buff[m + i]
    BY <2>3, <2>4, Part
  <2> QED BY <2>1, <2>5
<1>6. (s + m) + (k - m) = rd
  <2>1. s + k = rd  BY <1>3
  <2> QED BY <2>1
<1>7. \A i \in 1 .. k - m : b[i] = st[(s + m) + i]
  <2> TAKE i \in 1 .. k - m
  <2>1. m + i \in 1 .. k /\ s + (m + i) = (s + m) + i
    <3>1. \A x, y, z \in Int : x + (y + z) = (x + y) + z  OBVIOUS
    <3>2. m + i \in 1 .. k  BY <1>c
    <3> QED BY <3>1, <3>2
  <2>2. b[i] = buff[m + i]  BY <1>5
  <2>3. buff[m + i] = st[s + (m + i)]  BY <1>3, <2>1
  <2> QED BY <2>1, <2>2, <2>3
<1>8. IsBuffered(en, st, rd, b, n + 1)
  BY <1>4, <1>5, <1>6, <1>7 DEF IsBuffered
<1> QED BY <1>2, <1>5, <1>8 DEF b

\* A buffer that is not empty begins as the first packet not taken.
LEMMA FirstInBuffer ==
  ASSUME NEW sn \in Seq(Packet), NEW en \in Seq(Nat), NEW st \in Seq(Byte),
         IsWritten(sn, en, st), NEW rd \in Nat, rd =< Len(st),
         NEW buff \in Seq(Byte), buff # <<>>, NEW n \in Nat, n =< Len(sn),
         IsBuffered(en, st, rd, buff, n)
  PROVE  /\ n < Len(sn)
         /\ \A i \in 1 .. Len(buff) :
              i =< Len(sn[n + 1].bytes) => buff[i] = sn[n + 1].bytes[i]
<1>1. Len(en) = Len(sn) /\ StartOf(en, Len(sn) + 1) = Len(st)  BY DEF IsWritten
<1>0. n + 1 \in 1 .. Len(en) + 1  BY <1>1
<1>a. PICK s \in Nat : s = StartOf(en, n + 1)  BY <1>0, StartNat
<1>b. PICK k \in Nat : k = Len(buff)  OBVIOUS
<1>2. s + k = rd /\ \A j \in 1 .. k : buff[j] = st[s + j]
  BY <1>a, <1>b DEF IsBuffered
<1>3. k >= 1  BY <1>b, EmptySeq
<1>4. n # Len(sn)
  <2>1. ~(s + k =< s)  BY <1>3
  <2>2. s + k =< Len(st)  BY <1>2
  <2>3. s # Len(st)  BY <2>1, <2>2, Zenon
  <2>4. StartOf(en, n + 1) # StartOf(en, Len(sn) + 1)
    BY <1>a, <1>1, <2>3, Zenon
  <2> QED BY <2>4, Zenon
<1>5. n < Len(sn) /\ n + 1 \in 1 .. Len(sn)  BY <1>4
<1>6. \A j \in 1 .. Len(sn[n + 1].bytes) : st[s + j] = sn[n + 1].bytes[j]
  BY <1>a, <1>5 DEF IsWritten
<1>7. Len(sn[n + 1].bytes) \in Nat
  <2>1. sn[n + 1] \in Packet  BY <1>5
  <2> QED BY <2>1, PacketBytes
<1>8. ASSUME NEW i \in 1 .. k, i =< Len(sn[n + 1].bytes)
      PROVE  buff[i] = sn[n + 1].bytes[i]
  <2>1. i \in 1 .. Len(sn[n + 1].bytes)  BY <1>7, <1>8
  <2> QED BY <1>2, <1>6, <2>1
<1> QED BY <1>b, <1>5, <1>8

-----------------------------------------------------------------------------
(***************************************************************************)
(* ReceiveInv is inductive.                                                *)
(***************************************************************************)
LEMMA WrittenIs == Written <=> IsWritten(sent, ends, stream)
BY DEF Written, IsWritten, Start, StartOf

LEMMA WrittenIsNext == Written' <=> IsWritten(sent', ends', stream')
BY DEF Written, IsWritten, Start, StartOf

LEMMA BufferedIs ==
  Buffered <=> /\ Taken =< Len(sent)
               /\ IsBuffered(ends, stream, read, m_recvBuff, Taken)
BY DEF Buffered, IsBuffered, Start, StartOf

LEMMA BufferedIsNext ==
  Buffered' <=> /\ Taken' =< Len(sent')
                /\ IsBuffered(ends', stream', read', m_recvBuff', Taken')
BY DEF Buffered, IsBuffered, Start, StartOf

\* What holds until two tasks overlap
Sound == Buffered /\ Alone /\ Spoke /\ InOrder /\ NeverRefused

LEMMA SoundInv == ReceiveInv <=> TypeOK /\ Written /\ (overlap \/ Sound)
BY DEF ReceiveInv, Sound, HandledInOrder, NeverRefused

LEMMA SoundInvNext ==
  ASSUME TypeOK', Written', overlap' \/ Sound'
  PROVE  ReceiveInv'
BY DEF ReceiveInv, Sound, HandledInOrder, NeverRefused

\* What the steps use of the types
LEMMA TypeFacts ==
  ASSUME TypeOK, Written
  PROVE  /\ sent \in Seq(Packet) /\ ends \in Seq(Nat) /\ stream \in Seq(Byte)
         /\ read \in Nat /\ read =< Len(stream) /\ m_recvBuff \in Seq(Byte)
         /\ IsWritten(sent, ends, stream) /\ Len(ends) = Len(sent)
         /\ handled \in Seq(Says)
<1>1. /\ sent \in Seq(Packet) /\ ends \in Seq(Nat) /\ stream \in Seq(Byte)
      /\ read \in 0 .. Len(stream) /\ m_recvBuff \in Seq(Byte)
      /\ handled \in Seq(Says)
  BY DEF TypeOK
<1>2. read \in Nat /\ read =< Len(stream)
  <2>1. Len(stream) \in Nat  BY <1>1
  <2> QED BY <1>1, <2>1
<1>3. IsWritten(sent, ends, stream)  BY WrittenIs
<1>4. Len(ends) = Len(sent)  BY <1>3 DEF IsWritten
<1> QED BY <1>1, <1>2, <1>3, <1>4

\* What the steps use of the buffer
LEMMA Facts ==
  ASSUME TypeOK, Written, Sound
  PROVE  /\ Taken \in Nat /\ Taken =< Len(sent) /\ Taken =< Len(ends)
         /\ IsBuffered(ends, stream, read, m_recvBuff, Taken)
<1>1. Taken =< Len(sent) /\ IsBuffered(ends, stream, read, m_recvBuff, Taken)
  BY BufferedIs DEF Sound
<1>2. Taken \in Nat  BY TypeFacts DEF Taken
<1> QED BY <1>1, <1>2, TypeFacts

\* All but w are idle.
Others(tk, w) == \A v \in Worker : v # w => tk[v] = Idle

\* If the others are idle, what a worker does says whether a packet is taken.
LEMMA TakenAt ==
  ASSUME NEW w \in Worker, Others(task, w)
  PROVE  Taken = IF task[w].at = "erased" THEN Len(handled) + 1 ELSE Len(handled)
BY DEF Others, Idle, Taken

LEMMA TakenAtNext ==
  ASSUME NEW w \in Worker, Others(task', w)
  PROVE  Taken' = IF task'[w].at = "erased" THEN Len(handled') + 1 ELSE Len(handled')
BY DEF Others, Idle, Taken

LEMMA AtWork ==
  ASSUME Alone, NEW w \in Worker, task[w] # Idle
  PROVE  Others(task, w)
BY DEF Alone, Others

LEMMA AloneNext ==
  ASSUME NEW w \in Worker, Others(task', w)
  PROVE  Alone'
BY DEF Alone, Others

LEMMA SendTypes ==
  ASSUME TypeOK, Written, NEW p \in Packet, Send(p)
  PROVE  /\ TypeOK' /\ Written'
         /\ Len(stream') >= Len(stream)
         /\ \A i \in 1 .. Len(sent) + 1 : StartOf(ends', i) = StartOf(ends, i)
         /\ \A j \in 1 .. Len(stream) : stream'[j] = stream[j]
         /\ Len(sent') = Len(sent) + 1
         /\ \A i \in 1 .. Len(sent) : sent'[i] = sent[i]
<1>1. /\ Len(sent) < MaxPackets /\ sent' = Append(sent, p)
      /\ stream' = stream \o p.bytes /\ ends' = Append(ends, Len(stream'))
  BY DEF Send
<1>2. UNCHANGED <<read, m_recvBuff, tasks, task, handled, open, crashed, merged, overlap>>
  BY DEF Send
<1>3. /\ stream' \in Seq(Byte) /\ ends' \in Seq(Nat) /\ Len(stream') >= Len(stream)
      /\ IsWritten(sent', ends', stream')
      /\ \A i \in 1 .. Len(sent) + 1 : StartOf(ends', i) = StartOf(ends, i)
      /\ \A j \in 1 .. Len(stream) : stream'[j] = stream[j]
  <2>1. /\ sent \in Seq(Packet) /\ ends \in Seq(Nat) /\ stream \in Seq(Byte)
        /\ IsWritten(sent, ends, stream)
    BY TypeFacts
  <2>2. stream' = Longer(stream, p) /\ ends' = Ended(ends, stream, p)
    BY <1>1 DEF Longer, Ended
  <2>3. sent' = Append(sent, p)  BY <1>1
  <2> QED BY <2>1, <2>2, <2>3, WriteOne
<1>4. /\ sent' \in Seq(Packet) /\ Len(sent') = Len(sent) + 1
      /\ \A i \in 1 .. Len(sent) : sent'[i] = sent[i]
  BY <1>1, TypeFacts, AppendProperties
<1>5. TypeOK'
  <2>1. Len(sent') =< MaxPackets
    <3>1. Len(sent) \in Nat /\ MaxPackets \in Nat  BY TypeFacts, ReceiveAssumption
    <3> QED BY <1>1, <1>4, <3>1
  <2>2. read' \in 0 .. Len(stream')
    <3>1. Len(stream) \in Nat /\ Len(stream') \in Nat  BY <1>3, TypeFacts
    <3> QED BY <1>2, <1>3, <3>1, TypeFacts
  <2> QED BY <1>2, <1>3, <1>4, <2>1, <2>2 DEF TypeOK
<1>6. Written'  BY <1>3, WrittenIsNext
<1> QED BY <1>3, <1>4, <1>5, <1>6

\* Another packet in the stream changes nothing that was read.
LEMMA SendStep ==
  ASSUME TypeOK, Written, Sound, NEW p \in Packet, Send(p)
  PROVE  Sound'
<1>1. UNCHANGED <<read, m_recvBuff, tasks, task, handled, open, crashed, merged, overlap>>
  BY DEF Send
<1>2. Taken' = Taken  BY <1>1 DEF Taken
<1>3. /\ Len(stream') >= Len(stream)
      /\ \A i \in 1 .. Len(sent) + 1 : StartOf(ends', i) = StartOf(ends, i)
      /\ \A j \in 1 .. Len(stream) : stream'[j] = stream[j]
      /\ Len(sent') = Len(sent) + 1
      /\ \A i \in 1 .. Len(sent) : sent'[i] = sent[i]
  BY SendTypes
<1>4. Len(sent) \in Nat /\ Len(handled) \in Nat /\ Taken \in Nat /\ Taken =< Len(sent)
  BY TypeFacts, Facts
<1>5. Buffered'
  <2>1. Taken + 1 \in 1 .. Len(sent) + 1  BY <1>4
  <2>2. StartOf(ends', Taken + 1) = StartOf(ends, Taken + 1)  BY <1>3, <2>1
  <2>3. IsBuffered(ends', stream', read, m_recvBuff, Taken)
    BY <1>3, <2>2, TypeFacts, Facts, KeepBuffered
  <2>4. Taken =< Len(sent')  BY <1>3, <1>4
  <2> QED BY <1>1, <1>2, <2>3, <2>4, BufferedIsNext
<1>6. \A i \in 1 .. Taken : sent'[i] = sent[i]
  <2>1. \A i \in 1 .. Taken : i \in 1 .. Len(sent)  BY <1>4
  <2> QED BY <1>3, <2>1
<1>7. Taken < Len(sent) => sent'[Taken + 1] = sent[Taken + 1] /\ Taken < Len(sent')
  <2>1. Taken < Len(sent) => Taken + 1 \in 1 .. Len(sent)  BY <1>4
  <2> QED BY <1>3, <1>4, <2>1
<1>8. Spoke'
  <2>1. Spoke  BY DEF Sound
  <2>2. \A i \in 1 .. Taken : sent'[i].says # None  BY <1>6, <2>1 DEF Spoke
  <2>3. ASSUME NEW w \in Worker, task[w].at = "erased"
        PROVE  task[w].packet = sent'[Taken].says
    <3>1. task[w].packet = sent[Taken].says  BY <2>1, <2>3 DEF Spoke
    <3>2. Taken = Len(handled) + 1  BY <2>3 DEF Taken
    <3>3. Taken \in 1 .. Taken  BY <1>4, <3>2
    <3> QED BY <1>6, <3>1, <3>3
  <2>4. ASSUME NEW w \in Worker, task[w].at = "unpacked"
        PROVE  /\ Taken < Len(sent') /\ sent'[Taken + 1].says # None
               /\ task[w].packet = sent'[Taken + 1].says
               /\ task[w].pkt_len = Len(sent'[Taken + 1].bytes)
    BY <1>7, <2>1, <2>4 DEF Spoke
  <2>5. \A w \in Worker : Stopped => OtherLevel \/ task[w] = Idle  BY <2>1 DEF Spoke
  <2>6. (Stopped' <=> Stopped) /\ (OtherLevel' <=> OtherLevel)
    BY <1>1 DEF Stopped, OtherLevel
  <2> QED BY <1>1, <1>2, <2>2, <2>3, <2>4, <2>5, <2>6 DEF Spoke
<1>9. InOrder'
  <2>1. InOrder  BY DEF Sound
  <2>2. \A i \in DOMAIN handled : i \in 1 .. Len(sent)
    <3>1. DOMAIN handled = 1 .. Len(handled)  BY TypeFacts
    <3>2. Len(handled) =< Len(sent)  BY <2>1 DEF InOrder
    <3> QED BY <1>4, <3>1, <3>2
  <2>3. Len(handled) =< Len(sent')  BY <1>3, <1>4, <2>1 DEF InOrder
  <2> QED BY <1>1, <1>3, <2>1, <2>2, <2>3 DEF InOrder
<1>10. NeverRefused'
  <2>1. NeverRefused  BY DEF Sound
  <2>2. Len(handled) < Len(sent) =>
          /\ sent'[Len(handled) + 1] = sent[Len(handled) + 1]
          /\ Len(handled) < Len(sent')
    <3>1. Len(handled) < Len(sent) => Len(handled) + 1 \in 1 .. Len(sent)  BY <1>4
    <3> QED BY <1>3, <1>4, <3>1
  <2> QED BY <1>1, <2>1, <2>2 DEF NeverRefused, Stopped, OtherLevel
<1>11. Alone'  BY <1>1 DEF Sound, Alone
<1> QED BY <1>5, <1>8, <1>9, <1>10, <1>11 DEF Sound

LEMMA EventTypes ==
  ASSUME TypeOK, Written, NEW n \in Piece, SessionEvent(n)
  PROVE  TypeOK' /\ Written'
<1>1. /\ tasks < MaxTasks /\ read + n =< Len(stream) /\ read' = read + n
      /\ m_recvBuff' = m_recvBuff \o SubSeq(stream, read + 1, read + n)
      /\ tasks' = tasks + 1 /\ merged' = (merged \/ Completes(n) > 1)
  BY DEF SessionEvent
<1>2. UNCHANGED <<sent, ends, stream, task, handled, open, crashed, overlap>>
  BY DEF SessionEvent, client
<1>3. n \in Nat /\ n # 0  BY ReceiveAssumption
<1>4. m_recvBuff' \in Seq(Byte) /\ Len(m_recvBuff') >= Len(m_recvBuff)
  <2> DEFINE new == SubSeq(stream, read + 1, read + n)
  <2> HIDE DEF new
  <2>1. new \in Seq(Byte)  BY <1>1, <1>3, TypeFacts, Part DEF new
  <2>2. Joined(m_recvBuff, new) \in Seq(Byte)
        /\ Len(Joined(m_recvBuff, new)) = Len(m_recvBuff) + Len(new)
    BY <2>1, TypeFacts, JoinedParts
  <2>3. m_recvBuff' = Joined(m_recvBuff, new)  BY <1>1 DEF Joined, new
  <2>4. Len(m_recvBuff) \in Nat /\ Len(new) \in Nat  BY <2>1, TypeFacts
  <2> QED BY <2>2, <2>3, <2>4
<1>5. TypeOK'
  <2>1. tasks' \in 0 .. MaxTasks
    <3>1. tasks \in 0 .. MaxTasks /\ MaxTasks \in Nat
      BY ReceiveAssumption DEF TypeOK
    <3> QED BY <1>1, <3>1
  <2>2. read' \in 0 .. Len(stream)
    <3>1. read \in Nat /\ Len(stream) \in Nat  BY TypeFacts
    <3> QED BY <1>1, <1>3, <3>1
  <2>3. ASSUME NEW w \in Worker
        PROVE  \/ task[w] = Idle
               \/ /\ task[w].at = "unpacked" /\ task[w].packet \in Says
                  /\ task[w].pkt_len \in Nat \ {0}
                  /\ overlap \/ task[w].pkt_len =< Len(m_recvBuff')
               \/ task[w].at = "erased" /\ task[w].packet \in Says
    <3>1. Len(m_recvBuff) \in Nat /\ Len(m_recvBuff') \in Nat  BY <1>4, TypeFacts
    <3>2. \A k \in Nat : k =< Len(m_recvBuff) => k =< Len(m_recvBuff')
      BY <1>4, <3>1
    <3> QED BY <3>2 DEF TypeOK
  <2>4. /\ sent \in Seq(Packet) /\ Len(sent) =< MaxPackets /\ DOMAIN task = Worker
        /\ ends \in Seq(Nat) /\ stream \in Seq(Byte) /\ handled \in Seq(Says)
        /\ open \in BOOLEAN /\ crashed \in BOOLEAN
        /\ overlap \in BOOLEAN /\ merged \in BOOLEAN
    BY DEF TypeOK
  <2>5. merged' \in BOOLEAN  BY <1>1, <2>4
  <2> QED BY <1>2, <1>4, <2>1, <2>2, <2>3, <2>4, <2>5 DEF TypeOK
<1>6. Written'  BY <1>2, WrittenIs, WrittenIsNext
<1> QED BY <1>5, <1>6

\* What is read is appended to the buffer.
LEMMA EventStep ==
  ASSUME TypeOK, Written, Sound, NEW n \in Piece, SessionEvent(n)
  PROVE  Sound'
<1>1. /\ read + n =< Len(stream) /\ read' = read + n
      /\ m_recvBuff' = m_recvBuff \o SubSeq(stream, read + 1, read + n)
  BY DEF SessionEvent
<1>2. UNCHANGED <<sent, ends, stream, task, handled, open, crashed, overlap>>
  BY DEF SessionEvent, client
<1>3. Taken' = Taken  BY <1>2 DEF Taken
<1>4. Buffered'
  <2>1. n \in Nat  BY ReceiveAssumption
  <2>2. IsBuffered(ends, stream, read + n,
                   m_recvBuff \o SubSeq(stream, read + 1, read + n), Taken)
    BY <1>1, <2>1, TypeFacts, Facts, ReadMore
  <2>3. IsBuffered(ends, stream, read', m_recvBuff', Taken)  BY <1>1, <2>2, Zenon
  <2> QED BY <1>2, <1>3, <2>3, Facts, BufferedIsNext
<1>5. Alone /\ Spoke /\ InOrder /\ NeverRefused  BY DEF Sound
<1>6. Alone' /\ InOrder'  BY <1>2, <1>5 DEF Alone, InOrder
<1>7. NeverRefused'  BY <1>2, <1>5 DEF NeverRefused, Stopped, OtherLevel
<1>8. Spoke'  BY <1>2, <1>3, <1>5 DEF Spoke, Stopped, OtherLevel
<1> QED BY <1>4, <1>6, <1>7, <1>8 DEF Sound

LEMMA FirstPacket ==
  ASSUME TypeOK, Written, Sound, Taken < Len(sent)
  PROVE  sent[Taken + 1] \in Packet
<1>1. Len(sent) \in Nat  BY TypeFacts
<1>2. Taken + 1 \in 1 .. Len(sent)  BY <1>1, Facts
<1> QED BY <1>2, TypeFacts

\* What unpack may answer until two tasks overlap
LEMMA UnpackFront ==
  ASSUME TypeOK, Written, Sound, m_recvBuff # <<>>, NEW past \in Past
  PROVE  /\ Taken < Len(sent) /\ sent[Taken + 1] \in Packet
         /\ unpack(m_recvBuff, past).rc = "ok" =>
              /\ sent[Taken + 1].says # None
              /\ Len(sent[Taken + 1].bytes) \in 1 .. Len(m_recvBuff)
              /\ unpack(m_recvBuff, past).pkt_len = Len(sent[Taken + 1].bytes)
              /\ unpack(m_recvBuff, past).packet = sent[Taken + 1].says
         /\ unpack(m_recvBuff, past).rc \in Refusals =>
              /\ sent[Taken + 1].says = None
              /\ Foreign(sent[Taken + 1]) \/ Wrong(sent[Taken + 1])
         /\ /\ sent[Taken + 1].says # None
            /\ Len(sent[Taken + 1].bytes) =< Len(m_recvBuff)
            => unpack(m_recvBuff, past).rc = "ok"
<1>1. /\ Taken < Len(sent)
      /\ \A i \in 1 .. Len(m_recvBuff) :
           i =< Len(sent[Taken + 1].bytes) => m_recvBuff[i] = sent[Taken + 1].bytes[i]
  <2>1. /\ sent \in Seq(Packet) /\ ends \in Seq(Nat) /\ stream \in Seq(Byte)
        /\ IsWritten(sent, ends, stream) /\ read \in Nat /\ read =< Len(stream)
        /\ m_recvBuff \in Seq(Byte)
    BY TypeFacts
  <2>2. /\ Taken \in Nat /\ Taken =< Len(sent)
        /\ IsBuffered(ends, stream, read, m_recvBuff, Taken)
    BY Facts
  <2> QED BY <2>1, <2>2, FirstInBuffer
<1>2. sent[Taken + 1] \in Packet  BY <1>1, FirstPacket
<1>3. PICK p \in Packet : p = sent[Taken + 1]  BY <1>2
<1>4. \A i \in 1 .. Len(m_recvBuff) : i =< Len(p.bytes) => m_recvBuff[i] = p.bytes[i]
  BY <1>1, <1>3
<1>5. past \in Byte /\ m_recvBuff \in Seq(Byte)  BY TypeFacts, ReceiveAssumption
<1>6. /\ unpack(m_recvBuff, past).rc = "ok" =>
              /\ p.says # None /\ Len(p.bytes) =< Len(m_recvBuff)
              /\ unpack(m_recvBuff, past).pkt_len = Len(p.bytes)
              /\ unpack(m_recvBuff, past).packet = p.says
      /\ unpack(m_recvBuff, past).rc \in Refusals =>
              p.says = None /\ (Foreign(p) \/ Wrong(p))
      /\ p.says # None /\ Len(p.bytes) =< Len(m_recvBuff) =>
              unpack(m_recvBuff, past).rc = "ok"
  BY <1>4, <1>5, PacketFront
<1>7. Len(p.bytes) =< Len(m_recvBuff) => Len(p.bytes) \in 1 .. Len(m_recvBuff)
  <2>1. p.bytes \in Seq(Byte) /\ p.bytes # <<>>  BY PacketBytes
  <2>2. Len(p.bytes) \in Nat /\ Len(p.bytes) # 0  BY <2>1, EmptySeq
  <2>3. Len(m_recvBuff) \in Nat  BY <1>5
  <2> QED BY <2>2, <2>3
<1> QED BY <1>1, <1>2, <1>3, <1>6, <1>7

\* What Unpack does: r is the answer of unpack.
Answer(r) ==
  /\ IF r.rc \in Refusals THEN Refuse ELSE UNCHANGED <<open, crashed>>
  /\ r.rc # "ok" => task' = task
  /\ overlap' = (r.rc \in Refusals \cup {"ok"} /\ \E v \in Worker : task[v] # Idle)

Unpacked(r, w) ==
  task' = [task EXCEPT ![w] = [at |-> "unpacked", pkt_len |-> r.pkt_len,
                               packet |-> r.packet]]

\* r is right about the first packet in the buffer.
Fits(r) ==
  /\ r.rc = "ok" =>
       /\ Taken < Len(sent) /\ sent[Taken + 1].says # None
       /\ r.packet = sent[Taken + 1].says /\ r.packet \in Says
       /\ r.pkt_len = Len(sent[Taken + 1].bytes)
       /\ r.pkt_len \in 1 .. Len(m_recvBuff)
  /\ r.rc \in Refusals =>
       /\ Taken < Len(sent) /\ sent[Taken + 1].says = None
       /\ Foreign(sent[Taken + 1]) \/ Wrong(sent[Taken + 1])
  /\ r.rc \notin Refusals \cup {"ok"} /\ Taken < Len(sent) /\ sent[Taken + 1].says # None =>
       Len(m_recvBuff) < Len(sent[Taken + 1].bytes)

LEMMA UnpackAnswers ==
  ASSUME TypeOK, Written, Sound, NEW w \in Worker, Unpack(w)
  PROVE  \E r : Answer(r) /\ Fits(r) /\ (r.rc = "ok" => Unpacked(r, w))
<1>1. PICK past \in Past : \E r :
        /\ r = IF m_recvBuff = <<>> THEN [rc |-> "partial"]
               ELSE unpack(m_recvBuff, past)
        /\ IF r.rc \in Refusals THEN Refuse ELSE UNCHANGED <<open, crashed>>
        /\ task' = IF r.rc # "ok" THEN task
                   ELSE [task EXCEPT ![w] = [at |-> "unpacked", pkt_len |-> r.pkt_len,
                                             packet |-> r.packet]]
        /\ overlap' = (r.rc \in Refusals \cup {"ok"} /\ \E v \in Worker : task[v] # Idle)
  BY DEF Unpack
<1>2. PICK r :
        /\ r = IF m_recvBuff = <<>> THEN [rc |-> "partial"]
               ELSE unpack(m_recvBuff, past)
        /\ IF r.rc \in Refusals THEN Refuse ELSE UNCHANGED <<open, crashed>>
        /\ task' = IF r.rc # "ok" THEN task
                   ELSE [task EXCEPT ![w] = [at |-> "unpacked", pkt_len |-> r.pkt_len,
                                             packet |-> r.packet]]
        /\ overlap' = (r.rc \in Refusals \cup {"ok"} /\ \E v \in Worker : task[v] # Idle)
  BY <1>1
<1>3. Answer(r)  BY <1>2 DEF Answer
<1>4. r.rc = "ok" => Unpacked(r, w)  BY <1>2 DEF Unpacked
<1>5. Fits(r)
  <2>1. CASE m_recvBuff = <<>>
    <3>1. r.rc = "partial"  BY <1>2, <2>1
    <3>2. Taken < Len(sent) => Len(m_recvBuff) < Len(sent[Taken + 1].bytes)
      <4>1. SUFFICES ASSUME Taken < Len(sent)
                     PROVE  Len(m_recvBuff) < Len(sent[Taken + 1].bytes)
        OBVIOUS
      <4>2. PICK p \in Packet : p = sent[Taken + 1]  BY <4>1, FirstPacket
      <4>3. Len(p.bytes) \in Nat /\ Len(p.bytes) # 0  BY PacketBytes, EmptySeq
      <4> QED BY <2>1, <4>2, <4>3
    <3> QED BY <3>1, <3>2 DEF Fits, Refusals
  <2>2. CASE m_recvBuff # <<>>
    <3>1. r = unpack(m_recvBuff, past)  BY <1>2, <2>2
    <3>2. Taken < Len(sent) =>
            Len(m_recvBuff) \in Nat /\ Len(sent[Taken + 1].bytes) \in Nat
      BY TypeFacts, FirstPacket, PacketBytes
    <3> QED BY <2>2, <3>1, <3>2, UnpackFront DEF Fits, Says, Refusals
  <2> QED BY <2>1, <2>2
<1> QED BY <1>3, <1>4, <1>5

LEMMA UnpackTypes ==
  ASSUME TypeOK, Written, Sound, NEW w \in Worker, Unpack(w)
  PROVE  TypeOK' /\ Written'
<1>1. PICK r : Answer(r) /\ Fits(r) /\ (r.rc = "ok" => Unpacked(r, w))
  BY UnpackAnswers
<1>2. tasks > 0 /\ task[w] = Idle /\ tasks' = tasks - 1 /\ ~overlap  BY DEF Unpack
<1>3. UNCHANGED <<sent, ends, stream, read, m_recvBuff, handled, merged>>
  BY DEF Unpack, client
<1>4. /\ sent \in Seq(Packet) /\ Len(sent) =< MaxPackets /\ DOMAIN task = Worker
      /\ ends \in Seq(Nat) /\ stream \in Seq(Byte) /\ handled \in Seq(Says)
      /\ read \in 0 .. Len(stream) /\ m_recvBuff \in Seq(Byte)
      /\ open \in BOOLEAN /\ crashed \in BOOLEAN /\ merged \in BOOLEAN
  BY DEF TypeOK
<1>5. tasks' \in 0 .. MaxTasks
  <2>1. tasks \in 0 .. MaxTasks /\ MaxTasks \in Nat  BY ReceiveAssumption DEF TypeOK
  <2> QED BY <1>2, <2>1
<1>6. open' \in BOOLEAN /\ crashed' \in BOOLEAN /\ overlap' \in BOOLEAN
  BY <1>1, <1>4 DEF Answer, Refuse
<1>7. DOMAIN task' = Worker  BY <1>1, <1>4 DEF Answer, Unpacked
<1>8. ASSUME NEW v \in Worker
      PROVE  \/ task'[v] = Idle
             \/ /\ task'[v].at = "unpacked" /\ task'[v].packet \in Says
                /\ task'[v].pkt_len \in Nat \ {0}
                /\ overlap' \/ task'[v].pkt_len =< Len(m_recvBuff)
             \/ task'[v].at = "erased" /\ task'[v].packet \in Says
  <2>1. CASE v = w /\ r.rc = "ok"
    <3>1. task'[w] = [at |-> "unpacked", pkt_len |-> r.pkt_len, packet |-> r.packet]
      BY <1>1, <1>4, <2>1 DEF Unpacked
    <3>2. r.pkt_len \in 1 .. Len(m_recvBuff) /\ r.packet \in Says
      BY <1>1, <2>1 DEF Fits
    <3>3. r.pkt_len \in Nat \ {0} /\ r.pkt_len =< Len(m_recvBuff)
      <4>1. Len(m_recvBuff) \in Nat  BY <1>4
      <4> QED BY <3>2, <4>1
    <3> QED BY <2>1, <3>1, <3>2, <3>3
  <2>2. CASE ~(v = w /\ r.rc = "ok")
    <3>1. task'[v] = task[v]  BY <1>1, <1>4, <2>2 DEF Answer, Unpacked
    <3> QED BY <1>2, <3>1 DEF TypeOK
  <2> QED BY <2>1, <2>2
<1>9. TypeOK'  BY <1>3, <1>4, <1>5, <1>6, <1>7, <1>8 DEF TypeOK
<1>10. Written'  BY <1>3, WrittenIs, WrittenIsNext
<1> QED BY <1>9, <1>10

\* parseData unpacks the first packet that is not taken.
LEMMA UnpackStep ==
  ASSUME TypeOK, Written, Sound, NEW w \in Worker, Unpack(w), ~overlap'
  PROVE  Sound'
<1>1. PICK r : Answer(r) /\ Fits(r) /\ (r.rc = "ok" => Unpacked(r, w))
  BY UnpackAnswers
<1>2. task[w] = Idle /\ ~overlap  BY DEF Unpack
<1>3. UNCHANGED <<sent, ends, stream, read, m_recvBuff, handled, merged>>
  BY DEF Unpack, client
<1>4. Alone /\ Spoke /\ InOrder /\ NeverRefused /\ Buffered  BY DEF Sound
<1>5. DOMAIN task = Worker /\ open \in BOOLEAN  BY DEF TypeOK
<1>6. InOrder'  BY <1>3, <1>4 DEF InOrder
<1>7. CASE r.rc \notin Refusals \cup {"ok"}
  <2>1. task' = task /\ open' = open /\ crashed' = crashed  BY <1>1, <1>7 DEF Answer
  <2>2. Taken' = Taken  BY <1>3, <2>1 DEF Taken
  <2>3. Buffered'  BY <1>3, <1>4, <2>2, BufferedIs, BufferedIsNext
  <2>4. Alone'  BY <1>4, <2>1 DEF Alone
  <2>5. Spoke'  BY <1>3, <1>4, <2>1, <2>2 DEF Spoke, Stopped, OtherLevel
  <2>6. NeverRefused'  BY <1>2, <1>3, <1>4, <2>1 DEF NeverRefused, Stopped, OtherLevel
  <2> QED BY <1>6, <2>3, <2>4, <2>5, <2>6 DEF Sound
<1>8. CASE r.rc \in Refusals \cup {"ok"}
  <2>1. \A v \in Worker : task[v] = Idle  BY <1>1, <1>8 DEF Answer
  <2>2. Taken = Len(handled)
    <3>1. Others(task, w)  BY <2>1 DEF Others
    <3> QED BY <1>2, <3>1, TakenAt DEF Idle
  <2>3. Others(task', w)  BY <1>1, <1>5, <2>1 DEF Others, Answer, Unpacked
  <2>4. r.rc = "ok" =>
          task'[w] = [at |-> "unpacked", pkt_len |-> r.pkt_len, packet |-> r.packet]
    BY <1>1, <1>5 DEF Unpacked
  <2>5. r.rc # "ok" => task'[w] = Idle  BY <1>1, <1>2 DEF Answer
  <2>6. task'[w].at # "erased"  BY <2>4, <2>5 DEF Idle
  <2>7. Taken' = Taken  BY <1>3, <2>2, <2>3, <2>6, TakenAtNext
  <2>8. Buffered'  BY <1>3, <1>4, <2>7, BufferedIs, BufferedIsNext
  <2>9. r.rc = "ok" => /\ Stopped' <=> Stopped
                       /\ Stopped => OtherLevel
    <3>1. ASSUME r.rc = "ok", Stopped, ~OtherLevel  PROVE FALSE
      <4>1. sent[Len(handled) + 1].says = None  BY <1>2, <1>4, <3>1 DEF NeverRefused
      <4> QED BY <1>1, <2>2, <3>1, <4>1 DEF Fits
    <3>2. r.rc = "ok" => open' = open /\ crashed' = crashed
      BY <1>1 DEF Answer, Refusals
    <3> QED BY <3>1, <3>2 DEF Stopped
  <2>10. Spoke'
    <3>1. \A i \in 1 .. Taken : sent[i].says # None  BY <1>4 DEF Spoke
    <3>2. task'[w].at = "unpacked" =>
            /\ Taken < Len(sent) /\ sent[Taken + 1].says # None
            /\ task'[w].packet = sent[Taken + 1].says
            /\ task'[w].pkt_len = Len(sent[Taken + 1].bytes)
      <4>1. r.rc = "ok" =>
              task'[w].packet = r.packet /\ task'[w].pkt_len = r.pkt_len
        BY <2>4
      <4>2. r.rc # "ok" => task'[w].at = "idle"  BY <2>5 DEF Idle
      <4> QED BY <1>1, <4>1, <4>2 DEF Fits
    <3>3. Stopped' => OtherLevel' \/ task'[w] = Idle  BY <1>3, <2>5, <2>9 DEF OtherLevel
    <3>4. \A v \in Worker : v # w => task'[v] = Idle /\ task'[v].at = "idle"
      BY <2>3 DEF Others, Idle
    <3> QED BY <1>3, <2>6, <2>7, <3>1, <3>2, <3>3, <3>4 DEF Spoke
  <2>11. NeverRefused'
    <3>1. CASE r.rc \in Refusals
      <4>1. Len(handled) < Len(sent)
            /\ LET p == sent[Len(handled) + 1]
               IN  p.says = None /\ (Foreign(p) \/ Wrong(p))
        BY <1>1, <2>2, <3>1 DEF Fits
      <4> QED BY <1>3, <4>1 DEF NeverRefused
    <3>2. CASE r.rc = "ok"
      <4>1. OtherLevel' <=> OtherLevel  BY <1>3 DEF OtherLevel
      <4> QED BY <2>9, <3>2, <4>1 DEF NeverRefused
    <3> QED BY <1>8, <3>1, <3>2
  <2>12. Alone'  BY <2>3, AloneNext
  <2> QED BY <1>6, <2>8, <2>10, <2>11, <2>12 DEF Sound
<1> QED BY <1>7, <1>8

\* If w's packet is all there, or another erased it, w leaves bytes.
LEMMA EraseTypes ==
  ASSUME TypeOK, Written, overlap \/ Alone, NEW w \in Worker, Erase(w)
  PROVE  TypeOK' /\ Written'
<1>1. /\ task[w].at = "unpacked"
      /\ m_recvBuff' = From(m_recvBuff, task[w].pkt_len + 1)
      /\ task' = [task EXCEPT ![w] = [at |-> "erased", packet |-> task[w].packet]]
  BY DEF Erase
<1>2. UNCHANGED <<sent, ends, stream, read, tasks, handled, open, crashed, merged, overlap>>
  BY DEF Erase, client
<1>3. /\ sent \in Seq(Packet) /\ Len(sent) =< MaxPackets /\ DOMAIN task = Worker
      /\ ends \in Seq(Nat) /\ stream \in Seq(Byte) /\ handled \in Seq(Says)
      /\ read \in 0 .. Len(stream) /\ tasks \in 0 .. MaxTasks
      /\ open \in BOOLEAN /\ crashed \in BOOLEAN /\ merged \in BOOLEAN /\ overlap \in BOOLEAN
  BY DEF TypeOK
<1>4. task[w] # Idle  BY <1>1 DEF Idle
<1>5. task[w].packet \in Says /\ task[w].pkt_len \in Nat
  <2>1. task[w].at # "erased"  BY <1>1
  <2> QED BY <1>4, <2>1 DEF TypeOK
<1>6. m_recvBuff' \in Seq(Byte)
  <2>1. PICK k \in Nat : k = task[w].pkt_len + 1  BY <1>5
  <2>2. PICK l \in Nat : l = Len(m_recvBuff)  BY TypeFacts
  <2>3. k # 0  BY <1>5, <2>1
  <2>4. \A i \in k .. l : m_recvBuff[i] \in Byte
    <3>1. \A i \in k .. l : i \in 1 .. l  BY <2>3
    <3> QED BY <2>2, <3>1, TypeFacts
  <2>5. SubSeq(m_recvBuff, k, l) \in Seq(Byte)  BY <2>4, SubSeqProperties
  <2> QED BY <1>1, <2>1, <2>2, <2>5 DEF From
<1>7. ASSUME NEW v \in Worker
      PROVE  \/ task'[v] = Idle
             \/ /\ task'[v].at = "unpacked" /\ task'[v].packet \in Says
                /\ task'[v].pkt_len \in Nat \ {0}
                /\ overlap \/ task'[v].pkt_len =< Len(m_recvBuff')
             \/ task'[v].at = "erased" /\ task'[v].packet \in Says
  <2>1. CASE v = w
    <3>1. task'[w] = [at |-> "erased", packet |-> task[w].packet]  BY <1>1, <1>3
    <3> QED BY <1>5, <2>1, <3>1
  <2>2. CASE v # w
    <3>1. task'[v] = task[v]  BY <1>1, <1>3, <2>2
    <3>2. overlap \/ task[v] = Idle  BY <1>4, <2>2 DEF Alone
    <3> QED BY <3>1, <3>2 DEF TypeOK
  <2> QED BY <2>1, <2>2
<1>8. DOMAIN task' = Worker  BY <1>1, <1>3
<1>9. TypeOK'  BY <1>2, <1>3, <1>6, <1>7, <1>8 DEF TypeOK
<1>10. Written'  BY <1>2, WrittenIs, WrittenIsNext
<1> QED BY <1>9, <1>10

LEMMA EraseTaken ==
  ASSUME TypeOK, Alone, NEW w \in Worker, Erase(w)
  PROVE  /\ Others(task, w) /\ Others(task', w)
         /\ task[w].at = "unpacked" /\ task'[w].at = "erased"
         /\ task'[w].packet = task[w].packet
         /\ Taken = Len(handled) /\ Taken' = Taken + 1
<1>1. /\ task[w].at = "unpacked" /\ handled' = handled
      /\ task' = [task EXCEPT ![w] = [at |-> "erased", packet |-> task[w].packet]]
  BY DEF Erase
<1>2. DOMAIN task = Worker  BY DEF TypeOK
<1>3. task'[w].at = "erased" /\ task'[w].packet = task[w].packet  BY <1>1, <1>2
<1>4. task[w] # Idle  BY <1>1 DEF Idle
<1>5. Others(task, w)  BY <1>4, AtWork
<1>6. Others(task', w)  BY <1>1, <1>2, <1>5 DEF Others
<1>7. Taken = Len(handled)  BY <1>1, <1>5, TakenAt
<1>8. Taken' = Len(handled') + 1  BY <1>3, <1>6, TakenAtNext
<1> QED BY <1>1, <1>3, <1>5, <1>6, <1>7, <1>8

\* parseData takes the packet it unpacked.
LEMMA EraseStep ==
  ASSUME TypeOK, Written, Sound, ~overlap, NEW w \in Worker, Erase(w)
  PROVE  Sound'
<1>1. /\ task[w].at = "unpacked"
      /\ m_recvBuff' = From(m_recvBuff, task[w].pkt_len + 1)
      /\ task' = [task EXCEPT ![w] = [at |-> "erased", packet |-> task[w].packet]]
  BY DEF Erase
<1>2. UNCHANGED <<sent, ends, stream, read, tasks, handled, open, crashed, merged, overlap>>
  BY DEF Erase, client
<1>3. Alone /\ Spoke /\ InOrder /\ NeverRefused /\ Buffered  BY DEF Sound
<1>4. /\ Others(task', w) /\ task'[w].at = "erased"
      /\ task'[w].packet = task[w].packet
      /\ Taken = Len(handled) /\ Taken' = Taken + 1
  BY <1>3, EraseTaken
<1>5. task[w] # Idle  BY <1>1 DEF Idle
<1>6. /\ Taken < Len(sent) /\ sent[Taken + 1].says # None
      /\ task[w].packet = sent[Taken + 1].says
      /\ task[w].pkt_len = Len(sent[Taken + 1].bytes)
  BY <1>1, <1>3 DEF Spoke
<1>7. (Stopped => OtherLevel) /\ (Stopped' <=> Stopped) /\ (OtherLevel' <=> OtherLevel)
  BY <1>2, <1>3, <1>5 DEF Spoke, Stopped, OtherLevel
<1>8. IsBuffered(ends, stream, read, m_recvBuff', Taken + 1)
  <2>1. Len(sent[Taken + 1].bytes) =< Len(m_recvBuff)
    <3>1. task[w].at # "erased"  BY <1>1
    <3>2. task[w].pkt_len =< Len(m_recvBuff)  BY <1>5, <3>1 DEF TypeOK
    <3> QED BY <1>6, <3>2
  <2>2. IsBuffered(ends, stream, read,
                   From(m_recvBuff, Len(sent[Taken + 1].bytes) + 1), Taken + 1)
    BY <1>6, <2>1, TypeFacts, Facts, EraseOne
  <2> QED BY <1>1, <1>6, <2>2
<1>9. Buffered'
  <2>1. Taken + 1 =< Len(sent)
    <3>1. Len(sent) \in Nat /\ Taken \in Nat  BY TypeFacts, Facts
    <3> QED BY <1>6, <3>1
  <2> QED BY <1>2, <1>4, <1>8, <2>1, BufferedIsNext
<1>10. Spoke'
  <2>1. \A i \in 1 .. Taken + 1 : sent[i].says # None
    <3>1. \A i \in 1 .. Taken : sent[i].says # None  BY <1>3 DEF Spoke
    <3>2. Taken \in Nat  BY Facts
    <3>3. \A i \in 1 .. Taken + 1 : i = Taken + 1 \/ i \in 1 .. Taken
      BY <3>2, LastOrBefore
    <3> QED BY <1>6, <3>1, <3>3
  <2>2. task'[w].packet = sent[Taken + 1].says  BY <1>4, <1>6
  <2>3. task'[w].at # "unpacked"  BY <1>4
  <2>4. \A v \in Worker : v # w => task'[v].at = "idle"  BY <1>4 DEF Others, Idle
  <2> QED BY <1>2, <1>4, <1>7, <2>1, <2>2, <2>3, <2>4 DEF Spoke
<1>11. InOrder'  BY <1>2, <1>3 DEF InOrder
<1>12. NeverRefused'  BY <1>7 DEF NeverRefused
<1>13. Alone'  BY <1>4, AloneNext
<1> QED BY <1>9, <1>10, <1>11, <1>12, <1>13 DEF Sound

LEMMA HandleTypes ==
  ASSUME TypeOK, Written, NEW w \in Worker, Handle(w)
  PROVE  TypeOK' /\ Written'
<1>1. /\ task[w].at = "erased" /\ handled' = Append(handled, task[w].packet)
      /\ task' = [task EXCEPT ![w] = Idle]
  BY DEF Handle
<1>2. UNCHANGED <<sent, ends, stream, read, m_recvBuff, tasks, crashed, merged, overlap>>
      /\ open' = (open /\ ~Unacceptable(task[w].packet))
  BY DEF Handle, client
<1>3. /\ sent \in Seq(Packet) /\ Len(sent) =< MaxPackets /\ DOMAIN task = Worker
      /\ ends \in Seq(Nat) /\ stream \in Seq(Byte) /\ m_recvBuff \in Seq(Byte)
      /\ read \in 0 .. Len(stream) /\ tasks \in 0 .. MaxTasks
      /\ open \in BOOLEAN /\ crashed \in BOOLEAN /\ merged \in BOOLEAN /\ overlap \in BOOLEAN
  BY DEF TypeOK
<1>4. handled' \in Seq(Says)
  <2>1. task[w] # Idle /\ task[w].at # "unpacked"  BY <1>1 DEF Idle
  <2>2. task[w].packet \in Says  BY <2>1 DEF TypeOK
  <2> QED BY <1>1, <2>2, TypeFacts, AppendProperties
<1>5. DOMAIN task' = Worker  BY <1>1, <1>3
<1>6. ASSUME NEW v \in Worker
      PROVE  \/ task'[v] = Idle
             \/ /\ task'[v].at = "unpacked" /\ task'[v].packet \in Says
                /\ task'[v].pkt_len \in Nat \ {0}
                /\ overlap \/ task'[v].pkt_len =< Len(m_recvBuff)
             \/ task'[v].at = "erased" /\ task'[v].packet \in Says
  <2>1. v = w => task'[v] = Idle  BY <1>1, <1>3
  <2>2. v # w => task'[v] = task[v]  BY <1>1, <1>3
  <2> QED BY <2>1, <2>2 DEF TypeOK
<1>9. open' \in BOOLEAN  BY <1>2
<1>7. TypeOK'  BY <1>2, <1>3, <1>4, <1>5, <1>6, <1>9 DEF TypeOK
<1>8. Written'  BY <1>2, WrittenIs, WrittenIsNext
<1> QED BY <1>7, <1>8

LEMMA HandleTaken ==
  ASSUME TypeOK, Alone, NEW w \in Worker, Handle(w)
  PROVE  /\ Others(task, w) /\ Others(task', w)
         /\ task[w].at = "erased" /\ task'[w] = Idle
         /\ handled' = Append(handled, task[w].packet)
         /\ handled' \in Seq(Says) /\ Len(handled') = Len(handled) + 1
         /\ Taken = Len(handled) + 1 /\ Taken' = Taken
<1>1. /\ task[w].at = "erased" /\ handled' = Append(handled, task[w].packet)
      /\ task' = [task EXCEPT ![w] = Idle]
  BY DEF Handle
<1>2. DOMAIN task = Worker /\ handled \in Seq(Says)  BY DEF TypeOK
<1>3. task'[w] = Idle  BY <1>1, <1>2
<1>4. task[w] # Idle  BY <1>1 DEF Idle
<1>5. Others(task, w)  BY <1>4, AtWork
<1>6. Others(task', w)  BY <1>1, <1>2, <1>5 DEF Others
<1>7. handled' \in Seq(Says) /\ Len(handled') = Len(handled) + 1
  <2>1. task[w].at # "unpacked"  BY <1>1
  <2>2. task[w].packet \in Says  BY <1>4, <2>1 DEF TypeOK
  <2> QED BY <1>1, <1>2, <2>2, AppendProperties
<1>8. Taken = Len(handled) + 1  BY <1>1, <1>5, TakenAt
<1>9. Taken' = Len(handled')
  <2>1. task'[w].at # "erased"  BY <1>3 DEF Idle
  <2> QED BY <1>6, <2>1, TakenAtNext
<1> QED BY <1>1, <1>3, <1>5, <1>6, <1>7, <1>8, <1>9

\* What the handler gets is the packet that was taken.
LEMMA HandleStep ==
  ASSUME TypeOK, Written, Sound, NEW w \in Worker, Handle(w)
  PROVE  Sound'
<1>1. /\ task[w].at = "erased" /\ handled' = Append(handled, task[w].packet)
      /\ task' = [task EXCEPT ![w] = Idle]
  BY DEF Handle
<1>2. UNCHANGED <<sent, ends, stream, read, m_recvBuff, tasks, crashed, merged, overlap>>
      /\ open' = (open /\ ~Unacceptable(task[w].packet))
  BY DEF Handle, client
<1>3. Alone /\ Spoke /\ InOrder /\ NeverRefused /\ Buffered  BY DEF Sound
<1>4. /\ Others(task', w) /\ task'[w] = Idle
      /\ handled' \in Seq(Says) /\ Len(handled') = Len(handled) + 1
      /\ Taken = Len(handled) + 1 /\ Taken' = Taken
  BY <1>3, HandleTaken
<1>5. task[w] # Idle  BY <1>1 DEF Idle
<1>6. Len(handled) \in Nat /\ Len(sent) \in Nat  BY TypeFacts
<1>7. task[w].packet = sent[Taken].says  BY <1>1, <1>3 DEF Spoke
<1>8. /\ DOMAIN handled' = 1 .. Len(handled) + 1
      /\ \A i \in 1 .. Len(handled) : handled'[i] = handled[i]
      /\ handled'[Len(handled) + 1] = sent[Taken].says
  <2>1. task[w].at # "unpacked"  BY <1>1
  <2>2. task[w].packet \in Says  BY <1>5, <2>1 DEF TypeOK
  <2> QED BY <1>1, <1>4, <1>7, <2>2, TypeFacts, AppendProperties
<1>9. Stopped' => OtherLevel'
  <2>1. ASSUME Stopped  PROVE OtherLevel'
    <3>1. OtherLevel  BY <1>3, <1>5, <2>1 DEF Spoke
    <3>2. PICK i \in DOMAIN handled : Unacceptable(handled[i])  BY <3>1 DEF OtherLevel
    <3>3. i \in 1 .. Len(handled) /\ i \in DOMAIN handled'  BY <1>6, <1>8, TypeFacts
    <3> QED BY <1>8, <3>2, <3>3 DEF OtherLevel
  <2>2. ASSUME Unacceptable(task[w].packet)  PROVE OtherLevel'
    <3>1. Len(handled) + 1 \in DOMAIN handled'  BY <1>6, <1>8
    <3>2. Unacceptable(handled'[Len(handled) + 1])  BY <1>7, <1>8, <2>2
    <3> QED BY <3>1, <3>2 DEF OtherLevel
  <2> QED BY <1>2, <2>1, <2>2 DEF Stopped
<1>10. Buffered'  BY <1>2, <1>3, <1>4, BufferedIs, BufferedIsNext
<1>11. Spoke'
  <2>1. \A i \in 1 .. Taken : sent[i].says # None  BY <1>3 DEF Spoke
  <2>2. \A v \in Worker : task'[v] = Idle /\ task'[v].at = "idle"
    BY <1>4 DEF Others, Idle
  <2> QED BY <1>2, <1>4, <2>1, <2>2 DEF Spoke
<1>12. InOrder'
  <2>1. DOMAIN handled = 1 .. Len(handled)  BY TypeFacts
  <2>2. Len(handled') =< Len(sent)  BY <1>4, <1>6, Facts
  <2>3. ASSUME NEW i \in 1 .. Len(handled) + 1
        PROVE  handled'[i] = sent[i].says
    <3>1. CASE i = Len(handled) + 1
      BY <1>4, <1>8, <3>1
    <3>2. CASE i \in 1 .. Len(handled)
      <4>1. handled[i] = sent[i].says  BY <1>3, <2>1, <3>2 DEF InOrder
      <4> QED BY <1>8, <3>2, <4>1
    <3> QED BY <1>6, <3>1, <3>2, LastOrBefore
  <2> QED BY <1>2, <1>8, <2>2, <2>3 DEF InOrder
<1>13. NeverRefused'  BY <1>9 DEF NeverRefused
<1>14. Alone'  BY <1>4, AloneNext
<1> QED BY <1>10, <1>11, <1>12, <1>13, <1>14 DEF Sound

LEMMA ReceiveInit ==
  ASSUME Init
  PROVE  ReceiveInv
<1>1. /\ sent = <<>> /\ ends = <<>> /\ stream = <<>> /\ read = 0
      /\ m_recvBuff = <<>> /\ tasks = 0 /\ task = [w \in Worker |-> Idle]
      /\ handled = <<>> /\ open = TRUE /\ crashed = FALSE
      /\ merged = FALSE /\ overlap = FALSE
  BY DEF Init
<1>2. \A w \in Worker : task[w] = Idle /\ task[w].at = "idle"  BY <1>1 DEF Idle
<1>3. Taken = 0  BY <1>1, <1>2 DEF Taken
<1>4. TypeOK
  <2>1. MaxPackets \in Nat /\ MaxTasks \in Nat  BY ReceiveAssumption
  <2>2. \A S : <<>> \in Seq(S)  BY EmptySeq
  <2>3. sent \in Seq(Packet) /\ ends \in Seq(Nat) /\ stream \in Seq(Byte)
        /\ m_recvBuff \in Seq(Byte) /\ handled \in Seq(Says)
    BY <1>1, <2>2
  <2>4. Len(sent) = 0 /\ Len(stream) = 0  BY <1>1
  <2>5. Len(sent) =< MaxPackets /\ read \in 0 .. Len(stream)
        /\ tasks \in 0 .. MaxTasks
    BY <1>1, <2>1, <2>4
  <2>6. DOMAIN task = Worker  BY <1>1
  <2>7. open \in BOOLEAN /\ crashed \in BOOLEAN /\ merged \in BOOLEAN /\ overlap \in BOOLEAN  BY <1>1
  <2> QED BY <1>2, <2>3, <2>4, <2>5, <2>6, <2>7 DEF TypeOK
<1>5. Written  BY <1>1 DEF Written, Start
<1>6. Buffered  BY <1>1, <1>3 DEF Buffered, Start
<1>7. Spoke  BY <1>1, <1>2, <1>3 DEF Spoke, Stopped
<1>8. InOrder /\ NeverRefused  BY <1>1 DEF InOrder, NeverRefused, Stopped, OtherLevel
<1>9. Alone  BY <1>2 DEF Alone
<1>10. Sound  BY <1>6, <1>7, <1>8, <1>9 DEF Sound
<1> QED BY <1>4, <1>5, <1>10, SoundInv

\* Nothing but Unpack, which stops at it, concerns overlap.
LEMMA ReceiveStep ==
  ASSUME ReceiveInv, [Next]_vars
  PROVE  ReceiveInv'
<1>1. TypeOK /\ Written /\ (overlap \/ Sound)  BY SoundInv
<1>2. CASE \E p \in Packet : Send(p)
  <2>1. PICK p \in Packet : Send(p)  BY <1>2
  <2>2. overlap' = overlap  BY <2>1 DEF Send
  <2>3. TypeOK' /\ Written'  BY <1>1, <2>1, SendTypes
  <2>4. Sound => Sound'  BY <1>1, <2>1, SendStep
  <2> QED BY <1>1, <2>2, <2>3, <2>4, SoundInvNext
<1>3. CASE \E n \in Piece : SessionEvent(n)
  <2>1. PICK n \in Piece : SessionEvent(n)  BY <1>3
  <2>2. overlap' = overlap  BY <2>1 DEF SessionEvent
  <2>3. TypeOK' /\ Written'  BY <1>1, <2>1, EventTypes
  <2>4. Sound => Sound'  BY <1>1, <2>1, EventStep
  <2> QED BY <1>1, <2>2, <2>3, <2>4, SoundInvNext
<1>4. CASE \E w \in Worker : parseData(w)
  <2>1. PICK w \in Worker : parseData(w)  BY <1>4
  <2>2. CASE Unpack(w)
    <3>1. Sound  BY <1>1, <2>2 DEF Unpack
    <3>2. TypeOK' /\ Written'  BY <1>1, <2>2, <3>1, UnpackTypes
    <3>3. ~overlap' => Sound'  BY <1>1, <2>2, <3>1, UnpackStep
    <3> QED BY <3>2, <3>3, SoundInvNext
  <2>3. CASE Erase(w)
    <3>1. overlap' = overlap  BY <2>3 DEF Erase
    <3>2. overlap \/ Alone  BY <1>1 DEF Sound
    <3>3. TypeOK' /\ Written'  BY <1>1, <2>3, <3>2, EraseTypes
    <3>4. ~overlap => Sound'  BY <1>1, <2>3, EraseStep
    <3> QED BY <3>1, <3>3, <3>4, SoundInvNext
  <2>4. CASE Handle(w)
    <3>1. overlap' = overlap  BY <2>4 DEF Handle
    <3>2. TypeOK' /\ Written'  BY <1>1, <2>4, HandleTypes
    <3>3. Sound => Sound'  BY <1>1, <2>4, HandleStep
    <3> QED BY <1>1, <3>1, <3>2, <3>3, SoundInvNext
  <2> QED BY <2>1, <2>2, <2>3, <2>4 DEF parseData
<1>5. CASE UNCHANGED vars
  <2>1. UNCHANGED <<sent, ends, stream, read, m_recvBuff, tasks, task, handled,
                    open, crashed, merged, overlap>>
    BY <1>5 DEF vars, client
  <2>2. TypeOK'  BY <1>1, <2>1 DEF TypeOK
  <2>3. Written'  BY <1>1, <2>1, WrittenIs, WrittenIsNext
  <2>4. ASSUME Sound  PROVE Sound'
    <3>1. Alone /\ Spoke /\ InOrder /\ NeverRefused /\ Buffered  BY <2>4 DEF Sound
    <3>2. Taken' = Taken  BY <2>1 DEF Taken
    <3>3. Buffered'  BY <2>1, <3>1, <3>2, BufferedIs, BufferedIsNext
    <3>4. Spoke'  BY <2>1, <3>1, <3>2 DEF Spoke, Stopped, OtherLevel
    <3>5. Alone' /\ InOrder' /\ NeverRefused'
      BY <2>1, <3>1 DEF Alone, InOrder, NeverRefused, Stopped, OtherLevel
    <3> QED BY <3>3, <3>4, <3>5 DEF Sound
  <2> QED BY <1>1, <2>1, <2>2, <2>3, <2>4, SoundInvNext
<1> QED BY <1>2, <1>3, <1>4, <1>5 DEF Next

-----------------------------------------------------------------------------
(***************************************************************************)
(* What build_publish writes is the frame of a body that reads back.       *)
(***************************************************************************)
\* unpack_u16 reads what pack_u16 writes.
LEMMA TwoBytes ==
  ASSUME NEW n \in Nat, n < 256 * 256
  PROVE  /\ pack_u16(n) \in Seq(Byte) /\ Len(pack_u16(n)) = 2
         /\ 256 * pack_u16(n)[1] + pack_u16(n)[2] = n
<1> DEFINE a == n \div 256
           b == n % 256
<1>1. a \in 0 .. 255 /\ b \in 0 .. 255 /\ 256 * a + b = n  OBVIOUS
<1> HIDE DEF a, b
<1>2. pack_u16(n) = <<a, b>>  BY DEF pack_u16, a, b
<1> QED BY <1>1, <1>2 DEF Byte

\* A string and what lies behind it
LEMMA StringRoundTrip ==
  ASSUME NEW s \in Seq(Byte), Len(s) < 256 * 256, NEW rest \in Seq(Byte)
  PROVE  LET bytes == Joined(Joined(pack_u16(Len(s)), s), rest)
         IN  /\ bytes \in Seq(Byte) /\ Len(bytes) = 2 + Len(s) + Len(rest)
             /\ unpack_string16(bytes) = s
             /\ After16(bytes) = rest
<1>1. PICK n \in Nat : n = Len(s)  OBVIOUS
<1> DEFINE u == pack_u16(n)
           us == Joined(u, s)
           bytes == Joined(us, rest)
<1> HIDE DEF u, us, bytes
<1>2. u \in Seq(Byte) /\ Len(u) = 2 /\ 256 * u[1] + u[2] = n
  BY <1>1, TwoBytes DEF u
<1>3. /\ us \in Seq(Byte) /\ Len(us) = 2 + n
      /\ \A i \in 1 .. 2 : us[i] = u[i]
      /\ From(us, 2 + 1) = s
  <2>1. /\ us \in Seq(Byte) /\ Len(us) = Len(u) + Len(s)
        /\ \A i \in 1 .. Len(u) : us[i] = u[i]
        /\ From(us, Len(u) + 1) = s
    BY <1>2, JoinedParts DEF us
  <2>2. Len(u) = 2 /\ Len(s) = n  BY <1>1, <1>2
  <2> QED BY <2>1, <2>2
<1>4. /\ bytes \in Seq(Byte) /\ Len(bytes) = 2 + n + Len(rest)
      /\ \A i \in 1 .. 2 + n : bytes[i] = us[i]
      /\ From(bytes, 2 + n + 1) = rest
  <2>1. /\ bytes \in Seq(Byte) /\ Len(bytes) = Len(us) + Len(rest)
        /\ \A i \in 1 .. Len(us) : bytes[i] = us[i]
        /\ From(bytes, Len(us) + 1) = rest
    BY <1>3, JoinedParts DEF bytes
  <2>2. Len(us) = 2 + n  BY <1>3
  <2> QED BY <2>1, <2>2
<1>5. unpack_u16(bytes) = n
  <2>1. 1 \in 1 .. 2 + n /\ 2 \in 1 .. 2 + n  OBVIOUS
  <2>2. bytes[1] = u[1] /\ bytes[2] = u[2]  BY <1>3, <1>4, <2>1
  <2> QED BY <1>2, <2>2 DEF unpack_u16
<1>6. SubSeq(bytes, 2 + 1, 2 + n) = s
  <2> DEFINE b == SubSeq(bytes, 2 + 1, 2 + n)
             c == SubSeq(us, 2 + 1, 2 + n)
  <2> HIDE DEF b, c
  <2>1. 2 + n =< Len(bytes) /\ bytes \in Seq(Byte)
    <3>1. Len(rest) \in Nat  OBVIOUS
    <3> QED BY <1>4, <3>1
  <2>2. b \in Seq(Byte) /\ Len(b) = n /\ \A i \in 1 .. n : b[i] = bytes[2 + i]
    BY <2>1, Part DEF b
  <2>3. c \in Seq(Byte) /\ Len(c) = n /\ \A i \in 1 .. n : c[i] = us[2 + i]
    BY <1>3, Part DEF c
  <2>4. c = s  BY <1>3 DEF c, From
  <2>5. \A i \in 1 .. n : 2 + i \in 1 .. 2 + n  OBVIOUS
  <2>6. \A i \in 1 .. n : b[i] = c[i]  BY <1>4, <2>2, <2>3, <2>5
  <2>7. b = c  BY <2>2, <2>3, <2>6, SeqEqual
  <2> QED BY <2>4, <2>7 DEF b
<1>7. unpack_string16(bytes) = s  BY <1>5, <1>6 DEF unpack_string16
<1>8. After16(bytes) = rest
  <2>1. 3 + n = 2 + n + 1  OBVIOUS
  <2> QED BY <1>4, <1>5, <2>1 DEF After16
<1> QED BY <1>1, <1>4, <1>7, <1>8 DEF bytes, us, u

LEMMA JoinedAssociative ==
  ASSUME NEW s \in Seq(Byte), NEW t \in Seq(Byte), NEW u \in Seq(Byte)
  PROVE  Joined(Joined(s, t), u) = Joined(s, Joined(t, u))
<1>1. (s \o t) \o u = s \o (t \o u)  BY ConcatAssociative
<1> QED BY <1>1, Zenon DEF Joined

\* The six parts of a PUBLISH, as build_publish and as Frame join them
LEMMA Grouped ==
  ASSUME NEW a \in Seq(Byte), NEW b \in Seq(Byte), NEW c \in Seq(Byte),
         NEW d \in Seq(Byte), NEW e \in Seq(Byte)
  PROVE  Joined(Joined(Joined(Joined(a, b), c), d), e)
           = Joined(a, Joined(Joined(b, c), Joined(d, e)))
<1> DEFINE bc == Joined(b, c)
           de == Joined(d, e)
<1>1. bc \in Seq(Byte) /\ de \in Seq(Byte)  BY JoinedParts
<1>2. Joined(Joined(a, b), c) = Joined(a, bc)  BY JoinedAssociative
<1> HIDE DEF bc, de
<1>3. Joined(a, bc) \in Seq(Byte)  BY <1>1, JoinedParts
<1>4. Joined(Joined(Joined(a, bc), d), e) = Joined(Joined(a, bc), de)
  BY <1>3, JoinedAssociative DEF de
<1>5. Joined(Joined(a, bc), de) = Joined(a, Joined(bc, de))
  BY <1>1, JoinedAssociative
<1> QED BY <1>2, <1>4, <1>5 DEF bc, de

\* The body build_publish writes
Identifier(h) == IF h.qos > 0 THEN pack_u16(0) ELSE <<>>
IdSize(h) == IF h.qos > 0 THEN 2 ELSE 0
Built(h, pkt) ==
  Joined(Joined(pack_u16(Len(pkt.topic)), pkt.topic), Joined(Identifier(h), pkt.payload))

LEMMA IdentifierBytes ==
  ASSUME NEW h \in Headers
  PROVE  /\ Identifier(h) \in Seq(Byte)
         /\ Len(Identifier(h)) = IdSize(h)
         /\ h.qos > 0 => 256 * Identifier(h)[1] + Identifier(h)[2] = 0
<1>1. CASE h.qos > 0
  <2>1. Identifier(h) = pack_u16(0)  BY <1>1 DEF Identifier
  <2>2. IdSize(h) = 2  BY <1>1 DEF IdSize
  <2> QED BY <2>1, <2>2, TwoBytes
<1>2. CASE ~(h.qos > 0)
  <2>1. Identifier(h) = <<>>  BY <1>2 DEF Identifier
  <2>2. IdSize(h) = 0  BY <1>2 DEF IdSize
  <2> QED BY <1>2, <2>1, <2>2, EmptySeq
<1> QED BY <1>1, <1>2

LEMMA Sizes ==
  ASSUME NEW h, NEW t \in Nat, NEW p \in Nat, t + p + 4 < 128 * 128 * 128
  PROVE  2 + t + p + IdSize(h) \in Nat /\ 2 + t + p + IdSize(h) < 128 * 128 * 128
BY DEF IdSize

\* unpack_publish reads that body as the packet, with identifier 0.
LEMMA BuiltReads ==
  ASSUME NEW h \in Headers, NEW pkt, pkt.topic \in Seq(Byte),
         Len(pkt.topic) < 256 * 256, pkt.payload \in Seq(Byte)
  PROVE  /\ Built(h, pkt) \in Seq(Byte)
         /\ Len(Built(h, pkt)) = 2 + Len(pkt.topic) + Len(pkt.payload) + IdSize(h)
         /\ unpack_publish(h, Built(h, pkt)) =
              [topic |-> pkt.topic, packet_id |-> 0, payload |-> pkt.payload]
<1>1. PICK t, p : t = pkt.topic /\ p = pkt.payload  OBVIOUS
<1>2. t \in Seq(Byte) /\ p \in Seq(Byte) /\ Len(t) < 256 * 256  BY <1>1
<1> DEFINE id == Identifier(h)
           rest == Joined(id, p)
           body == Joined(Joined(pack_u16(Len(t)), t), rest)
<1> HIDE DEF id, rest, body
<1>3. /\ id \in Seq(Byte) /\ Len(id) = IdSize(h)
      /\ h.qos > 0 => 256 * id[1] + id[2] = 0
  BY IdentifierBytes DEF id
<1>4. /\ rest \in Seq(Byte) /\ Len(rest) = Len(id) + Len(p)
      /\ \A i \in 1 .. Len(id) : rest[i] = id[i]
      /\ From(rest, Len(id) + 1) = p
  BY <1>2, <1>3, JoinedParts DEF rest
<1>5. /\ body \in Seq(Byte) /\ Len(body) = 2 + Len(t) + Len(rest)
      /\ unpack_string16(body) = t /\ After16(body) = rest
  BY <1>2, <1>4, StringRoundTrip DEF body
<1>6. unpack_publish(h, body) = [topic |-> t, packet_id |-> 0, payload |-> p]
  <2>1. CASE h.qos > 0
    <3>1. Len(id) = 2 /\ 256 * id[1] + id[2] = 0  BY <1>3, <2>1 DEF IdSize
    <3>2. From(rest, 3) = p  BY <1>4, <3>1
    <3>3. rest[1] = id[1] /\ rest[2] = id[2]  BY <1>4, <3>1
    <3>4. unpack_u16(rest) = 0  BY <3>1, <3>3 DEF unpack_u16
    <3> QED BY <1>5, <2>1, <3>2, <3>4 DEF unpack_publish
  <2>2. CASE ~(h.qos > 0)
    <3>1. Len(id) = 0  BY <1>3, <2>2 DEF IdSize
    <3>2. Len(rest) = Len(p) /\ From(rest, 1) = p
      <4>1. Len(p) \in Nat  BY <1>2
      <4> QED BY <1>4, <3>1, <4>1
    <3>3. SubSeq(rest, 1, Len(rest)) = rest  BY <1>4, SubSeqFull
    <3>4. rest = p  BY <3>2, <3>3 DEF From
    <3> QED BY <1>5, <2>2, <3>4 DEF unpack_publish
  <2> QED BY <2>1, <2>2
<1>7. Len(body) = 2 + Len(t) + Len(p) + IdSize(h)
  <2>1. Len(t) \in Nat /\ Len(p) \in Nat /\ IdSize(h) \in Nat  BY <1>2 DEF IdSize
  <2>2. Len(rest) = IdSize(h) + Len(p)  BY <1>3, <1>4
  <2>3. \A x, y, z \in Nat : 2 + x + (y + z) = 2 + x + z + y  OBVIOUS
  <2> QED BY <1>5, <2>1, <2>2, <2>3
<1>8. Built(h, pkt) = body  BY <1>1 DEF Built, body, rest, id
<1> QED BY <1>1, <1>5, <1>6, <1>7, <1>8

\* build_publish writes the frame of that body.
LEMMA BuiltFramed ==
  ASSUME NEW m, m.header \in Headers, m.pkt.topic \in Seq(Byte),
         Len(m.pkt.topic) < 256 * 256, m.pkt.payload \in Seq(Byte),
         Len(m.pkt.topic) + Len(m.pkt.payload) + 4 < 128 * 128 * 128
  PROVE  build_publish(m) = Frame(m.header, Built(m.header, m.pkt))
<1>1. PICK h, t, p : h = m.header /\ t = m.pkt.topic /\ p = m.pkt.payload  OBVIOUS
<1>2. /\ h \in Headers /\ t \in Seq(Byte) /\ p \in Seq(Byte)
      /\ Len(t) < 256 * 256 /\ Len(t) + Len(p) + 4 < 128 * 128 * 128
  BY <1>1
<1> DEFINE id == Identifier(h)
           u == pack_u16(Len(t))
           size == 2 + Len(t) + Len(p) + IdSize(h)
           a == <<HeaderPack(h)>> \o encode_length(size)
<1> HIDE DEF id, u, size, a
<1>3. id \in Seq(Byte) /\ u \in Seq(Byte) /\ size \in Nat /\ size < 128 * 128 * 128
  <2>1. Len(t) \in Nat /\ Len(p) \in Nat  BY <1>2
  <2>2. u \in Seq(Byte)  BY <1>2, <2>1, TwoBytes DEF u
  <2>3. size \in Nat /\ size < 128 * 128 * 128  BY <1>2, <2>1, Sizes DEF size
  <2> QED BY <1>2, <2>2, <2>3, IdentifierBytes DEF id
<1>4. a \in Seq(Byte)
  <2>1. encode_length(size) \in Seq(Byte)  BY <1>3, EncodeShape
  <2>2. <<HeaderPack(h)>> \in Seq(Byte)  BY <1>2, HeaderRoundTrip
  <2> QED BY <2>1, <2>2, ConcatProperties DEF a
<1>5. PICK body : body = Built(m.header, m.pkt)  OBVIOUS
<1>6. body = Joined(Joined(u, t), Joined(id, p))
  BY <1>1, <1>5 DEF Built, u, id
<1>7. build_publish(m) = Joined(Joined(Joined(Joined(a, u), t), id), p)
  BY <1>1 DEF build_publish, pack_string16, Joined, Identifier, IdSize, a, size, u, id
<1>8. build_publish(m) = Joined(a, body)
  BY <1>2, <1>3, <1>4, <1>6, <1>7, Grouped
<1>9. Len(body) = size  BY <1>1, <1>2, <1>5, BuiltReads DEF size
<1>10. Frame(h, body) = Joined(a, body)  BY <1>9 DEF Frame, Joined, a
<1> QED BY <1>1, <1>5, <1>8, <1>10

\* A packet built of a publication is unpacked as that publication.
LEMMA PublishSent ==
  ASSUME NEW m, m.header \in Headers, Publication(m), NEW past \in Byte
  PROVE  unpack(build_publish(m), past) =
           [rc |-> "ok", pkt_len |-> Len(build_publish(m)),
            packet |-> [m EXCEPT !.pkt.packet_id = 0]]
<1>1. /\ m.header.type = PUBLISH
      /\ m.pkt.topic \in Seq(Byte) /\ Len(m.pkt.topic) < 256 * 256
      /\ m.pkt.payload \in Seq(Byte)
      /\ Len(m.pkt.topic) + Len(m.pkt.payload) + 4 < 128 * 128 * 128
      /\ m = [header |-> m.header,
              pkt |-> [topic |-> m.pkt.topic, packet_id |-> m.pkt.packet_id,
                       payload |-> m.pkt.payload]]
  BY DEF Publication
<1>2. PICK h, body, f : /\ h = m.header /\ body = Built(m.header, m.pkt)
                        /\ f = build_publish(m)
  OBVIOUS
<1>3. /\ body \in Seq(Byte)
      /\ Len(body) = 2 + Len(m.pkt.topic) + Len(m.pkt.payload) + IdSize(h)
      /\ unpack_publish(h, body) =
           [topic |-> m.pkt.topic, packet_id |-> 0, payload |-> m.pkt.payload]
  BY <1>1, <1>2, BuiltReads
<1>4. f = Frame(h, body)  BY <1>1, <1>2, BuiltFramed
<1>5. Len(body) < 128 * 128 * 128
  <2>1. Len(m.pkt.topic) \in Nat /\ Len(m.pkt.payload) \in Nat  BY <1>1
  <2>2. 2 + Len(m.pkt.topic) + Len(m.pkt.payload) + IdSize(h) < 128 * 128 * 128
    BY <1>1, <2>1, Sizes
  <2> QED BY <1>3, <2>2, Zenon
<1>6. h \in Headers /\ h.type = 3  BY <1>1, <1>2 DEF PUBLISH
<1>7. h.type \in Kinds  BY <1>6 DEF Kinds, PUBLISH
<1>8. ~Refused(h, body)  BY <1>6 DEF Refused, CONNECT, UNSUBSCRIBE
<1>9. Body(h, body) = unpack_publish(h, body)
  BY <1>6 DEF Body, CONNECT, PUBLISH, SUBSCRIBE, UNSUBSCRIBE
<1>10. f \in Seq(Byte)  BY <1>3, <1>4, <1>5, <1>6, FrameBytes
<1>11. PICK pkt : pkt = [header |-> h, pkt |-> Body(h, body)]  OBVIOUS
<1>12. ASSUME NEW q \in Seq(Byte), Len(f) =< Len(q), \A i \in 1 .. Len(f) : q[i] = f[i]
       PROVE  unpack(q, past) = [rc |-> "ok", pkt_len |-> Len(f), packet |-> pkt]
  <2>1. unpack(q, past) = IF Refused(h, body) THEN [rc |-> "error"]
                          ELSE [rc |-> "ok", pkt_len |-> Len(f),
                                packet |-> [header |-> h, pkt |-> Body(h, body)]]
    BY <1>3, <1>4, <1>5, <1>6, <1>7, <1>12, FrontWhole
  <2> QED BY <1>8, <1>11, <2>1
<1>13. unpack(f, past) = [rc |-> "ok", pkt_len |-> Len(f), packet |-> pkt]
  <2>1. Len(f) =< Len(f) /\ \A i \in 1 .. Len(f) : f[i] = f[i]  BY <1>10
  <2> QED BY <1>10, <1>12, <2>1, Zenon
<1>14. pkt = [m EXCEPT !.pkt.packet_id = 0]
  BY <1>1, <1>2, <1>3, <1>9, <1>11
<1> QED BY <1>2, <1>13, <1>14

-----------------------------------------------------------------------------
(***************************************************************************)
(* parseData is called often enough.                                       *)
(***************************************************************************)
\* Work that w promises: a packet unpacked is a packet that will be taken.
Holds(t) == IF t.at = "unpacked" THEN 1 ELSE 0

LEMMA PromisedAt ==
  ASSUME NEW w \in Worker, Others(task, w)
  PROVE  Promised = Taken + tasks + Holds(task[w])
BY DEF Promised, Holds, Others, Idle

LEMMA PromisedAtNext ==
  ASSUME NEW w \in Worker, Others(task', w)
  PROVE  Promised' = Taken' + tasks' + Holds(task'[w])
BY DEF Promised, Holds, Others, Idle

LEMMA PromisedNat ==
  ASSUME TypeOK, Taken \in Nat
  PROVE  Promised \in Nat /\ Promised >= Taken
<1>1. tasks \in Nat  BY ReceiveAssumption DEF TypeOK
<1> QED BY <1>1 DEF Promised

LEMMA OwedAfter ==
  ASSUME UNCHANGED <<sent, ends, read>>, Taken' = Taken, Promised' = Promised, Owed
  PROVE  Owed'
BY DEF Owed, Blocked

LEMMA TwoOfThem ==
  ASSUME NEW S, IsFiniteSet(S), NEW x \in S, NEW y \in S, x # y
  PROVE  Cardinality(S) > 1
<1>1. Cardinality(S) \in Nat  BY FS_CardinalityType
<1>2. Cardinality(S) # 0  BY FS_EmptySet
<1>3. Cardinality(S) # 1
  <2>1. ~ \E z : S = {z}  OBVIOUS
  <2> QED BY <2>1, FS_Singleton
<1> QED BY <1>1, <1>2, <1>3

LEMMA SendOrdered ==
  ASSUME TypeOK, Written, Ordered, NEW p \in Packet, Send(p)
  PROVE  /\ Ordered' /\ Len(stream') \in Nat /\ Len(stream') > Len(stream)
         /\ Len(sent') = Len(sent) + 1
         /\ \A i \in 1 .. Len(sent) : sent'[i] = sent[i] /\ ends'[i] = ends[i]
         /\ ends'[Len(sent) + 1] = Len(stream')
<1>1. /\ sent' = Append(sent, p) /\ ends' = Append(ends, Len(stream'))
      /\ stream' = Joined(stream, p.bytes)
  BY DEF Send, Joined
<1>2. PICK k \in Nat : k = Len(sent)  BY TypeFacts
<1>3. Len(ends) = k  BY <1>2, TypeFacts
<1>4. Len(stream') \in Nat /\ Len(stream') > Len(stream)
  <2>1. p.bytes \in Seq(Byte) /\ p.bytes # <<>>  BY PacketBytes
  <2>2. Len(p.bytes) \in Nat /\ Len(p.bytes) # 0  BY <2>1, EmptySeq
  <2>3. Len(stream') = Len(stream) + Len(p.bytes)
    BY <1>1, <2>1, TypeFacts, JoinedParts
  <2>4. Len(stream) \in Nat  BY TypeFacts
  <2> QED BY <2>2, <2>3, <2>4
<1>5. /\ Len(sent') = k + 1 /\ \A i \in 1 .. k : sent'[i] = sent[i]
      /\ \A i \in 1 .. k : ends'[i] = ends[i]
      /\ ends'[k + 1] = Len(stream')
  BY <1>1, <1>2, <1>3, <1>4, TypeFacts, AppendProperties
<1>6. \A i \in 1 .. k : ends[i] \in Nat /\ ends[i] =< Len(stream)
  BY <1>2, <1>3, TypeFacts DEF IsWritten
<1>7. Len(stream) \in Nat  BY TypeFacts
<1>8. Ordered'
  <2> SUFFICES ASSUME NEW i \in 1 .. k + 1, NEW j \in 1 .. k + 1, i < j
               PROVE  ends'[i] < ends'[j]
    BY <1>5 DEF Ordered
  <2>1. i \in 1 .. k /\ (j \in 1 .. k \/ j = k + 1)  OBVIOUS
  <2>2. CASE j \in 1 .. k
    <3>1. ends[i] < ends[j]  BY <1>2, <2>1, <2>2 DEF Ordered
    <3> QED BY <1>5, <2>1, <2>2, <3>1
  <2>3. CASE j = k + 1
    <3>1. ends[i] < Len(stream')  BY <1>4, <1>6, <1>7, <2>1
    <3> QED BY <1>5, <2>1, <2>3, <3>1
  <2> QED BY <2>1, <2>2, <2>3
<1> QED BY <1>2, <1>4, <1>5, <1>8

LEMMA SendOwed ==
  ASSUME TypeOK, Written, Sound, Ordered, Owed, NEW p \in Packet, Send(p)
  PROVE  Owed'
<1>1. UNCHANGED <<read, tasks, task, handled>>  BY DEF Send
<1>2. PICK k \in Nat : k = Len(sent)  BY TypeFacts
<1>3. /\ Len(stream') \in Nat /\ Len(stream') > Len(stream) /\ Len(sent') = k + 1
      /\ \A i \in 1 .. k : sent'[i] = sent[i] /\ ends'[i] = ends[i]
      /\ ends'[k + 1] = Len(stream')
  BY <1>2, SendOrdered
<1>4. Taken' = Taken  BY <1>1 DEF Taken
<1>5. Promised' = Promised  BY <1>1, <1>4 DEF Promised
<1>6. ASSUME Blocked PROVE Blocked'
  <2>1. Taken \in Nat /\ Taken < k /\ sent[Taken + 1].says = None
    BY <1>2, <1>6, Facts DEF Blocked
  <2>2. Taken + 1 \in 1 .. k /\ Taken < k + 1  BY <2>1
  <2> QED BY <1>3, <1>4, <2>1, <2>2 DEF Blocked
<1>7. ASSUME \A i \in 1 .. Len(sent) : i > Promised => read < ends[i],
             NEW i \in 1 .. k + 1, i > Promised
      PROVE  read < ends'[i]
  <2>1. i \in 1 .. k \/ i = k + 1  OBVIOUS
  <2>2. CASE i \in 1 .. k
    <3>1. read < ends[i]  BY <1>2, <1>7, <2>2
    <3> QED BY <1>3, <2>2, <3>1
  <2>3. CASE i = k + 1
    <3>1. read < Len(stream')
      <4>1. Len(stream) \in Nat /\ read \in Nat /\ read =< Len(stream)  BY TypeFacts
      <4> QED BY <1>3, <4>1
    <3> QED BY <1>3, <2>3, <3>1
  <2> QED BY <2>1, <2>2, <2>3
<1> QED BY <1>1, <1>3, <1>5, <1>6, <1>7 DEF Owed

\* An event that ends one packet at most brings a task for it.
LEMMA EventOwed ==
  ASSUME TypeOK, Written, Sound, Ordered, Owed, NEW n \in Piece, SessionEvent(n),
         ~merged'
  PROVE  Owed'
<1>1. /\ read' = read + n /\ tasks' = tasks + 1 /\ ~(Completes(n) > 1)
      /\ UNCHANGED <<sent, ends, task, handled>>
  BY DEF SessionEvent, client
<1>2. n \in Nat  BY ReceiveAssumption
<1>3. Taken' = Taken  BY <1>1 DEF Taken
<1>4. Promised' = Promised + 1 /\ Promised \in Nat
  <2>1. tasks \in Nat /\ Taken \in Nat  BY Facts, ReceiveAssumption DEF TypeOK
  <2>2. Promised \in Nat  BY <2>1, PromisedNat
  <2>3. Promised' = Taken + (tasks + 1)
          + (IF \E w \in Worker : task[w].at = "unpacked" THEN 1 ELSE 0)
    BY <1>1, <1>3 DEF Promised
  <2> QED BY <2>1, <2>2, <2>3 DEF Promised
<1>5. CASE Blocked  BY <1>1, <1>3, <1>5 DEF Owed, Blocked
<1>6. CASE \A i \in 1 .. Len(sent) : i > Promised => read < ends[i]
  <2> SUFFICES ASSUME NEW i \in 1 .. Len(sent), i > Promised + 1, ~(read + n < ends[i])
               PROVE  FALSE
    BY <1>1, <1>4 DEF Owed
  <2> DEFINE E == {e \in DOMAIN ends : ends[e] \in read + 1 .. read + n}
  <2>1. PICK k \in Nat : k = Len(sent)  BY TypeFacts
  <2>2. DOMAIN ends = 1 .. k /\ \A e \in 1 .. k : ends[e] \in Nat
    BY <2>1, TypeFacts
  <2>3. i - 1 \in 1 .. k /\ i \in 1 .. k /\ i - 1 > Promised /\ i - 1 < i
    BY <1>4, <2>1
  <2>4. read < ends[i - 1] /\ ends[i - 1] < ends[i]
    BY <1>6, <2>1, <2>3 DEF Ordered
  <2>5. ends[i] \in read + 1 .. read + n /\ ends[i - 1] \in read + 1 .. read + n
    <3>1. read \in Nat /\ ends[i] \in Nat /\ ends[i - 1] \in Nat
      BY <2>2, <2>3, TypeFacts
    <3> QED BY <1>2, <2>4, <3>1
  <2>6. i \in E /\ i - 1 \in E /\ i # i - 1  BY <2>2, <2>3, <2>5
  <2>7. IsFiniteSet(E)
    <3>1. IsFiniteSet(1 .. k)  BY FS_Interval
    <3>2. E \in SUBSET (1 .. k)  BY <2>2
    <3> QED BY <3>1, <3>2, FS_Subset
  <2> HIDE DEF E
  <2>8. Cardinality(E) > 1  BY <2>6, <2>7, TwoOfThem
  <2>9. Completes(n) = Cardinality(E)  BY DEF Completes, E
  <2> QED BY <1>1, <2>8, <2>9
<1> QED BY <1>5, <1>6 DEF Owed

\* A task that finds no packet leaves none behind.
LEMMA UnpackOwed ==
  ASSUME TypeOK, Written, Sound, Ordered, Owed, NEW w \in Worker, Unpack(w),
         ~overlap'
  PROVE  Owed'
<1>1. PICK r : Answer(r) /\ Fits(r) /\ (r.rc = "ok" => Unpacked(r, w))
  BY UnpackAnswers
<1>2. /\ task[w] = Idle /\ tasks > 0 /\ tasks' = tasks - 1
      /\ UNCHANGED <<sent, ends, read, handled>>
  BY DEF Unpack, client
<1>3. DOMAIN task = Worker /\ tasks \in Nat  BY ReceiveAssumption DEF TypeOK
<1>4. Taken' = Taken
  <2>1. \A v \in Worker : (task'[v].at = "erased") = (task[v].at = "erased")
    <3> TAKE v \in Worker
    <3>1. CASE v = w /\ r.rc = "ok"
      <4>1. task'[w].at = "unpacked"  BY <1>1, <1>3, <3>1 DEF Unpacked
      <4> QED BY <1>2, <3>1, <4>1 DEF Idle
    <3>2. CASE ~(v = w /\ r.rc = "ok")
      <4>1. task'[v] = task[v]  BY <1>1, <1>3, <3>2 DEF Answer, Unpacked
      <4> QED BY <4>1
    <3> QED BY <3>1, <3>2
  <2> QED BY <1>2, <2>1 DEF Taken
<1>5. CASE r.rc = "ok"
  <2>1. \A v \in Worker : task[v] = Idle  BY <1>1, <1>5 DEF Answer
  <2>2. Others(task, w) /\ Others(task', w)
    BY <1>1, <1>3, <1>5, <2>1 DEF Others, Unpacked
  <2>3. Promised = Taken + tasks + Holds(task[w])  BY <2>2, PromisedAt
  <2>4. Promised' = Taken + tasks' + Holds(task'[w])
    BY <1>4, <2>2, PromisedAtNext
  <2>5. Holds(task[w]) = 0  BY <1>2 DEF Holds, Idle
  <2>6. Holds(task'[w]) = 1
    <3>1. task'[w].at = "unpacked"  BY <1>1, <1>3, <1>5 DEF Unpacked
    <3> QED BY <3>1 DEF Holds
  <2>7. Promised' = Promised
    <3>1. Taken \in Nat  BY Facts
    <3> QED BY <1>2, <1>3, <2>3, <2>4, <2>5, <2>6, <3>1
  <2> QED BY <1>2, <1>4, <2>7, OwedAfter
<1>6. CASE Taken < Len(sent) /\ sent[Taken + 1].says = None
  BY <1>2, <1>4, <1>6 DEF Owed, Blocked
<1>7. CASE r.rc # "ok" /\ ~(Taken < Len(sent) /\ sent[Taken + 1].says = None)
  <2>1. r.rc \notin Refusals  BY <1>1, <1>7 DEF Fits
  <2>2. Taken < Len(sent) => Len(m_recvBuff) < Len(sent[Taken + 1].bytes)
    BY <1>1, <1>7, <2>1 DEF Fits
  <2>3. task' = task  BY <1>1, <1>7 DEF Answer
  <2>4. Promised' \in Nat /\ Promised' >= Taken
    <3>1. tasks' \in Nat /\ Taken \in Nat  BY <1>2, <1>3, Facts
    <3> QED BY <1>4, <3>1 DEF Promised
  <2>5. ASSUME NEW i \in 1 .. Len(sent), i > Promised'
        PROVE  read < ends[i]
    <3>1. PICK k \in Nat : k = Taken + 1  BY Facts
    <3>2. Len(sent) \in Nat /\ k \in 1 .. Len(sent) /\ k =< i /\ Taken < Len(sent)
      BY <2>4, <2>5, <3>1, TypeFacts, Facts
    <3>3. read < ends[k]
      <4>1. ends[k] = StartOf(ends, k) + Len(sent[k].bytes)
        BY <3>2, TypeFacts DEF IsWritten
      <4>2. read = StartOf(ends, k) + Len(m_recvBuff)
        BY <3>1, Facts DEF IsBuffered
      <4>3. Len(m_recvBuff) < Len(sent[k].bytes)  BY <2>2, <3>1, <3>2
      <4>4. StartOf(ends, k) \in Nat
        <5>1. k \in 1 .. Len(ends) + 1  BY <3>2, TypeFacts
        <5> QED BY <5>1, TypeFacts, StartNat
      <4>5. Len(m_recvBuff) \in Nat /\ Len(sent[k].bytes) \in Nat
        BY <3>1, <3>2, TypeFacts, FirstPacket, PacketBytes
      <4> QED BY <4>1, <4>2, <4>3, <4>4, <4>5
    <3>4. i = k \/ ends[k] < ends[i]  BY <3>2 DEF Ordered
    <3>5. read \in Nat /\ ends[k] \in Nat /\ ends[i] \in Nat
      <4>1. DOMAIN ends = 1 .. Len(sent)  BY TypeFacts
      <4> QED BY <3>2, <4>1, TypeFacts
    <3> QED BY <3>3, <3>4, <3>5
  <2> QED BY <1>2, <2>5 DEF Owed
<1> QED BY <1>5, <1>6, <1>7

LEMMA EraseOwed ==
  ASSUME TypeOK, Sound, Owed, NEW w \in Worker, Erase(w)
  PROVE  Owed'
<1>1. UNCHANGED <<sent, ends, read, tasks>>  BY DEF Erase, client
<1>2. /\ Others(task, w) /\ Others(task', w)
      /\ task[w].at = "unpacked" /\ task'[w].at = "erased"
      /\ Taken = Len(handled) /\ Taken' = Taken + 1
  BY EraseTaken DEF Sound
<1>3. ~Blocked  BY <1>2 DEF Sound, Spoke, Blocked
<1>4. Promised' = Promised
  <2>1. Promised = Taken + tasks + Holds(task[w])  BY <1>2, PromisedAt
  <2>2. Promised' = (Taken + 1) + tasks + Holds(task'[w])
    BY <1>1, <1>2, PromisedAtNext
  <2>3. Holds(task[w]) = 1 /\ Holds(task'[w]) = 0  BY <1>2 DEF Holds
  <2>4. Taken \in Nat /\ tasks \in Nat  BY <1>2, ReceiveAssumption DEF TypeOK
  <2> QED BY <2>1, <2>2, <2>3, <2>4
<1> QED BY <1>1, <1>3, <1>4 DEF Owed

LEMMA HandleOwed ==
  ASSUME TypeOK, Sound, Owed, NEW w \in Worker, Handle(w)
  PROVE  Owed'
<1>1. UNCHANGED <<sent, ends, read, tasks>>  BY DEF Handle, client
<1>2. /\ Others(task, w) /\ Others(task', w)
      /\ task[w].at = "erased" /\ task'[w] = Idle /\ Taken' = Taken
  BY HandleTaken DEF Sound
<1>3. Promised' = Promised
  <2>1. Promised = Taken + tasks + Holds(task[w])  BY <1>2, PromisedAt
  <2>2. Promised' = Taken + tasks + Holds(task'[w])
    BY <1>1, <1>2, PromisedAtNext
  <2>3. Holds(task[w]) = 0 /\ Holds(task'[w]) = 0  BY <1>2 DEF Holds, Idle
  <2> QED BY <2>1, <2>2, <2>3
<1> QED BY <1>1, <1>2, <1>3, OwedAfter

LEMMA OwedInit ==
  ASSUME Init
  PROVE  OwedInv
<1>1. ReceiveInv  BY ReceiveInit
<1>2. sent = <<>>  BY DEF Init
<1>3. Ordered /\ Owed  BY <1>2 DEF Ordered, Owed
<1> QED BY <1>1, <1>3 DEF OwedInv

LEMMA OwedStep ==
  ASSUME OwedInv, [Next]_vars
  PROVE  OwedInv'
<1>1. ReceiveInv'  BY ReceiveStep DEF OwedInv
<1>2. /\ TypeOK /\ Written /\ Ordered /\ (overlap \/ Sound)
      /\ overlap \/ merged \/ Owed
  BY SoundInv DEF OwedInv
<1>3. SUFFICES Ordered' /\ (~overlap' /\ ~merged' => Owed')
  BY <1>1 DEF OwedInv
<1>4. CASE \E p \in Packet : Send(p)
  <2>1. PICK p \in Packet : Send(p)  BY <1>4
  <2>2. UNCHANGED <<overlap, merged>>  BY <2>1 DEF Send
  <2>3. CASE overlap
    <3>1. Ordered'  BY <1>2, <2>1, SendOrdered
    <3> QED BY <2>2, <2>3, <3>1
  <2>4. CASE ~overlap  BY <1>2, <2>1, <2>2, <2>4, SendOrdered, SendOwed
  <2> QED BY <2>3, <2>4
<1>5. CASE ~\E p \in Packet : Send(p)
  <2>1. UNCHANGED <<sent, ends>>
    <3>1. CASE \E n \in Piece : SessionEvent(n)  BY <3>1 DEF SessionEvent, client
    <3>2. CASE \E w \in Worker : parseData(w)
      <4>1. UNCHANGED client  BY <3>2 DEF parseData, Unpack, Erase, Handle
      <4> QED BY <4>1 DEF client
    <3>3. CASE UNCHANGED vars  BY <3>3 DEF vars, client
    <3> QED BY <1>5, <3>1, <3>2, <3>3 DEF Next
  <2>2. Ordered'  BY <1>2, <2>1 DEF Ordered
  <2>3. ASSUME ~overlap', ~merged'  PROVE Owed'
    <3>1. CASE \E n \in Piece : SessionEvent(n)
      <4>1. PICK n \in Piece : SessionEvent(n)  BY <3>1
      <4>2. ~overlap /\ ~merged  BY <2>3, <4>1 DEF SessionEvent
      <4> QED BY <1>2, <2>3, <4>1, <4>2, EventOwed
    <3>2. CASE \E w \in Worker : parseData(w)
      <4>1. PICK w \in Worker : parseData(w)  BY <3>2
      <4>2. CASE Unpack(w)
        <5>1. ~overlap /\ UNCHANGED merged  BY <4>2 DEF Unpack
        <5> QED BY <1>2, <2>3, <4>2, <5>1, UnpackOwed
      <4>3. CASE Erase(w)
        <5>1. UNCHANGED <<overlap, merged>>  BY <4>3 DEF Erase
        <5> QED BY <1>2, <2>3, <4>3, <5>1, EraseOwed
      <4>4. CASE Handle(w)
        <5>1. UNCHANGED <<overlap, merged>>  BY <4>4 DEF Handle
        <5> QED BY <1>2, <2>3, <4>4, <5>1, HandleOwed
      <4> QED BY <4>1, <4>2, <4>3, <4>4 DEF parseData
    <3>3. CASE UNCHANGED vars
      <4>1. UNCHANGED <<sent, ends, read, tasks, task, handled, overlap, merged>>
        BY <3>3 DEF vars, client
      <4>2. Taken' = Taken  BY <4>1 DEF Taken
      <4>3. Promised' = Promised  BY <4>1, <4>2 DEF Promised
      <4> QED BY <1>2, <2>3, <4>1, <4>2, <4>3, OwedAfter
    <3> QED BY <1>5, <3>1, <3>2, <3>3 DEF Next
  <2> QED BY <2>2, <2>3
<1> QED BY <1>4, <1>5

-----------------------------------------------------------------------------
\* ReceiveInv holds for ever, for any packets, pieces, pool and bytes behind the
\* buffer.
THEOREM ReceiveInvariant == Spec => []ReceiveInv
<1>1. Init => ReceiveInv  BY ReceiveInit
<1>2. ReceiveInv /\ [Next]_vars => ReceiveInv'  BY ReceiveStep
<1> QED BY <1>1, <1>2, PTL DEF Spec

\* The types of Receive, and that no worker, until two tasks of the transport
\* overlap, erases more than is buffered
THEOREM ReceiveTypes == Spec => []TypeOK
<1>1. ReceiveInv => TypeOK  BY DEF ReceiveInv
<1> QED BY <1>1, ReceiveInvariant, PTL

\* Until two tasks overlap the handlers get the packets that were sent, as they
\* were sent, each once and in order, however TCP cuts the stream and whatever
\* lies behind the buffer.
THEOREM PacketsInOrder == Spec => []HandledInOrder
<1>1. ReceiveInv => HandledInOrder  BY DEF ReceiveInv
<1> QED BY <1>1, ReceiveInvariant, PTL

\* Until two tasks overlap a client is disconnected only for a packet without a
\* handler, and not before all it sent ahead of it was handled.
THEOREM StoppedForCause == Spec => []NeverRefused
<1>1. ReceiveInv => NeverRefused  BY DEF ReceiveInv
<1> QED BY <1>1, ReceiveInvariant, PTL

\* Until two tasks overlap, whatever PUBLISH a handler got, a subscriber reads
\* what build_publish writes for it as it was published, but for the identifier,
\* which is 0.
THEOREM SentOn == Spec => []SentOnAlike
<1>1. ReceiveInv => SentOnAlike
  <2> SUFFICES ASSUME ReceiveInv, NEW i \in DOMAIN handled,
                      handled[i].header.type = PUBLISH, ~overlap, NEW past \in Past
               PROVE  unpack(build_publish(handled[i]), past) =
                        [rc |-> "ok", pkt_len |-> Len(build_publish(handled[i])),
                         packet |-> [handled[i] EXCEPT !.pkt.packet_id = 0]]
    BY DEF SentOnAlike
  <2>1. TypeOK /\ Written /\ Sound  BY SoundInv
  <2>2. i \in 1 .. Len(handled)  BY <2>1, TypeFacts
  <2>3. i \in 1 .. Taken /\ i \in 1 .. Len(sent)
    <3>1. Len(handled) \in Nat /\ Len(sent) \in Nat  BY <2>1, TypeFacts
    <3>2. Taken >= Len(handled)  BY <3>1 DEF Taken
    <3> QED BY <2>1, <2>2, <3>1, <3>2, Facts
  <2>4. PICK p \in Packet : p = sent[i]  BY <2>1, <2>3, TypeFacts
  <2>5. handled[i] = p.says /\ p.says # None
    BY <2>1, <2>3, <2>4 DEF Sound, InOrder, Spoke
  <2>6. Spoken(p)  BY <2>5, ReceiveAssumption
  <2>7. PICK m : m = p.says  OBVIOUS
  <2>8. m.header \in Headers /\ Publication(m) /\ past \in Byte
    BY <2>5, <2>6, <2>7, ReceiveAssumption DEF Spoken
  <2>9. unpack(build_publish(m), past) =
          [rc |-> "ok", pkt_len |-> Len(build_publish(m)),
           packet |-> [m EXCEPT !.pkt.packet_id = 0]]
    BY <2>8, PublishSent
  <2> QED BY <2>5, <2>7, <2>9
<1> QED BY <1>1, ReceiveInvariant, PTL

\* When nothing is left to do, every packet before one without a meaning was
\* handled, unless an event brought the ends of two packets or two tasks
\* overlapped: one task for each event is enough.
THEOREM NothingLeftBehind == Spec => []NothingLeft
<1>1. Init => OwedInv  BY OwedInit
<1>2. OwedInv /\ [Next]_vars => OwedInv'  BY OwedStep
<1>3. OwedInv => NothingLeft
  <2> SUFFICES ASSUME OwedInv, Quiet, ~merged, ~overlap, Len(handled) # Len(sent)
               PROVE  sent[Len(handled) + 1].says = None
    BY DEF NothingLeft
  <2>1. TypeOK /\ Written /\ Sound /\ Ordered /\ Owed  BY SoundInv DEF OwedInv
  <2>2. \A w \in Worker : task[w].at = "idle"  BY DEF Quiet, Idle
  <2>3. Taken = Len(handled)  BY <2>2 DEF Taken
  <2>4. PICK k \in Nat : k = Len(sent)  BY <2>1, TypeFacts
  <2>5. Taken \in Nat /\ Taken < k  BY <2>1, <2>3, <2>4, Facts
  <2>6. Promised = Taken
    <3>1. Promised = Taken + 0 + 0  BY <2>2 DEF Promised, Quiet
    <3> QED BY <2>5, <3>1
  <2>7. ~(read < ends[k])
    <3>1. k \in 1 .. Len(sent)  BY <2>4, <2>5
    <3>2. ends[k] =< Len(stream) /\ read = Len(stream)
      BY <2>1, <3>1, TypeFacts DEF IsWritten, Quiet
    <3>3. ends[k] \in Nat /\ Len(stream) \in Nat  BY <2>1, <3>1, TypeFacts
    <3> QED BY <3>2, <3>3
  <2>8. k \in 1 .. Len(sent) /\ k > Promised  BY <2>4, <2>5, <2>6
  <2>9. Blocked  BY <2>1, <2>7, <2>8 DEF Owed
  <2> QED BY <2>3, <2>9 DEF Blocked
<1> QED BY <1>1, <1>2, <1>3, PTL DEF Spec

-----------------------------------------------------------------------------
(***************************************************************************)
(* What a client writes in a body is what the unpackers read.              *)
(***************************************************************************)

\* The body of the function in Pieces, and what Pieces is defined by
PiecesBody(first, rest, f, b) ==
  IF b = <<>> THEN <<>>
  ELSE <<first[b]>>
       \o (IF rest[b] \in Seq(Byte) /\ Len(rest[b]) < Len(b) THEN f[rest[b]] ELSE <<>>)

PiecesOn(first, rest, D, f) == f = [b \in D |-> PiecesBody(first, rest, f, b)]

UpTo(d) == {b \in Seq(Byte) : Len(b) <= d}

\* Pieces is the value of such a function.
LEMMA PiecesChosen ==
  ASSUME NEW body, NEW first, NEW rest
  PROVE  Pieces(body, first, rest) =
           (CHOOSE f : PiecesOn(first, rest, Seq(Byte), f))[body]
  BY DEF Pieces, PiecesOn, PiecesBody

\* Its value at some bytes
LEMMA PiecesAt ==
  ASSUME NEW first, NEW rest, NEW D, NEW f, PiecesOn(first, rest, D, f), NEW b \in D
  PROVE  f[b] = PiecesBody(first, rest, f, b)
  BY DEF PiecesOn

\* It depends on its values at fewer bytes.
LEMMA PiecesFewer ==
  ASSUME NEW first, NEW rest, NEW f, NEW g, NEW b \in Seq(Byte),
         \A c \in Seq(Byte) : Len(c) < Len(b) => f[c] = g[c]
  PROVE  PiecesBody(first, rest, f, b) = PiecesBody(first, rest, g, b)
  BY DEF PiecesBody

\* Such functions agree where both have a value.
LEMMA PiecesAgree ==
  ASSUME NEW first, NEW rest, NEW d \in Nat, NEW e \in Nat,
         NEW f, PiecesOn(first, rest, UpTo(d), f),
         NEW g, PiecesOn(first, rest, UpTo(e), g),
         NEW b \in UpTo(d), b \in UpTo(e)
  PROVE  f[b] = g[b]
<1> DEFINE Bad(c) == c \in UpTo(d) /\ c \in UpTo(e) /\ f[c] # g[c]
           T == {n \in Nat : \E c \in Seq(Byte) : Len(c) = n /\ Bad(c)}
<1> SUFFICES ASSUME T # {} PROVE FALSE
  <2>1. b \in Seq(Byte) /\ Len(b) \in Nat
    BY DEF UpTo
  <2> QED
    BY <2>1
<1>1. PICK n \in T : \A m \in T : n <= m
  BY LeastNat
<1>2. PICK c \in Seq(Byte) : Len(c) = n /\ Bad(c)
  BY <1>1
<1>3. \A x \in Seq(Byte) : Len(x) < Len(c) => f[x] = g[x]
  <2> SUFFICES ASSUME NEW x \in Seq(Byte), Len(x) < Len(c) PROVE f[x] = g[x]
    OBVIOUS
  <2>1. Len(x) \in Nat /\ Len(x) < n /\ Len(x) \notin T
    BY <1>1, <1>2
  <2>2. n <= d /\ n <= e
    BY <1>2 DEF UpTo
  <2>3. x \in UpTo(d) /\ x \in UpTo(e)
    BY <2>1, <2>2 DEF UpTo
  <2> QED
    BY <2>1, <2>3
<1>4. f[c] = PiecesBody(first, rest, f, c) /\ g[c] = PiecesBody(first, rest, g, c)
  BY <1>2, PiecesAt
<1> QED
  BY <1>2, <1>3, <1>4, PiecesFewer

\* There is such a function, up to any length and for all bytes.
LEMMA PiecesUpTo ==
  ASSUME NEW first, NEW rest, NEW d \in Nat
  PROVE  \E f : PiecesOn(first, rest, UpTo(d), f)
<1> DEFINE T == {k \in Nat : ~ \E f : PiecesOn(first, rest, UpTo(k), f)}
<1> SUFFICES ASSUME T # {} PROVE FALSE
  OBVIOUS
<1>1. PICK k \in T : \A j \in T : k <= j
  BY LeastNat
<1>2. CASE k = 0
  <2> DEFINE f == [b \in UpTo(0) |-> <<>>]
  <2>1. ASSUME NEW b \in UpTo(0), NEW g PROVE PiecesBody(first, rest, g, b) = <<>>
    <3>1. b = <<>>
      BY EmptySeq DEF UpTo
    <3> QED
      BY <3>1 DEF PiecesBody
  <2>2. PiecesOn(first, rest, UpTo(0), f)
    BY <2>1 DEF PiecesOn
  <2> QED
    BY <1>1, <1>2, <2>2
<1>3. CASE k # 0
  <2>1. k - 1 \in Nat /\ k - 1 \notin T
    BY <1>1, <1>3
  <2>2. PICK f : PiecesOn(first, rest, UpTo(k - 1), f)
    BY <2>1
  <2> DEFINE Here(b) == PiecesBody(first, rest, f, b)
             g == [b \in UpTo(k) |-> IF Len(b) < k THEN f[b] ELSE Here(b)]
  <2>3. \A b \in UpTo(k) : g[b] = IF Len(b) < k THEN f[b] ELSE Here(b)
    OBVIOUS
  <2>4. DOMAIN g = UpTo(k) /\ g = [b \in UpTo(k) |-> g[b]]
    OBVIOUS
  <2> HIDE DEF g
  <2>5. \A b \in UpTo(k) : PiecesBody(first, rest, g, b) = Here(b)
    <3> TAKE b \in UpTo(k)
    <3>1. b \in Seq(Byte) /\ Len(b) \in Nat /\ Len(b) <= k
      BY DEF UpTo
    <3>2. \A c \in Seq(Byte) : Len(c) < Len(b) => g[c] = f[c]
      <4> SUFFICES ASSUME NEW c \in Seq(Byte), Len(c) < Len(b) PROVE g[c] = f[c]
        OBVIOUS
      <4>1. Len(c) \in Nat /\ Len(c) < k
        BY <3>1
      <4>2. c \in UpTo(k)
        BY <4>1 DEF UpTo
      <4> QED
        BY <2>3, <4>1, <4>2
    <3> QED
      BY <3>1, <3>2, PiecesFewer
  <2>6. \A b \in UpTo(k) : g[b] = PiecesBody(first, rest, g, b)
    <3> TAKE b \in UpTo(k)
    <3>1. b \in Seq(Byte) /\ Len(b) \in Nat
      BY DEF UpTo
    <3>2. Len(b) < k => b \in UpTo(k - 1)
      BY <3>1 DEF UpTo
    <3>3. Len(b) < k => f[b] = Here(b)
      BY <2>2, <3>2, PiecesAt
    <3> QED
      BY <2>3, <2>5, <3>3
  <2>7. PiecesOn(first, rest, UpTo(k), g)
    BY <2>4, <2>6 DEF PiecesOn
  <2> QED
    BY <2>7
<1> QED
  BY <1>2, <1>3

LEMMA PiecesExists ==
  ASSUME NEW first, NEW rest
  PROVE  \E f : PiecesOn(first, rest, Seq(Byte), f)
<1> DEFINE Of(b) == CHOOSE f : PiecesOn(first, rest, UpTo(Len(b)), f)
           F == [b \in Seq(Byte) |-> Of(b)[b]]
<1>1. \A b \in Seq(Byte) : PiecesOn(first, rest, UpTo(Len(b)), Of(b)) /\ b \in UpTo(Len(b))
  <2> TAKE b \in Seq(Byte)
  <2>1. Len(b) \in Nat
    OBVIOUS
  <2>2. b \in UpTo(Len(b))
    BY <2>1 DEF UpTo
  <2>3. \E f : PiecesOn(first, rest, UpTo(Len(b)), f)
    BY <2>1, PiecesUpTo
  <2> QED
    BY <2>2, <2>3
<1> HIDE DEF Of
<1>2. \A b \in Seq(Byte) : F[b] = Of(b)[b]
  OBVIOUS
<1>3. F = [b \in Seq(Byte) |-> F[b]]
  OBVIOUS
<1> HIDE DEF F
<1>4. \A b \in Seq(Byte) : F[b] = PiecesBody(first, rest, F, b)
  <2> TAKE b \in Seq(Byte)
  <2>1. Len(b) \in Nat
    OBVIOUS
  <2>2. Of(b)[b] = PiecesBody(first, rest, Of(b), b)
    BY <1>1, PiecesAt
  <2>3. \A c \in Seq(Byte) : Len(c) < Len(b) => Of(b)[c] = F[c]
    <3> SUFFICES ASSUME NEW c \in Seq(Byte), Len(c) < Len(b) PROVE Of(b)[c] = F[c]
      OBVIOUS
    <3>1. Len(c) \in Nat
      OBVIOUS
    <3>2. c \in UpTo(Len(b)) /\ c \in UpTo(Len(c))
      BY <2>1, <3>1 DEF UpTo
    <3>3. Of(b)[c] = Of(c)[c]
      BY <1>1, <2>1, <3>1, <3>2, PiecesAgree
    <3> QED
      BY <1>2, <3>3
  <2>4. PiecesBody(first, rest, Of(b), b) = PiecesBody(first, rest, F, b)
    BY <2>3, PiecesFewer
  <2> QED
    BY <1>2, <2>2, <2>4
<1>5. PiecesOn(first, rest, Seq(Byte), F)
  BY <1>3, <1>4 DEF PiecesOn
<1> QED
  BY <1>5

\* Nothing is read from no bytes; from bytes, what they begin with and what is behind.
LEMMA PiecesNone ==
  ASSUME NEW first, NEW rest PROVE Pieces(<<>>, first, rest) = <<>>
<1> DEFINE f == CHOOSE g : PiecesOn(first, rest, Seq(Byte), g)
<1>1. PiecesOn(first, rest, Seq(Byte), f)
  BY PiecesExists
<1> HIDE DEF f
<1>2. f[<<>>] = PiecesBody(first, rest, f, <<>>)
  <2>1. <<>> \in Seq(Byte)
    OBVIOUS
  <2> QED
    BY <1>1, <2>1, PiecesAt
<1> QED
  BY <1>2, PiecesChosen DEF PiecesBody, f

LEMMA PiecesMore ==
  ASSUME NEW first, NEW rest, NEW b \in Seq(Byte), b # <<>>,
         rest[b] \in Seq(Byte), Len(rest[b]) < Len(b)
  PROVE  Pieces(b, first, rest) = <<first[b]>> \o Pieces(rest[b], first, rest)
<1> DEFINE f == CHOOSE g : PiecesOn(first, rest, Seq(Byte), g)
<1>1. PiecesOn(first, rest, Seq(Byte), f)
  BY PiecesExists
<1> HIDE DEF f
<1>2. f[b] = PiecesBody(first, rest, f, b)
  BY <1>1, PiecesAt
<1>3. Pieces(b, first, rest) = f[b] /\ Pieces(rest[b], first, rest) = f[rest[b]]
  BY PiecesChosen DEF f
<1> QED
  BY <1>2, <1>3 DEF PiecesBody

\* A string as it is written, and one short enough to be
Counted(s) == Joined(pack_u16(Len(s)), s)
Short == {s \in Seq(Byte) : Len(s) < 256 * 256}

\* A string at the front is read as it was written, and the rest lies behind it.
LEMMA CountedRead ==
  ASSUME NEW s \in Short, NEW b \in Seq(Byte)
  PROVE  /\ Joined(Counted(s), b) \in Seq(Byte) /\ Joined(Counted(s), b) # <<>>
         /\ Len(Joined(Counted(s), b)) = 2 + Len(s) + Len(b)
         /\ Len(Joined(Counted(s), b)) > Len(b)
         /\ unpack_string16(Joined(Counted(s), b)) = s
         /\ After16(Joined(Counted(s), b)) = b
<1>1. s \in Seq(Byte) /\ Len(s) < 256 * 256 /\ Len(s) \in Nat /\ Len(b) \in Nat
  BY DEF Short
<1> DEFINE x == Joined(Counted(s), b)
<1>2. /\ x \in Seq(Byte) /\ Len(x) = 2 + Len(s) + Len(b)
      /\ unpack_string16(x) = s /\ After16(x) = b
  BY <1>1, StringRoundTrip DEF Counted
<1> HIDE DEF x
<1>3. Len(x) > Len(b) /\ x # <<>>
  <2>1. Len(x) > Len(b) /\ Len(x) # 0
    BY <1>1, <1>2
  <2>2. Len(<<>>) = 0
    OBVIOUS
  <2> QED
    BY <2>1, <2>2
<1> QED
  BY <1>2, <1>3 DEF x

\* The strings of a body that begins with s
LEMMA StringsMore ==
  ASSUME NEW s \in Short, NEW b \in Seq(Byte)
  PROVE  Strings(Joined(Counted(s), b)) = <<s>> \o Strings(b)
<1> DEFINE x == Joined(Counted(s), b)
           first == [c \in Seq(Byte) |-> unpack_string16(c)]
           rest == [c \in Seq(Byte) |-> After16(c)]
<1>1. /\ x \in Seq(Byte) /\ x # <<>> /\ Len(x) > Len(b)
      /\ unpack_string16(x) = s /\ After16(x) = b
  BY CountedRead
<1> HIDE DEF x
<1>2. first[x] = s /\ rest[x] = b
  BY <1>1
<1>3. \A c : Strings(c) = Pieces(c, first, rest)
  BY DEF Strings
<1> HIDE DEF first, rest
<1>4. Pieces(x, first, rest) = <<s>> \o Pieces(b, first, rest)
  <2>1. Len(b) < Len(x)
    <3>1. Len(b) \in Nat /\ Len(x) \in Nat
      BY <1>1
    <3> QED
      BY <1>1, <3>1
  <2>2. Pieces(x, first, rest) = <<first[x]>> \o Pieces(rest[x], first, rest)
    BY <1>1, <1>2, <2>1, PiecesMore
  <2> QED
    BY <1>2, <2>2
<1> QED
  BY <1>3, <1>4 DEF x

\* The topics of a body that begins with a topic and its QoS
LEMMA TuplesMore ==
  ASSUME NEW s \in Short, NEW q \in Byte, NEW b \in Seq(Byte)
  PROVE  /\ Joined(Counted(s), Joined(<<q>>, b)) \in Seq(Byte)
         /\ Tuples(Joined(Counted(s), Joined(<<q>>, b))) =
              <<[topic |-> s, qos |-> q]>> \o Tuples(b)
<1> DEFINE y == Joined(<<q>>, b)
           x == Joined(Counted(s), y)
           first == [c \in Seq(Byte) |-> [topic |-> unpack_string16(c),
                                          qos |-> After16(c)[1]]]
           rest == [c \in Seq(Byte) |-> Tail(After16(c))]
<1>1. /\ y \in Seq(Byte) /\ Len(y) = 1 + Len(b) /\ y[1] = q /\ Tail(y) = b
  <2>1. <<q>> \in Seq(Byte) /\ Len(<<q>>) = 1 /\ <<q>>[1] = q
    OBVIOUS
  <2>2. /\ y \in Seq(Byte) /\ Len(y) = Len(<<q>>) + Len(b)
        /\ \A i \in 1 .. Len(<<q>>) : y[i] = <<q>>[i]
        /\ From(y, Len(<<q>>) + 1) = b
    BY <2>1, JoinedParts
  <2> HIDE DEF y
  <2>3. /\ Len(y) = 1 + Len(b) /\ y[1] = q /\ From(y, 2) = b
    BY <2>1, <2>2
  <2>4. y # <<>>
    <3>1. Len(b) \in Nat /\ Len(<<>>) = 0
      OBVIOUS
    <3> QED
      BY <2>3, <3>1
  <2>5. Tail(y) = SubSeq(y, 2, Len(y))
    BY <2>2, <2>4, TailIsSubSeq
  <2> QED
    BY <2>2, <2>3, <2>5 DEF From
<1> HIDE DEF y
<1>2. /\ x \in Seq(Byte) /\ x # <<>> /\ Len(x) > Len(y)
      /\ unpack_string16(x) = s /\ After16(x) = y
  BY <1>1, CountedRead
<1> HIDE DEF x
<1>3. first[x] = [topic |-> s, qos |-> q] /\ rest[x] = b
  BY <1>1, <1>2
<1>4. \A c : Tuples(c) = Pieces(c, first, rest)
  BY DEF Tuples
<1> HIDE DEF first, rest
<1>5. Pieces(x, first, rest) = <<[topic |-> s, qos |-> q]>> \o Pieces(b, first, rest)
  <2>1. Len(b) < Len(x)
    <3>1. Len(b) \in Nat /\ Len(x) \in Nat /\ Len(y) \in Nat
      BY <1>1, <1>2
    <3> QED
      BY <1>1, <1>2, <3>1
  <2>2. Pieces(x, first, rest) = <<first[x]>> \o Pieces(rest[x], first, rest)
    BY <1>2, <1>3, <2>1, PiecesMore
  <2> QED
    BY <1>3, <2>2
<1> QED
  BY <1>2, <1>4, <1>5 DEF x, y

\* body is the strings of list as they are written, one behind the other; what is
\* written from the k-th on begins with the k-th.
WritesStrings(list, body) ==
  \E cut : /\ cut[Len(list) + 1] = <<>> /\ cut[1] = body
           /\ \A k \in 1 .. Len(list) : cut[k] = Joined(Counted(list[k]), cut[k + 1])

\* The same of topics, each with the byte of its QoS
WritesTuples(list, body) ==
  \E cut : /\ cut[Len(list) + 1] = <<>> /\ cut[1] = body
           /\ \A k \in 1 .. Len(list) :
                cut[k] = Joined(Counted(list[k].topic), Joined(<<list[k].qos>>, cut[k + 1]))

\* Induction from the end of a list to its beginning
LEMMA Downward ==
  ASSUME NEW n \in Nat, NEW R, n + 1 \in R, \A k \in 1 .. n : k + 1 \in R => k \in R
  PROVE  1 \in R
<1> DEFINE T == {m \in 0 .. n : n + 1 - m \notin R}
<1>1. T = {}
  <2> SUFFICES ASSUME T # {} PROVE FALSE
    OBVIOUS
  <2>1. T \in SUBSET Nat
    OBVIOUS
  <2>2. PICK m \in T : \A j \in T : m <= j
    BY <2>1, LeastNat
  <2>3. m \in 0 .. n /\ n + 1 - m \notin R
    BY <2>2
  <2>4. m # 0
    BY <2>3
  <2>5. n + 1 - m \in 1 .. n /\ n + 1 - (m - 1) = (n + 1 - m) + 1 /\ m - 1 \in 0 .. n
    BY <2>3, <2>4
  <2>6. ~(m <= m - 1)
    BY <2>3
  <2>7. m - 1 \notin T
    BY <2>2, <2>6
  <2>8. n + 1 - (m - 1) \in R
    BY <2>5, <2>7
  <2> QED
    BY <2>3, <2>5, <2>8
<1>2. n \in 0 .. n /\ n + 1 - n = 1
  OBVIOUS
<1>3. n \notin T
  BY <1>1
<1>4. n + 1 - n \in R
  BY <1>2, <1>3
<1> QED
  BY <1>2, <1>4

\* The end of a list from k on
LEMMA EndOfList ==
  ASSUME NEW S, NEW list \in Seq(S)
  PROVE  /\ Len(list) \in Nat
         /\ SubSeq(list, Len(list) + 1, Len(list)) = <<>>
         /\ SubSeq(list, 1, Len(list)) = list
         /\ \A k \in 1 .. Len(list) :
              SubSeq(list, k, Len(list)) = <<list[k]>> \o SubSeq(list, k + 1, Len(list))
<1>1. Len(list) \in Nat
  OBVIOUS
<1>2. SubSeq(list, Len(list) + 1, Len(list)) = <<>>
  BY <1>1, SubSeqEmpty
<1>3. SubSeq(list, 1, Len(list)) = list
  BY SubSeqFull
<1>4. ASSUME NEW k \in 1 .. Len(list)
      PROVE  SubSeq(list, k, Len(list)) = <<list[k]>> \o SubSeq(list, k + 1, Len(list))
  <2>1. Len(list) \in k .. Len(list)
    BY <1>1
  <2> QED
    BY <2>1, SubSeqRecursiveFirst
<1> QED
  BY <1>1, <1>2, <1>3, <1>4

LEMMA StringsNone == Strings(<<>>) = <<>>
  BY PiecesNone DEF Strings

LEMMA TuplesNone == Tuples(<<>>) = <<>>
  BY PiecesNone DEF Tuples

\* The loop of unpack_unsubscribe reads the strings that were written, in their order,
\* all of them.
LEMMA StringsRead ==
  ASSUME NEW list \in Seq(Short), NEW body, WritesStrings(list, body)
  PROVE  body \in Seq(Byte) /\ Strings(body) = list
<1>1. PICK cut : /\ cut[Len(list) + 1] = <<>> /\ cut[1] = body
                 /\ \A k \in 1 .. Len(list) :
                      cut[k] = Joined(Counted(list[k]), cut[k + 1])
  BY DEF WritesStrings
<1>2. PICK n \in Nat : n = Len(list)
  BY EndOfList
<1> DEFINE Right(k) == cut[k] \in Seq(Byte) /\ Strings(cut[k]) = SubSeq(list, k, n)
<1>3. SubSeq(list, n + 1, n) = <<>> /\ SubSeq(list, 1, n) = list
  BY <1>2, EndOfList
<1>4. Right(n + 1)
  <2>1. cut[n + 1] = <<>> /\ <<>> \in Seq(Byte)
    BY <1>1, <1>2
  <2> QED
    BY <1>3, <2>1, StringsNone
<1>5. ASSUME NEW k \in 1 .. n, Right(k + 1) PROVE Right(k)
  <2>1. /\ cut[k] = Joined(Counted(list[k]), cut[k + 1])
        /\ SubSeq(list, k, n) = <<list[k]>> \o SubSeq(list, k + 1, n)
    BY <1>1, <1>2, EndOfList
  <2>2. list[k] \in Short
    BY <1>2, ElementOfSeq
  <2>3. /\ Joined(Counted(list[k]), cut[k + 1]) \in Seq(Byte)
        /\ Strings(Joined(Counted(list[k]), cut[k + 1]))
             = <<list[k]>> \o Strings(cut[k + 1])
    BY <1>5, <2>2, CountedRead, StringsMore
  <2> QED
    BY <1>5, <2>1, <2>3
<1> HIDE DEF Right
<1> DEFINE R == {k \in 1 .. n + 1 : Right(k)}
<1>6. 1 \in R
  <2>1. n + 1 \in R
    BY <1>4
  <2>2. ASSUME NEW k \in 1 .. n, k + 1 \in R PROVE k \in R
    BY <1>5, <2>2
  <2> HIDE DEF R
  <2> QED
    BY <2>1, <2>2, Downward
<1>7. Right(1)
  BY <1>6
<1> QED
  BY <1>1, <1>3, <1>7 DEF Right

\* A topic a SUBSCRIBE asks for
Asked == [topic : Short, qos : Byte]

\* The loop of unpack_subscribe reads the topics and levels that were written, however
\* many, from the end of the body to its front.
LEMMA TuplesRead ==
  ASSUME NEW list \in Seq(Asked), NEW body, WritesTuples(list, body)
  PROVE  body \in Seq(Byte) /\ Tuples(body) = list
<1>1. PICK cut : /\ cut[Len(list) + 1] = <<>> /\ cut[1] = body
                 /\ \A k \in 1 .. Len(list) :
                      cut[k] = Joined(Counted(list[k].topic),
                                      Joined(<<list[k].qos>>, cut[k + 1]))
  BY DEF WritesTuples
<1>2. PICK n \in Nat : n = Len(list)
  BY EndOfList
<1> DEFINE Right(k) == cut[k] \in Seq(Byte) /\ Tuples(cut[k]) = SubSeq(list, k, n)
<1>3. SubSeq(list, n + 1, n) = <<>> /\ SubSeq(list, 1, n) = list
  BY <1>2, EndOfList
<1>4. Right(n + 1)
  <2>1. cut[n + 1] = <<>> /\ <<>> \in Seq(Byte)
    BY <1>1, <1>2
  <2> QED
    BY <1>3, <2>1, TuplesNone
<1>5. ASSUME NEW k \in 1 .. n, Right(k + 1) PROVE Right(k)
  <2>1. /\ cut[k] = Joined(Counted(list[k].topic), Joined(<<list[k].qos>>, cut[k + 1]))
        /\ SubSeq(list, k, n) = <<list[k]>> \o SubSeq(list, k + 1, n)
    BY <1>1, <1>2, EndOfList
  <2>2. list[k] \in Asked
    BY <1>2, ElementOfSeq
  <2>3. PICK s \in Short, q \in Byte :
          list[k] = [topic |-> s, qos |-> q] /\ list[k].topic = s /\ list[k].qos = q
    BY <2>2 DEF Asked
  <2>4. /\ Joined(Counted(s), Joined(<<q>>, cut[k + 1])) \in Seq(Byte)
        /\ Tuples(Joined(Counted(s), Joined(<<q>>, cut[k + 1])))
             = <<[topic |-> s, qos |-> q]>> \o Tuples(cut[k + 1])
    BY <1>5, TuplesMore
  <2> QED
    BY <1>5, <2>1, <2>3, <2>4
<1> HIDE DEF Right
<1> DEFINE R == {k \in 1 .. n + 1 : Right(k)}
<1>6. 1 \in R
  <2>1. n + 1 \in R
    BY <1>4
  <2>2. ASSUME NEW k \in 1 .. n, k + 1 \in R PROVE k \in R
    BY <1>5, <2>2
  <2> HIDE DEF R
  <2> QED
    BY <2>1, <2>2, Downward
<1>7. Right(1)
  BY <1>6
<1> QED
  BY <1>1, <1>3, <1>7 DEF Right

-----------------------------------------------------------------------------
(***************************************************************************)
(* The packets of a client.                                                *)
(***************************************************************************)

\* A number of two bytes at the front
Number == {n \in Nat : n < 256 * 256}

\* unpack_u16 reads the number at the front, and the rest lies behind it.
LEMMA NumberRead ==
  ASSUME NEW n \in Number, NEW b \in Seq(Byte)
  PROVE  /\ Joined(pack_u16(n), b) \in Seq(Byte)
         /\ unpack_u16(Joined(pack_u16(n), b)) = n
         /\ From(Joined(pack_u16(n), b), 3) = b
<1> DEFINE u == pack_u16(n)
           x == Joined(u, b)
<1>1. u \in Seq(Byte) /\ Len(u) = 2 /\ 256 * u[1] + u[2] = n
  BY TwoBytes DEF Number
<1> HIDE DEF u
<1>2. /\ x \in Seq(Byte)
      /\ \A i \in 1 .. Len(u) : x[i] = u[i]
      /\ From(x, Len(u) + 1) = b
  BY <1>1, JoinedParts
<1> HIDE DEF x
<1>3. x[1] = u[1] /\ x[2] = u[2] /\ Len(u) + 1 = 3
  BY <1>1, <1>2
<1> QED
  BY <1>1, <1>2, <1>3 DEF unpack_u16, x, u

\* The bodies MQTT writes for what the packet says
AckBody(h, pkt, body) ==
  /\ h.type \in {4, 5, PUBREL, 7}
  /\ \E id \in Number : body = pack_u16(id) /\ pkt = [packet_id |-> id]

SubscribeBody(h, pkt, body) ==
  /\ h.type = SUBSCRIBE
  /\ \E id \in Number, list \in Seq(Asked), rest \in Seq(Byte) :
       /\ WritesTuples(list, rest) /\ body = Joined(pack_u16(id), rest)
       /\ pkt = [packet_id |-> id, payload |-> list]

UnsubscribeBody(h, pkt, body) ==
  /\ h.type = UNSUBSCRIBE /\ h.qos % 2 = 1
  /\ \E id \in Number, list \in Seq(Short), rest \in Seq(Byte) :
       /\ WritesStrings(list, rest) /\ body = Joined(pack_u16(id), rest)
       /\ pkt = [packet_id |-> id, topics |-> list]

ConnectBody(h, pkt, body) ==
  /\ h.type = CONNECT
  /\ \E level, flags \in Byte, time \in Number, list \in Seq(Short), rest \in Seq(Byte) :
       /\ WritesStrings(list, rest) /\ Len(list) = Announced(ConnectFlags(flags))
       /\ body = Joined(Counted(MQTT), Joined(<<level, flags>>,
                                              Joined(pack_u16(time), rest)))
       /\ pkt = [level |-> level, cf |-> ConnectFlags(flags),
                 keep_alive |-> time, strings |-> list]

PublishBody(h, pkt, body) ==
  /\ h.type = PUBLISH
  /\ \E topic \in Short, payload \in Seq(Byte), id \in Number :
       /\ Len(topic) + Len(payload) + 4 < 128 * 128 * 128
       /\ h.qos = 0 => id = 0
       /\ body = Joined(Counted(topic), IF h.qos > 0 THEN Joined(pack_u16(id), payload)
                                       ELSE payload)
       /\ pkt = [topic |-> topic, packet_id |-> id, payload |-> payload]

\* Each body is read as it was written, and not refused.
LEMMA AckRead ==
  ASSUME NEW h, NEW pkt, NEW body, AckBody(h, pkt, body)
  PROVE  body \in Seq(Byte) /\ Body(h, body) = pkt /\ ~Refused(h, body)
<1>1. PICK id \in Number : body = pack_u16(id) /\ pkt = [packet_id |-> id]
  BY DEF AckBody
<1>2. body \in Seq(Byte) /\ unpack_u16(body) = id
  BY <1>1, TwoBytes DEF Number, unpack_u16
<1>3. h.type \in {4, 5, 6, 7}
  BY DEF AckBody, PUBREL
<1>4. Body(h, body) = unpack_ack(body)
  BY <1>3 DEF Body, CONNECT, PUBLISH, SUBSCRIBE, UNSUBSCRIBE
<1>5. ~Refused(h, body)
  BY <1>3 DEF Refused, CONNECT, UNSUBSCRIBE
<1> QED
  BY <1>1, <1>2, <1>4, <1>5 DEF unpack_ack

LEMMA SubscribeRead ==
  ASSUME NEW h, NEW pkt, NEW body, SubscribeBody(h, pkt, body)
  PROVE  body \in Seq(Byte) /\ Body(h, body) = pkt /\ ~Refused(h, body)
<1>1. PICK id \in Number, list \in Seq(Asked), rest \in Seq(Byte) :
         /\ WritesTuples(list, rest) /\ body = Joined(pack_u16(id), rest)
         /\ pkt = [packet_id |-> id, payload |-> list]
  BY DEF SubscribeBody
<1>2. rest \in Seq(Byte) /\ Tuples(rest) = list
  BY <1>1, TuplesRead
<1>3. body \in Seq(Byte) /\ unpack_u16(body) = id /\ From(body, 3) = rest
  BY <1>1, <1>2, NumberRead
<1>4. h.type = 8
  BY DEF SubscribeBody, SUBSCRIBE
<1>5. Body(h, body) = unpack_subscribe(body)
  BY <1>4 DEF Body, CONNECT, PUBLISH, SUBSCRIBE, UNSUBSCRIBE
<1>6. ~Refused(h, body)
  BY <1>4 DEF Refused, CONNECT, UNSUBSCRIBE
<1> QED
  BY <1>1, <1>2, <1>3, <1>5, <1>6 DEF unpack_subscribe

LEMMA UnsubscribeRead ==
  ASSUME NEW h, NEW pkt, NEW body, UnsubscribeBody(h, pkt, body)
  PROVE  body \in Seq(Byte) /\ Body(h, body) = pkt /\ ~Refused(h, body)
<1>1. PICK id \in Number, list \in Seq(Short), rest \in Seq(Byte) :
         /\ WritesStrings(list, rest) /\ body = Joined(pack_u16(id), rest)
         /\ pkt = [packet_id |-> id, topics |-> list]
  BY DEF UnsubscribeBody
<1>2. rest \in Seq(Byte) /\ Strings(rest) = list
  BY <1>1, StringsRead
<1>3. body \in Seq(Byte) /\ unpack_u16(body) = id /\ From(body, 3) = rest
  BY <1>1, <1>2, NumberRead
<1>4. h.type = 10 /\ h.qos % 2 = 1
  BY DEF UnsubscribeBody, UNSUBSCRIBE
<1>5. Body(h, body) = unpack_unsubscribe(body)
  BY <1>4 DEF Body, CONNECT, PUBLISH, SUBSCRIBE, UNSUBSCRIBE
<1>6. ~Refused(h, body)
  BY <1>4 DEF Refused, CONNECT, UNSUBSCRIBE
<1> QED
  BY <1>1, <1>2, <1>3, <1>5, <1>6 DEF unpack_unsubscribe

LEMMA ConnectRead ==
  ASSUME NEW h, NEW pkt, NEW body, ConnectBody(h, pkt, body)
  PROVE  /\ body \in Seq(Byte) /\ Body(h, body) = pkt /\ ~Refused(h, body)
         /\ Announced(pkt.cf) =< Len(ConnectStrings(body))
<1>1. PICK level \in Byte, flags \in Byte, time \in Number, list \in Seq(Short),
           rest \in Seq(Byte) :
         /\ WritesStrings(list, rest) /\ Len(list) = Announced(ConnectFlags(flags))
         /\ body = Joined(Counted(MQTT), Joined(<<level, flags>>,
                                               Joined(pack_u16(time), rest)))
         /\ pkt = [level |-> level, cf |-> ConnectFlags(flags),
                   keep_alive |-> time, strings |-> list]
  BY DEF ConnectBody
<1> DEFINE two == <<level, flags>>
           z == Joined(pack_u16(time), rest)
           y == Joined(two, z)
<1>2. rest \in Seq(Byte) /\ Strings(rest) = list
  BY <1>1, StringsRead
<1>3. z \in Seq(Byte) /\ unpack_u16(z) = time /\ From(z, 3) = rest
  BY <1>2, NumberRead
<1> HIDE DEF z
<1>4. two \in Seq(Byte) /\ Len(two) = 2 /\ two[1] = level /\ two[2] = flags
  OBVIOUS
<1> HIDE DEF two
<1>5. /\ y \in Seq(Byte) /\ y[1] = level /\ y[2] = flags /\ From(y, 3) = z
      /\ Len(y) = 2 + Len(z)
  <2>1. /\ y \in Seq(Byte) /\ Len(y) = Len(two) + Len(z)
        /\ \A i \in 1 .. Len(two) : y[i] = two[i]
        /\ From(y, Len(two) + 1) = z
    BY <1>3, <1>4, JoinedParts
  <2> HIDE DEF y
  <2>2. 1 \in 1 .. Len(two) /\ 2 \in 1 .. Len(two) /\ Len(two) + 1 = 3
    BY <1>4
  <2> QED
    BY <1>4, <2>1, <2>2
<1>6. From(y, 5) = rest
  <2> DEFINE u == pack_u16(time)
  <2>1. u \in Seq(Byte) /\ Len(u) = 2
    BY TwoBytes DEF Number
  <2>2. z = Joined(u, rest)
    BY DEF z
  <2> HIDE DEF u, y
  <2>3. Len(z) = Len(u) + Len(rest) /\ Len(rest) \in Nat
    <3>1. Len(Joined(u, rest)) = Len(u) + Len(rest)
      BY <1>2, <2>1, JoinedParts
    <3>2. Len(rest) \in Nat
      BY <1>2
    <3> QED
      BY <2>2, <3>1, <3>2
  <2>4. Len(z) \in Nat /\ Len(z) >= 2
    BY <2>1, <2>3
  <2>5. From(From(y, 3), 3) = From(y, 5)
    BY <1>5, <2>4 DEF From
  <2> QED
    BY <1>3, <1>5, <2>5
<1> HIDE DEF y
<1>7. MQTT \in Short
  <2>1. MQTT \in Seq(Byte) /\ Len(MQTT) = 4
    BY DEF MQTT, Byte
  <2>2. Len(MQTT) < 256 * 256
    BY <2>1
  <2> QED
    BY <2>1, <2>2 DEF Short
<1>8. /\ body \in Seq(Byte) /\ unpack_string16(body) = MQTT /\ After16(body) = y
  BY <1>1, <1>5, <1>7, CountedRead DEF y, z, two
<1>9. h.type = 1
  BY DEF ConnectBody, CONNECT
<1>10. Body(h, body) = unpack_connect(body)
  BY <1>9 DEF Body, CONNECT, PUBLISH, SUBSCRIBE, UNSUBSCRIBE
<1>11. ~Refused(h, body)
  BY <1>8, <1>9 DEF Refused, UNSUBSCRIBE
<1>12. ConnectStrings(body) = list
  BY <1>2, <1>6, <1>8 DEF ConnectStrings
<1>13. Announced(ConnectFlags(flags)) = Len(list)
  BY <1>1
<1>14. unpack_connect(body) = pkt
  <2>1. SubSeq(list, 1, Len(list)) = list  OBVIOUS
  <2>2. unpack_connect(body) =
          [level |-> level, cf |-> ConnectFlags(flags), keep_alive |-> time,
           strings |-> SubSeq(list, 1, Len(list))]
    BY <1>3, <1>5, <1>8, <1>12, <1>13 DEF unpack_connect
  <2> QED BY <1>1, <2>1, <2>2
<1>15. Announced(pkt.cf) =< Len(ConnectStrings(body))
  <2>1. Len(list) \in Nat  OBVIOUS
  <2> QED BY <1>1, <1>12, <1>13, <2>1
<1> QED
  BY <1>8, <1>10, <1>11, <1>14, <1>15

LEMMA PublishRead ==
  ASSUME NEW h \in Headers, NEW pkt, NEW body, PublishBody(h, pkt, body)
  PROVE  body \in Seq(Byte) /\ Body(h, body) = pkt /\ ~Refused(h, body)
<1>1. PICK topic \in Short, payload \in Seq(Byte), id \in Number :
         /\ h.qos = 0 => id = 0
         /\ body = Joined(Counted(topic), IF h.qos > 0
                                          THEN Joined(pack_u16(id), payload)
                                          ELSE payload)
         /\ pkt = [topic |-> topic, packet_id |-> id, payload |-> payload]
  BY DEF PublishBody
<1> DEFINE rest == IF h.qos > 0 THEN Joined(pack_u16(id), payload) ELSE payload
<1>2. h.qos \in 0 .. 3
  BY DEF Headers
<1>3. rest \in Seq(Byte)
  BY NumberRead
<1>4. /\ id = IF h.qos > 0 THEN unpack_u16(rest) ELSE 0
      /\ payload = IF h.qos > 0 THEN From(rest, 3) ELSE rest
  BY <1>1, <1>2, NumberRead
<1>5. body = Joined(Counted(topic), rest)
  BY <1>1
<1> HIDE DEF rest
<1>6. body \in Seq(Byte) /\ unpack_string16(body) = topic /\ After16(body) = rest
  BY <1>3, <1>5, CountedRead
<1>7. h.type = 3
  BY DEF PublishBody, PUBLISH
<1>8. Body(h, body) = unpack_publish(h, body)
  BY <1>7 DEF Body, CONNECT, PUBLISH, SUBSCRIBE, UNSUBSCRIBE
<1>9. ~Refused(h, body)
  BY <1>7 DEF Refused, CONNECT, UNSUBSCRIBE
<1>10. unpack_publish(h, body) = pkt
  BY <1>1, <1>4, <1>6 DEF unpack_publish
<1> QED
  BY <1>6, <1>8, <1>9, <1>10

\* What a PUBLISH says is something the wire can carry.
LEMMA PublishSays ==
  ASSUME NEW h, NEW pkt, NEW body, PublishBody(h, pkt, body)
  PROVE  Publication([header |-> h, pkt |-> pkt])
<1>1. PICK topic \in Short, payload \in Seq(Byte), id \in Number :
         /\ Len(topic) + Len(payload) + 4 < 128 * 128 * 128
         /\ pkt = [topic |-> topic, packet_id |-> id, payload |-> payload]
  BY DEF PublishBody
<1>2. topic \in Seq(Byte) /\ Len(topic) < 256 * 256
  BY DEF Short
<1>3. h.type = PUBLISH
  BY DEF PublishBody
<1>4. pkt.topic = topic /\ pkt.payload = payload /\ pkt.packet_id = id
  BY <1>1
<1> DEFINE m == [header |-> h, pkt |-> pkt]
<1>5. m.header = h /\ m.pkt = pkt
  OBVIOUS
<1>6. m = [header |-> m.header,
           pkt |-> [topic |-> m.pkt.topic, packet_id |-> m.pkt.packet_id,
                    payload |-> m.pkt.payload]]
  BY <1>1, <1>4, <1>5
<1> HIDE DEF m
<1>7. Publication(m)
  BY <1>1, <1>2, <1>3, <1>4, <1>5, <1>6 DEF Publication
<1> QED
  BY <1>7 DEF m

\* The body of a frame lies behind its remaining length.
LEMMA FrameBody ==
  ASSUME NEW h \in Headers, NEW body \in Seq(Byte), Len(body) < 128 * 128 * 128
  PROVE  /\ Frame(h, body) \in Seq(Byte)
         /\ \E k \in 3 .. 5 : From(Frame(h, body), k) = body
<1> DEFINE a == <<HeaderPack(h)>>
           c == encode_length(Len(body))
           ac == Joined(a, c)
<1>1. a \in Seq(Byte) /\ Len(a) = 1
  BY HeaderRoundTrip
<1>2. c \in Seq(Byte) /\ Len(c) \in 1 .. 3
  <2>1. Len(body) \in Nat
    OBVIOUS
  <2> QED
    BY <2>1, EncodeShape
<1> HIDE DEF a, c
<1>3. ac \in Seq(Byte) /\ Len(ac) = Len(a) + Len(c)
  BY <1>1, <1>2, JoinedParts
<1>4. Frame(h, body) = Joined(ac, body)
  BY DEF Frame, Joined, a, c
<1> HIDE DEF ac
<1>5. Joined(ac, body) \in Seq(Byte) /\ From(Joined(ac, body), Len(ac) + 1) = body
  BY <1>3, JoinedParts
<1>6. Len(ac) + 1 \in 3 .. 5
  <2>1. \A n \in 1 .. 3 : 1 + n + 1 \in 3 .. 5
    OBVIOUS
  <2>2. Len(ac) = 1 + Len(c)
    BY <1>1, <1>3
  <2> QED
    BY <1>2, <2>1, <2>2
<1> QED
  BY <1>4, <1>5, <1>6

\* What the bytes of a packet frame, and what they say, are what Spoken asks.
LEMMA FrameSpoken ==
  ASSUME NEW h \in Headers, h.type \in Kinds, NEW pkt, NEW body \in Seq(Byte),
         Len(body) < 128 * 128 * 128, Body(h, body) = pkt, ~Refused(h, body),
         h.type = CONNECT => Announced(pkt.cf) =< Len(ConnectStrings(body)),
         h.type = PUBLISH => Publication([header |-> h, pkt |-> pkt])
  PROVE  Spoken([says |-> [header |-> h, pkt |-> pkt], bytes |-> Frame(h, body)])
<1> DEFINE says == [header |-> h, pkt |-> pkt]
           p == [says |-> says, bytes |-> Frame(h, body)]
<1>1. /\ p.says = says /\ p.bytes = Frame(h, body) /\ says.header = h
      /\ says.pkt = pkt
  OBVIOUS
<1>2. says = [header |-> h, pkt |-> Body(h, body)]
  OBVIOUS
<1>3. h.type = PUBLISH => Publication(says)
  OBVIOUS
<1> HIDE DEF says
<1>4. p.says = says /\ p.bytes = Frame(h, body)
  OBVIOUS
<1> HIDE DEF p
<1>5. PICK k \in 3 .. 5 : From(p.bytes, k) = body
  BY <1>4, FrameBody
<1>6. \E j \in 3 .. 5 :
        LET b == From(p.bytes, j)
        IN  /\ p.bytes = Frame(p.says.header, b)
            /\ Len(b) < 128 * 128 * 128
            /\ ~Refused(p.says.header, b)
            /\ p.says = [header |-> p.says.header, pkt |-> Body(p.says.header, b)]
            /\ p.says.header.type = CONNECT =>
                 Announced(p.says.pkt.cf) =< Len(ConnectStrings(b))
  BY <1>1, <1>2, <1>4, <1>5
<1>7. Spoken(p)
  BY <1>1, <1>3, <1>4, <1>6 DEF Spoken
<1> QED
  BY <1>7 DEF p, says

\* Whatever a client writes as MQTT tells it to, with a remaining length of at most
\* three bytes, is a packet Receive assumes: its frame is taken apart by unpack and
\* the unpackers into exactly what the client said, and none of them refuses it.
THEOREM ClientPacketsSpoken ==
  ASSUME NEW h \in Headers, NEW pkt, NEW body, Len(body) < 128 * 128 * 128,
         \/ AckBody(h, pkt, body)
         \/ SubscribeBody(h, pkt, body)
         \/ UnsubscribeBody(h, pkt, body)
         \/ ConnectBody(h, pkt, body)
         \/ PublishBody(h, pkt, body)
  PROVE  Spoken([says |-> [header |-> h, pkt |-> pkt], bytes |-> Frame(h, body)])
<1>1. body \in Seq(Byte) /\ Body(h, body) = pkt /\ ~Refused(h, body)
  BY AckRead, SubscribeRead, UnsubscribeRead, ConnectRead, PublishRead
<1>2. h.type \in Kinds
  BY DEF AckBody, SubscribeBody, UnsubscribeBody, ConnectBody, PublishBody, Kinds
<1>3. /\ h.type = PUBLISH => PublishBody(h, pkt, body)
      /\ h.type = CONNECT => ConnectBody(h, pkt, body)
  <2>1. AckBody(h, pkt, body) => h.type # PUBLISH /\ h.type # CONNECT
    BY DEF AckBody, PUBLISH, PUBREL, CONNECT
  <2>2. SubscribeBody(h, pkt, body) => h.type # PUBLISH /\ h.type # CONNECT
    BY DEF SubscribeBody, PUBLISH, SUBSCRIBE, CONNECT
  <2>3. UnsubscribeBody(h, pkt, body) => h.type # PUBLISH /\ h.type # CONNECT
    BY DEF UnsubscribeBody, PUBLISH, UNSUBSCRIBE, CONNECT
  <2>4. ConnectBody(h, pkt, body) => h.type # PUBLISH
    BY DEF ConnectBody, PUBLISH, CONNECT
  <2>5. PublishBody(h, pkt, body) => h.type # CONNECT
    BY DEF PublishBody, PUBLISH, CONNECT
  <2> QED BY <2>1, <2>2, <2>3, <2>4, <2>5
<1>4. h.type = PUBLISH => Publication([header |-> h, pkt |-> pkt])
  BY <1>3, PublishSays
<1>5. h.type = CONNECT => Announced(pkt.cf) =< Len(ConnectStrings(body))
  BY <1>3, ConnectRead
<1> QED
  BY <1>1, <1>2, <1>4, <1>5, FrameSpoken
=============================================================================
