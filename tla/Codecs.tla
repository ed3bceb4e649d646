------------------------------- MODULE Codecs -------------------------------
(***************************************************************************)
(* The codecs of utils/encoding.* and utils/hash.cc: fixed-width integers, *)
(* the two implementations of Base64, and hexadecimal.  Data and text are  *)
(* sequences of bytes; shifts and masks are divisions and remainders.      *)
(***************************************************************************)
EXTENDS StrUtils, Numbers, FiniteSets

Byte == 0 .. 255
Shr(x, k) == x \div 2 ^ k
Low(x, k) == x % 2 ^ k         \* the lowest k bits
Char8(x) == Low(x, 8)
MapSeq(s, Op(_)) == [i \in DOMAIN s |-> Op(s[i])]

(* Words of several bytes, lowest byte first.                               *)
EncodeFixed(value, bytes) == [i \in 1 .. bytes |-> Char8(Shr(value, 8 * (i - 1)))]
DecodeFixed(buffer) == Packed(Reverse(buffer), 256)

Pad == 61
Digit64(v) == CASE v < 26 -> 65 + v [] v \in 26 .. 51 -> 71 + v [] v \in 52 .. 61 -> v - 4
                [] v = 62 -> 43 [] v = 63 -> 47
base64_chars == [v \in 0 .. 63 |-> Digit64(v)]
Value64 == [c \in Range(base64_chars) |-> CHOOSE v \in 0 .. 63 : base64_chars[v] = c]
is_base64(c) == c \in DOMAIN Value64

Group(s, n, k) == SubSeq(s, n * (k - 1) + 1, Lesser(n * k, Len(s)))
Groups(s, n) == [k \in 1 .. (Len(s) + n - 1) \div n |-> Group(s, n, k)]

(* Base64Encoding() gathers three bytes, and makes four digits of them byte *)
(* by byte; what is left at the end is filled up with zeros, gives one      *)
(* digit more than it has bytes, and the rest is padding.                   *)
FourOf(a) == <<Shr(a[1], 2), Low(a[1], 2) * 16 + Shr(a[2], 4),
               Low(a[2], 4) * 4 + Shr(a[3], 6), Low(a[3], 6)>>
EncodeGroup(g) ==
  LET digits == FourOf([j \in 1 .. 3 |-> IF j <= Len(g) THEN g[j] ELSE 0])
  IN  [j \in 1 .. 4 |-> IF j <= Len(g) + 1 THEN base64_chars[digits[j]] ELSE Pad]
Base64Encoding(bytes) == FlattenSeq(MapSeq(Groups(bytes, 3), EncodeGroup))

(* Base64Decoding() stops at the first character that is no digit.  It      *)
(* decodes an incomplete last group too, to a byte less than it has digits; *)
(* the digits that are not there are whatever the array held: the bytes     *)
(* that depend on them are not returned.                                    *)
ThreeOf(a) == <<Char8(a[1] * 4) + Shr(Low(a[2], 6), 4), Low(a[2], 4) * 16 + Shr(Low(a[3], 6), 2),
                Char8(Low(a[3], 2) * 64 + a[4])>>
DigitsOf(text) ==
  SubSeq(text, 1, SelectInSeq(Append(text, Pad), LAMBDA c : ~is_base64(c)) - 1)
DecodeGroup(g) ==
  SubSeq(ThreeOf([j \in 1 .. 4 |-> IF j <= Len(g) THEN Value64[g[j]] ELSE 0]), 1, Len(g) - 1)
Base64Decoding(text) == FlattenSeq(MapSeq(Groups(DigitsOf(text), 4), DecodeGroup))

(* base64encode() packs three bytes into one number and takes digits off it.*)
encodeGroup(g) ==
  LET packed == Packed(g, 256) * 256 ^ (3 - Len(g))
  IN  [j \in 1 .. 4 |-> IF j <= Len(g) + 1 THEN base64_chars[Low(Shr(packed, 24 - 6 * j), 6)] ELSE Pad]
base64encode(data) == FlattenSeq(MapSeq(Groups(data, 3), encodeGroup))

(* base64decode() accepts whole groups only, padding only at the end of the *)
(* last one, at most two characters of it; anything else decodes to "".     *)
(* What it writes goes into a buffer of three quarters of the text.         *)
padding(g) == Cardinality({j \in 1 .. Len(g) : g[j] = Pad})
GoodGroup(g, isLast) ==
  /\ Len(g) = 4 /\ padding(g) <= 2 /\ (padding(g) > 0 => isLast)
  /\ \A j \in 1 .. 4 : IF j <= 4 - padding(g) THEN is_base64(g[j]) ELSE g[j] = Pad
decodeGroup(g) ==
  LET packed == Packed(MapSeq(g, LAMBDA c : IF c = Pad THEN 0 ELSE Value64[c]), 64)
  IN  [j \in 1 .. 3 - padding(g) |-> Char8(Shr(packed, 24 - 8 * j))]
Accepted(src) ==
  LET groups == Groups(src, 4)
  IN  \A k \in DOMAIN groups : GoodGroup(groups[k], k = Len(groups))
base64decode(src) ==
  IF Accepted(src) THEN FlattenSeq(MapSeq(Groups(src, 4), decodeGroup)) ELSE <<>>

(* Hexadecimal, to lower case and from either case; a text of odd length,   *)
(* or with anything else in it, throws.                                     *)
HexDigit(c) == IF c > 9 THEN c + 87 ELSE c + 48
hexstring_from_data(data) ==
  FlattenSeq(MapSeq(data, LAMBDA b : <<HexDigit(Shr(b, 4)), HexDigit(Low(b, 4))>>))
HexValue == [c \in 48 .. 57 \cup 65 .. 70 \cup 97 .. 102 |->
               IF c < 58 THEN c - 48 ELSE IF c < 71 THEN c - 55 ELSE c - 87]
Throws == <<-1>>               \* std::invalid_argument
data_from_hexstring(text) ==
  IF Len(text) % 2 # 0 \/ ~ToSet(text) \subseteq DOMAIN HexValue THEN Throws
  ELSE MapSeq(Groups(text, 2), LAMBDA g : HexValue[g[1]] * 16 + HexValue[g[2]])
-----------------------------------------------------------------------------
(* encoding.cc:3-78, hash.cc:131-237: there are two Base64 encoders and two *)
(* decoders.  The encoders agree, every decoder undoes every encoder, and   *)
(* where the strict decoder accepts a text the lenient one reads the same.  *)
Base64Agrees(data) ==
  /\ Base64Encoding(data) = base64encode(data)
  /\ Base64Decoding(base64encode(data)) = data
  /\ base64decode(Base64Encoding(data)) = data
StrictWithinLenient(text) ==
  Accepted(text) => base64decode(text) = Base64Decoding(text)

(* hash.cc:133-188: nothing is written past the buffer that was reserved,   *)
(* even by a text that turns out not to be Base64 in a later group.         *)
NoOverrun(src) ==
  LET groups == Groups(src, 4)
      Written[n \in 0 .. Len(groups)] ==
        IF n = 0 THEN 0 ELSE Written[n - 1] + 3 - Lesser(2, padding(groups[n]))
      \* the groups that are written before the first one that is refused
      good == {n \in 0 .. Len(groups) : \A k \in 1 .. n : GoodGroup(groups[k], k = Len(groups))}
  IN  \A n \in good : Written[n] <= (Len(src) * 3) \div 4

(* hash.cc:368-493, encoding.h:18-61: hexadecimal and fixed-width words     *)
(* read back what was written, in either case.                              *)
HexReadsBack(data) ==
  LET upper == MapSeq(hexstring_from_data(data), LAMBDA c : IF c > 96 THEN c - 32 ELSE c)
  IN  data_from_hexstring(hexstring_from_data(data)) = data /\ data_from_hexstring(upper) = data
FixedReadsBack(data) == Len(data) <= 3 => EncodeFixed(DecodeFixed(data), Len(data)) = data
CodecsReadBack(data) ==
  /\ Base64Agrees(data) /\ StrictWithinLenient(data) /\ NoOverrun(data)
  /\ HexReadsBack(data) /\ FixedReadsBack(data)
  /\ data_from_hexstring(data) # Throws =>
       hexstring_from_data(data_from_hexstring(data))
         = MapSeq(data, LAMBDA c : IF c \in 65 .. 70 THEN c + 32 ELSE c)
=============================================================================
