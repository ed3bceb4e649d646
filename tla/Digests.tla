------------------------------ MODULE Digests ------------------------------
(***************************************************************************)
(* The hash functions of utils/hash.cc.  What the multiplications and      *)
(* rotations make of a word is left out: a hash is the record of what is   *)
(* mixed into it, in order, so two inputs with the same record certainly   *)
(* collide.  OpenSSL's digests are a parameter; the calls around them are  *)
(* modelled.                                                               *)
(***************************************************************************)
EXTENDS Codecs

CONSTANTS Digest(_),       \* a message's digest, DigestLength bytes
          DigestLength,    \* L of hmac()
          BlockLength      \* B of hmac()

ASSUME DigestAssumption == /\ DigestLength \in Nat \ {0} /\ BlockLength \in Nat
                           /\ DigestLength <= BlockLength

NUL == 0
(* What a const char* is: the text up to the NUL behind it.                 *)
CString(text) == SubSeq(text, 1, SelectInSeq(Append(text, NUL), LAMBDA c : c = NUL) - 1)

(* murmur3_hash(): words of four bytes, the rest as one more word of the    *)
(* bytes that the fall-through adds from the third down, and the length.    *)
(* (The null pointer, for which it answers 0, is not among the inputs.)     *)
(* Mutant: a break in the fall-through. *)
TailBreaks(tail) ==
  [k \in 1 .. 4 |-> IF k = Len(tail) THEN tail[k] ELSE 0]
TailWord(tail) ==
  [k \in 1 .. 4 |-> IF k <= Len(tail) THEN tail[k] ELSE 0]
Blocks(data, len) == SubSeq(Groups(SubSeq(data, 1, len), 4), 1, len \div 4)
Tail4(data, len) == SubSeq(data, 4 * (len \div 4) + 1, len)
murmur3_hash(data, len, seed) ==
  [seed |-> seed, words |-> Blocks(data, len), len |-> len,
   tail |-> IF len % 4 = 0 THEN <<>> ELSE TailWord(Tail4(data, len))]
murmur3_hash_str(text, seed) == murmur3_hash(text, Len(CString(text)), seed)
(* A string_view is handed on as its pointer.                               *)
murmur3_hash_view(buffer, ptr, length, seed) ==
  murmur3_hash_str(SubSeq(buffer, ptr + 1, Len(buffer)), seed)

(* quick_hash(): a round for every character.  A string_view is its pointer *)
(* here too; the overload with a size never moves its pointer, so that all  *)
(* its rounds are with the first byte.                                      *)
quick_hash(text) == CString(text)
quick_hash_view(buffer, ptr, length) == quick_hash(SubSeq(buffer, ptr + 1, Len(buffer)))
quick_hash_sized(data, len) == [i \in 1 .. len |-> data[1]]

(* Hash(): the length goes in first, with the seed.                         *)
Hash(data, n, seed) ==
  [seed |-> <<seed, n>>, words |-> Blocks(data, n),
   tail |-> Tail4(data, n)]

(* hmac(), with the context as the message it has been given so far.  A key *)
(* longer than a block is replaced by its digest; the key is filled up.     *)
Update(ctx, bytes) == ctx \o bytes
BitOf(x, i) == Low(Shr(x, 8 - i), 1)      \* the highest of eight is the first
Xor(x, y) == Packed([i \in 1 .. 8 |-> (BitOf(x, i) + BitOf(y, i)) % 2], 2)
XorWith(key, value) == MapSeq(key, LAMBDA b : Xor(b, value))
FillUp(key) == key \o [i \in 1 .. BlockLength - Len(key) |-> NUL]
KeyLocal(key) == FillUp(IF Len(key) > BlockLength THEN Digest(Update(<<>>, key)) ELSE key)
hmac(text, key) ==
  LET inner == Digest(Update(Update(<<>>, XorWith(KeyLocal(key), 54)), text))
  IN  Digest(Update(Update(<<>>, XorWith(KeyLocal(key), 92)), inner))

(* md5sum(), sha1sum() and sha0sum(), which is SHA-1 as well; md5() and     *)
(* sha1() in hexadecimal.                                                   *)
sum(data) == Digest(Update(<<>>, data))
HexSum(data) == hexstring_from_data(SubSeq(sum(data), 1, DigestLength))
-----------------------------------------------------------------------------
(* hash.cc:5-91, 97-107, 506-536: no two inputs are bound to collide in     *)
(* murmur3_hash() or in Hash(), whatever the mixing does: every byte goes   *)
(* in, and how many there are.  The overloads for strings see as much, and  *)
(* murmur3_hash() agrees with itself, as long as there is no NUL inside.    *)
EveryByteCounts(a, b) ==
  /\ a # b => /\ murmur3_hash(a, Len(a), 0) # murmur3_hash(b, Len(b), 0)
              /\ Hash(a, Len(a), 0) # Hash(b, Len(b), 0)
  /\ NUL \notin ToSet(a) => murmur3_hash_str(a, 0) = murmur3_hash(a, Len(a), 0)
  /\ a # b /\ NUL \notin ToSet(a) \cup ToSet(b) =>
       /\ murmur3_hash_str(a, 0) # murmur3_hash_str(b, 0)
       /\ quick_hash(a) # quick_hash(b)

(* hash.cc:93-95, 109-121: what the other overloads miss, exactly.          *)
(* quick_hash() with a size tells inputs apart by their length and their    *)
(* first byte alone; a string_view is hashed as its characters only when it *)
(* ends where the buffer does, otherwise with all that follows it.          *)
SomeHashesMissBytes(a, b) ==
  /\ Len(a) > 0 /\ Len(b) > 0 =>
       (quick_hash_sized(a, Len(a)) = quick_hash_sized(b, Len(b))
          <=> Len(a) = Len(b) /\ a[1] = b[1])
  /\ NUL \notin ToSet(a) =>
       \A p \in 0 .. Len(a) : \A l \in 0 .. Len(a) - p :
         LET view == SubSeq(a, p + 1, p + l) IN
         /\ murmur3_hash_view(a, p, l, 0) = murmur3_hash(view, l, 0) <=> p + l = Len(a)
         /\ quick_hash_view(a, p, l) = quick_hash(view) <=> p + l = Len(a)

(* hash.cc:309-338, as RFC 2104 has it: a key that is too long stands for   *)
(* its digest and one that is too short for itself with zeros behind it;    *)
(* the two pads keep the inner and the outer key apart.                     *)
KeysAreNormalised(text, key) ==
  /\ Len(key) > BlockLength => hmac(text, key) = hmac(text, Digest(key))
  /\ Len(key) < BlockLength => hmac(text, key) = hmac(text, Append(key, NUL))
  /\ Len(KeyLocal(key)) = BlockLength
  /\ \A i \in 1 .. BlockLength :
       XorWith(KeyLocal(key), 54)[i] # XorWith(KeyLocal(key), 92)[i]
  /\ data_from_hexstring(HexSum(text)) = Digest(text)
=============================================================================
