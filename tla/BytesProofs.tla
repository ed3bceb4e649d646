---------------------------- MODULE BytesProofs ----------------------------
(***************************************************************************)
(* Proofs about Codecs and Digests, for all byte strings: what is encoded  *)
(* can be decoded, and which bytes enter a hash is known.                  *)
(*                                                                         *)
(* What works chunk by chunk (EachOver) is known by what it does to one    *)
(* chunk and to what follows it (Blockwise), so that an induction over the *)
(* chunks shows it (Chunks).  One chunk is arithmetic: the three bytes of  *)
(* a number are its four digits to the base 64 (FourInThree, Shifts).  A   *)
(* decoder stops at the first character that is no digit (FirstStop), and  *)
(* the strict one accepts less than the lenient one but reads the same.    *)
(* OpenSSL's digests are a parameter; their length is all that is asked.   *)
(***************************************************************************)
EXTENDS TextsProofs, FiniteSetTheorems

(* How many groups of n a sequence of length l has, and how much of the     *)
(* k-th of them there is.                                                   *)
LEMMA GroupCount ==
  ASSUME NEW n \in {2, 3, 4}, NEW l \in Nat
  PROVE  LET c == (l + n - 1) \div n
         IN  /\ c \in Nat /\ (l + n + n - 1) \div n = c + 1
             /\ l = 0 => c = 0
             /\ l \in 1 .. n => c = 1
             /\ \A k \in 1 .. c : n * (k - 1) < l /\ n * (k - 1) \in Nat /\ n * k \in Nat
                                  /\ n * k = n * (k - 1) + n
             /\ \A k \in 1 .. l \div n : k \in 1 .. c /\ n * k <= l
<1>1. CASE n = 2
  BY <1>1
<1>2. CASE n = 3
  BY <1>2
<1>3. CASE n = 4
  BY <1>3
<1>4. QED
  BY <1>1, <1>2, <1>3

(* The groups of a string are strings of one to n characters.               *)
UpTo(n) == {g \in String : Len(g) \in 1 .. n}

(* What a group is.                                                         *)
LEMMA GroupIs ==
  ASSUME NEW n \in {2, 3, 4}, NEW s \in String, NEW k \in 1 .. (Len(s) + n - 1) \div n
  PROVE  /\ Group(s, n, k) \in UpTo(n)
         /\ Len(Group(s, n, k)) = Lesser(n, Len(s) - n * (k - 1))
         /\ \A j \in 1 .. Len(Group(s, n, k)) : Group(s, n, k)[j] = s[n * (k - 1) + j]
<1>1. PICK l \in Nat : l = Len(s)
  BY StringFacts
<1>2. PICK a \in Nat, b \in Nat : a = n * (k - 1) /\ b = n * k /\ a < l /\ b = a + n
  <2>1. k \in 1 .. (l + n - 1) \div n
    BY <1>1
  <2>2. n * (k - 1) < l /\ n * (k - 1) \in Nat /\ n * k \in Nat /\ n * k = n * (k - 1) + n
    BY <2>1, GroupCount
  <2>3. QED
    BY <2>2
<1>3. PICK e \in Nat : e = Lesser(b, l)
  BY DEF Lesser
<1>4. e \in 0 .. l /\ a \in 0 .. e /\ e - a \in 1 .. n /\ e - a = Lesser(n, l - a)
  <2>1. e = IF b < l THEN b ELSE l
    BY <1>3 DEF Lesser
  <2>2. PICK w \in Nat : w = n /\ w >= 2
    OBVIOUS
  <2>3. b = a + w
    BY <1>2, <2>2
  <2>4. e \in 0 .. l /\ a \in 0 .. e /\ e - a \in 1 .. w /\ e - a = IF w < l - a THEN w ELSE l - a
    BY <1>2, <2>1, <2>2, <2>3
  <2>5. QED
    BY <2>2, <2>4 DEF Lesser
<1>5. Group(s, n, k) = Cut(s, a, e)
  BY <1>1, <1>2, <1>3 DEF Group, Cut
<1>6. /\ Cut(s, a, e) \in String /\ Len(Cut(s, a, e)) = e - a
      /\ \A j \in 1 .. e - a : Cut(s, a, e)[j] = s[a + j]
  BY <1>1, <1>4, CutIs
<1>7. QED
  BY <1>1, <1>2, <1>4, <1>5, <1>6 DEF UpTo

(* The same, by where it begins.                                            *)
LEMMA GroupFrom ==
  ASSUME NEW n \in {2, 3, 4}, NEW s \in String, NEW k \in 1 .. (Len(s) + n - 1) \div n,
         NEW a \in Nat, a = n * (k - 1)
  PROVE  /\ Group(s, n, k) \in String /\ Len(Group(s, n, k)) = Lesser(n, Len(s) - a)
         /\ \A j \in 1 .. Lesser(n, Len(s) - a) : Group(s, n, k)[j] = s[a + j]
<1>1. Group(s, n, k) \in String
  BY GroupIs DEF UpTo
<1>2. Len(Group(s, n, k)) = Lesser(n, Len(s) - a)
  BY GroupIs
<1>3. \A j \in 1 .. Len(Group(s, n, k)) : Group(s, n, k)[j] = s[a + j]
  BY GroupIs
<1>4. QED
  BY <1>1, <1>2, <1>3

(* What the groups are.                                                     *)
LEMMA GroupsAre ==
  ASSUME NEW n \in {2, 3, 4}, NEW s \in String
  PROVE  /\ Groups(s, n) \in Seq(UpTo(n)) /\ Len(Groups(s, n)) = (Len(s) + n - 1) \div n
         /\ (Len(s) + n - 1) \div n \in Nat
         /\ \A k \in 1 .. (Len(s) + n - 1) \div n : Groups(s, n)[k] = Group(s, n, k)
<1>1. PICK c \in Nat : c = (Len(s) + n - 1) \div n
  BY StringFacts, GroupCount
<1>2. \A k \in 1 .. c : Group(s, n, k) \in UpTo(n)
  BY <1>1, GroupIs
<1>3. Groups(s, n) = [k \in 1 .. c |-> Group(s, n, k)]
  BY <1>1 DEF Groups
<1>4. Groups(s, n) \in [1 .. c -> UpTo(n)]
  BY <1>2, <1>3
<1>5. QED
  BY <1>1, <1>3, <1>4, IsSequence

(* Strings of the same length and characters are the same.                  *)
LEMMA SameString ==
  ASSUME NEW a \in String, NEW b \in String, Len(a) = Len(b),
         \A i \in 1 .. Len(a) : a[i] = b[i]
  PROVE  a = b
BY SeqEqual DEF String

(* A short string is one group, and the empty one none.                     *)
LEMMA ShortGroups ==
  ASSUME NEW n \in {2, 3, 4}, NEW s \in String, Len(s) <= n
  PROVE  Groups(s, n) = IF s = <<>> THEN <<>> ELSE <<s>>
<1>1. CASE s = <<>>
  <2>1. Len(s) = 0
    BY <1>1, ShortStrings
  <2>2. (0 + n - 1) \div n = 0
    BY GroupCount
  <2>3. Groups(s, n) \in Seq(UpTo(n)) /\ Len(Groups(s, n)) = 0
    BY <2>1, <2>2, GroupsAre
  <2>4. Groups(s, n) = <<>>
    BY <2>3, EmptySeq
  <2>5. QED
    BY <1>1, <2>4
<1>2. CASE s # <<>>
  <2>1. Len(s) \in 1 .. n
    <3>1. Len(s) # 0
      BY <1>2, EmptySeq DEF String
    <3>2. QED
      BY <3>1, StringFacts
  <2>2. (Len(s) + n - 1) \div n = 1
    <3>1. PICK l \in Nat : l = Len(s)
      BY StringFacts
    <3>2. (l + n - 1) \div n = 1
      BY <2>1, <3>1, GroupCount
    <3>3. QED
      BY <3>1, <3>2
  <2>3. Groups(s, n) \in Seq(UpTo(n)) /\ Len(Groups(s, n)) = 1 /\ Groups(s, n)[1] = Group(s, n, 1)
    <3>1. 1 \in 1 .. (Len(s) + n - 1) \div n
      BY <2>2
    <3>2. QED
      BY <2>2, <3>1, GroupsAre
  <2>4. Group(s, n, 1) = s
    <3>1. 1 \in 1 .. (Len(s) + n - 1) \div n /\ n * (1 - 1) = 0
      BY <2>2
    <3>2. /\ Group(s, n, 1) \in String /\ Len(Group(s, n, 1)) = Lesser(n, Len(s) - 0)
          /\ \A j \in 1 .. Lesser(n, Len(s) - 0) : Group(s, n, 1)[j] = s[0 + j]
      BY <3>1, GroupFrom
    <3>3. Lesser(n, Len(s) - 0) = Len(s)
      BY <2>1 DEF Lesser
    <3>4. \A j \in 1 .. Len(s) : 0 + j = j
      BY StringFacts
    <3>5. QED
      BY <3>2, <3>3, <3>4, SameString
  <2>5. Groups(s, n) = <<s>>
    <3>1. <<s>> \in Seq(UpTo(n)) /\ Len(<<s>>) = 1 /\ <<s>>[1] = s
      BY <2>1 DEF UpTo
    <3>2. QED
      BY <2>3, <2>4, <3>1, SeqEqual
  <2>6. QED
    BY <1>2, <2>5
<1>3. QED
  BY <1>1, <1>2

(* The first n characters of a longer one are its first group.              *)
LEMMA LongGroups ==
  ASSUME NEW n \in {2, 3, 4}, NEW p \in String, Len(p) = n, NEW s \in String
  PROVE  Groups(p \o s, n) = <<p>> \o Groups(s, n)
<1> DEFINE t == p \o s
<1>1. PICK l \in Nat : l = Len(s)
  BY StringFacts
<1>2. t \in String /\ Len(t) = l + n /\ (\A i \in 1 .. n : t[i] = p[i])
      /\ \A i \in 1 .. l : t[n + i] = s[i]
  <2>1. n + l = l + n
    BY <1>1
  <2>2. QED
    BY <1>1, <2>1, JoinedIs
<1> HIDE DEF t
<1>3. PICK c \in Nat : c = (l + n - 1) \div n /\ (l + n + n - 1) \div n = c + 1
  BY GroupCount
<1>4. /\ Groups(s, n) \in Seq(UpTo(n)) /\ Len(Groups(s, n)) = c
      /\ \A k \in 1 .. c : Groups(s, n)[k] = Group(s, n, k)
  BY <1>1, <1>3, GroupsAre
<1>5. /\ Groups(t, n) \in Seq(UpTo(n)) /\ Len(Groups(t, n)) = c + 1
      /\ \A k \in 1 .. c + 1 : Groups(t, n)[k] = Group(t, n, k)
  <2>1. (Len(t) + n - 1) \div n = c + 1
    BY <1>2, <1>3
  <2>2. /\ Groups(t, n) \in Seq(UpTo(n)) /\ Len(Groups(t, n)) = (Len(t) + n - 1) \div n
        /\ \A k \in 1 .. (Len(t) + n - 1) \div n : Groups(t, n)[k] = Group(t, n, k)
    BY <1>2, GroupsAre
  <2>3. QED
    BY <2>1, <2>2
<1>6. p \in UpTo(n)
  BY DEF UpTo
<1>7. /\ <<p>> \o Groups(s, n) \in Seq(UpTo(n)) /\ Len(<<p>> \o Groups(s, n)) = c + 1
      /\ (<<p>> \o Groups(s, n))[1] = p
      /\ \A k \in 1 .. c : (<<p>> \o Groups(s, n))[k + 1] = Groups(s, n)[k]
  <2>1. <<p>> \in Seq(UpTo(n)) /\ Len(<<p>>) = 1 /\ <<p>>[1] = p
    BY <1>6
  <2>2. QED
    BY <1>4, <2>1, ConcatProperties
<1>8. Groups(t, n)[1] = p
  <2>1. 1 \in 1 .. (Len(t) + n - 1) \div n /\ n * (1 - 1) = 0
    BY <1>2, <1>3
  <2>2. /\ Group(t, n, 1) \in String /\ Len(Group(t, n, 1)) = Lesser(n, Len(t) - 0)
        /\ \A j \in 1 .. Lesser(n, Len(t) - 0) : Group(t, n, 1)[j] = t[0 + j]
    BY <1>2, <2>1, GroupFrom
  <2>3. Lesser(n, Len(t) - 0) = n
    BY <1>2 DEF Lesser
  <2>4. \A j \in 1 .. n : 0 + j = j
    OBVIOUS
  <2>5. Group(t, n, 1) = p
    BY <1>2, <2>2, <2>3, <2>4, SameString
  <2>6. 1 \in 1 .. c + 1
    OBVIOUS
  <2>7. QED
    BY <1>5, <2>5, <2>6
<1>9. ASSUME NEW k \in 1 .. c PROVE Groups(t, n)[k + 1] = Groups(s, n)[k]
  <2>1. k + 1 \in 1 .. (Len(t) + n - 1) \div n /\ k \in 1 .. (Len(s) + n - 1) \div n
        /\ k + 1 \in 1 .. c + 1 /\ (k + 1) - 1 = k
    BY <1>1, <1>2, <1>3
  <2>2. PICK a \in Nat : a = n * (k - 1) /\ n * k = a + n /\ a < l
    <3>1. n * (k - 1) < l /\ n * (k - 1) \in Nat /\ n * k = n * (k - 1) + n
      BY <1>3, GroupCount
    <3>2. QED
      BY <3>1
  <2>3. PICK d \in Nat : d = Lesser(n, l - a) /\ d <= l - a
    BY <2>2 DEF Lesser
  <2>4. /\ Group(s, n, k) \in String /\ Len(Group(s, n, k)) = d
        /\ \A j \in 1 .. d : Group(s, n, k)[j] = s[a + j]
    <3>1. /\ Group(s, n, k) \in String /\ Len(Group(s, n, k)) = Lesser(n, Len(s) - a)
          /\ \A j \in 1 .. Lesser(n, Len(s) - a) : Group(s, n, k)[j] = s[a + j]
      BY <2>1, <2>2, GroupFrom, ZenonT(40)
    <3>2. QED
      BY <1>1, <2>3, <3>1
  <2>5. /\ Group(t, n, k + 1) \in String /\ Len(Group(t, n, k + 1)) = d
        /\ \A j \in 1 .. d : Group(t, n, k + 1)[j] = t[(a + n) + j]
    <3>1. Lesser(n, Len(t) - (a + n)) = d
      <4>1. (l + n) - (a + n) = l - a
        BY <2>2
      <4>2. QED
        BY <1>2, <2>3, <4>1
    <3>2. a + n \in Nat /\ a + n = n * ((k + 1) - 1)
      BY <2>1, <2>2
    <3>3. PICK e \in Nat : e = a + n
      BY <3>2
    <3>4. PICK i \in Nat : i = k + 1 /\ i \in 1 .. (Len(t) + n - 1) \div n
      BY <2>1
    <3>5. /\ Group(t, n, i) \in String /\ Len(Group(t, n, i)) = Lesser(n, Len(t) - e)
          /\ \A j \in 1 .. Lesser(n, Len(t) - e) : Group(t, n, i)[j] = t[e + j]
      <4>0. i \in 1 .. (Len(t) + n - 1) \div n
        BY <3>4
      <4>1. e = n * (i - 1)
        BY <3>2, <3>3, <3>4
      <4>2. t \in String
        BY <1>2
      <4> HIDE <2>1, <2>2, <3>1, <3>2, <3>3, <3>4
      <4>3. Group(t, n, i) \in UpTo(n) /\ Len(Group(t, n, i)) = Lesser(n, Len(t) - n * (i - 1))
        BY <4>0, <4>2, GroupIs
      <4>4. \A j \in 1 .. Len(Group(t, n, i)) : Group(t, n, i)[j] = t[n * (i - 1) + j]
        BY <4>0, <4>2, GroupIs
      <4>5. QED
        BY <4>1, <4>3, <4>4 DEF UpTo
    <3>6. QED
      BY <3>1, <3>3, <3>4, <3>5
  <2>6. ASSUME NEW j \in 1 .. d PROVE t[(a + n) + j] = s[a + j]
    <3>1. a + j \in 1 .. l /\ (a + n) + j = n + (a + j)
      BY <2>2, <2>3
    <3>2. QED
      BY <1>2, <3>1
  <2>7. Group(t, n, k + 1) = Group(s, n, k)
    <3>1. \A j \in 1 .. d : Group(t, n, k + 1)[j] = Group(s, n, k)[j]
      BY <2>4, <2>5, <2>6
    <3>2. QED
      BY <2>4, <2>5, <3>1, SameString
  <2>8. QED
    BY <1>4, <1>5, <2>1, <2>7
<1>10. Groups(t, n) = <<p>> \o Groups(s, n)
  <2>1. ASSUME NEW i \in 1 .. c + 1 PROVE Groups(t, n)[i] = (<<p>> \o Groups(s, n))[i]
    <3>1. CASE i = 1
      BY <1>7, <1>8, <3>1
    <3>2. CASE i # 1
      <4>1. PICK k \in 1 .. c : i = k + 1
        <5>1. i - 1 \in 1 .. c /\ i = (i - 1) + 1
          BY <3>2
        <5>2. QED
          BY <5>1
      <4>2. QED
        BY <1>7, <1>9, <4>1
    <3>3. QED
      BY <3>1, <3>2
  <2>2. QED
    BY <1>5, <1>7, <2>1, SeqEqual
<1>11. QED
  BY <1>10 DEF t

(* What holds for short strings, and for a longer one when it holds for     *)
(* what is behind its first n characters,                                   *)
Chunks(n, Holds) ==
  /\ \A s \in String : Len(s) < n => s \in Holds
  /\ \A p, s \in String : Len(p) = n /\ s \in Holds => p \o s \in Holds
(* holds for all of them.                                                   *)
LEMMA ChunkByChunk ==
  ASSUME NEW n \in Nat \ {0}, NEW Holds, Chunks(n, Holds)
  PROVE  \A s \in String : s \in Holds
<1> DEFINE m == [s \in String |-> Len(s)]
           next == [s \in String |-> Cut(s, n, Len(s))]
           Wrong == String \ Holds
<1>1. ASSUME NEW s \in Wrong PROVE next[s] \in Wrong /\ m[next[s]] < m[s]
  <2>1. s \in String /\ s \notin Holds /\ Len(s) \in Nat
    BY StringFacts
  <2>2. ~(Len(s) < n)
    BY <2>1 DEF Chunks
  <2>3. n \in 0 .. Len(s) /\ 0 \in 0 .. n /\ Len(s) \in 0 .. Len(s)
    BY <2>1, <2>2
  <2>4. Cut(s, 0, n) \in String /\ Len(Cut(s, 0, n)) = n - 0
        /\ Cut(s, n, Len(s)) \in String /\ Len(Cut(s, n, Len(s))) = Len(s) - n
    BY <2>1, <2>3, CutIs
  <2>5. Cut(s, 0, n) \o Cut(s, n, Len(s)) = s
    BY <2>1, <2>3, CutsJoin, CutEnds
  <2>6. Cut(s, n, Len(s)) \notin Holds
    <3>1. n - 0 = n
      OBVIOUS
    <3>2. QED
      BY <2>1, <2>4, <2>5, <3>1 DEF Chunks
  <2>7. QED
    BY <2>1, <2>2, <2>4, <2>6
<1>2. m \in [String -> Nat]
  BY StringFacts
<1> HIDE DEF m, next
<1>3. GoesOn(String, m, next, Wrong)
  BY <1>1, <1>2 DEF GoesOn
<1>4. Wrong = {}
  <2> HIDE DEF Wrong
  <2>1. QED
    BY <1>3, NoLeastWrong
<1>5. QED
  BY <1>4

(* The digits of Base64 are 64 different characters, none of them the Pad.  *)
LEMMA DigitIs64 ==
  ASSUME NEW v \in 0 .. 63
  PROVE  /\ base64_chars[v] = Digit64(v) /\ Digit64(v) \in 0 .. 255 /\ Digit64(v) # Pad
         /\ \A w \in 0 .. 63 : Digit64(w) = Digit64(v) => w = v
<1>1. base64_chars[v] = Digit64(v)
  BY DEF base64_chars
<1>2. ASSUME NEW w \in 0 .. 63
      PROVE  /\ w < 26 => Digit64(w) = 65 + w
             /\ w \in 26 .. 51 => Digit64(w) = 71 + w
             /\ w \in 52 .. 61 => Digit64(w) = w - 4
             /\ w = 62 => Digit64(w) = 43
             /\ w = 63 => Digit64(w) = 47
             /\ w < 26 \/ w \in 26 .. 51 \/ w \in 52 .. 61 \/ w = 62 \/ w = 63
  BY DEF Digit64
<1>3. Digit64(v) \in 0 .. 255 /\ Digit64(v) # Pad
  BY <1>2 DEF Pad
<1>4. ASSUME NEW w \in 0 .. 63, Digit64(w) = Digit64(v) PROVE w = v
  BY <1>2, <1>4
<1>5. QED
  BY <1>1, <1>3, <1>4

(* A digit has one value, and a value one digit.                            *)
LEMMA ValueIs64 ==
  /\ \A v \in 0 .. 63 : is_base64(base64_chars[v]) /\ Value64[base64_chars[v]] = v
                        /\ base64_chars[v] \in 0 .. 255
  /\ \A c : is_base64(c) => c \in 0 .. 255 /\ c # Pad /\ Value64[c] \in 0 .. 63
<1>1. ASSUME NEW v \in 0 .. 63
      PROVE  is_base64(base64_chars[v]) /\ Value64[base64_chars[v]] = v
  <2> DEFINE c == base64_chars[v]
  <2>1. c \in Range(base64_chars)
    BY DEF base64_chars, Range
  <2>2. is_base64(c)
    BY <2>1 DEF is_base64, Value64
  <2>3. Value64[c] = CHOOSE w \in 0 .. 63 : base64_chars[w] = c
    BY <2>1 DEF Value64
  <2>4. v \in 0 .. 63 /\ base64_chars[v] = c
    OBVIOUS
  <2> HIDE DEF c
  <2>5. Value64[c] \in 0 .. 63 /\ base64_chars[Value64[c]] = c
    BY <2>3, <2>4
  <2>6. Value64[c] = v
    <3>1. PICK w \in 0 .. 63 : w = Value64[c]
      BY <2>5
    <3>2. Digit64(w) = Digit64(v)
      BY <2>4, <2>5, <3>1, DigitIs64
    <3>3. QED
      BY <3>1, <3>2, DigitIs64
  <2>7. QED
    BY <2>2, <2>6 DEF c
<1>2. ASSUME NEW c, is_base64(c) PROVE c \in 0 .. 255 /\ c # Pad /\ Value64[c] \in 0 .. 63
  <2>1. c \in Range(base64_chars)
    BY <1>2 DEF is_base64, Value64
  <2>2. PICK v \in 0 .. 63 : c = base64_chars[v]
    BY <2>1 DEF base64_chars, Range
  <2>3. QED
    BY <1>1, <2>2, DigitIs64, ZenonT(40)
<1>3. QED
  BY <1>1, <1>2, DigitIs64, ZenonT(40)

(* The powers of two that are shifted by.                                   *)
Shifts(x) ==
  /\ Shr(x, 0) = x /\ Shr(x, 2) = x \div 4 /\ Shr(x, 4) = x \div 16
  /\ Shr(x, 6) = x \div 64 /\ Shr(x, 8) = x \div 256
  /\ Shr(x, 12) = x \div 4096 /\ Shr(x, 16) = x \div 65536 /\ Shr(x, 18) = x \div 262144
  /\ Low(x, 1) = x % 2 /\ Low(x, 2) = x % 4 /\ Low(x, 4) = x % 16 /\ Low(x, 6) = x % 64
  /\ Low(x, 8) = x % 256
(* They are divisions and remainders.                                       *)
LEMMA ShiftsAre ==
  ASSUME NEW x \in Int
  PROVE  Shifts(x)
<1>1. 2 ^ 0 = 1 /\ 2 ^ 1 = 2 /\ 2 ^ 2 = 4 /\ 2 ^ 4 = 16 /\ 2 ^ 6 = 64 /\ 2 ^ 8 = 256
      /\ 2 ^ 12 = 4096 /\ 2 ^ 16 = 65536 /\ 2 ^ 18 = 262144
  OBVIOUS
<1>2. x \div 1 = x
  OBVIOUS
<1>3. QED
  BY <1>1, <1>2 DEF Shr, Low, Shifts

(* A quotient and its remainder.                                            *)
LEMMA HighLow ==
  ASSUME NEW x \in 0 .. 255
  PROVE  /\ \E h \in 0 .. 63, l \in 0 .. 3 : x = 4 * h + l /\ x \div 4 = h /\ x % 4 = l
         /\ \E h \in 0 .. 15, l \in 0 .. 15 : x = 16 * h + l /\ x \div 16 = h /\ x % 16 = l
         /\ \E h \in 0 .. 3, l \in 0 .. 63 : x = 64 * h + l /\ x \div 64 = h /\ x % 64 = l
<1>1. x \div 4 \in 0 .. 63 /\ x % 4 \in 0 .. 3 /\ x = 4 * (x \div 4) + (x % 4)
  OBVIOUS
<1>2. x \div 16 \in 0 .. 15 /\ x % 16 \in 0 .. 15 /\ x = 16 * (x \div 16) + (x % 16)
  OBVIOUS
<1>3. x \div 64 \in 0 .. 3 /\ x % 64 \in 0 .. 63 /\ x = 64 * (x \div 64) + (x % 64)
  OBVIOUS
<1>4. \E h \in 0 .. 63, l \in 0 .. 3 : x = 4 * h + l /\ x \div 4 = h /\ x % 4 = l
  BY <1>1
<1>5. \E h \in 0 .. 15, l \in 0 .. 15 : x = 16 * h + l /\ x \div 16 = h /\ x % 16 = l
  BY <1>2
<1>6. \E h \in 0 .. 3, l \in 0 .. 63 : x = 64 * h + l /\ x \div 64 = h /\ x % 64 = l
  BY <1>3
<1>7. QED
  BY <1>4, <1>5, <1>6

(* The same for divisors of any size.                                       *)
LEMMA QuotientOf ==
  ASSUME NEW m \in Nat, NEW q \in Int, NEW rest \in Nat, rest < m, NEW n \in Int, n = m * q + rest
  PROVE  n % m = rest /\ n \div m = q
<1>1. m \in Nat \ {0} /\ rest \in 0 .. m - 1
  OBVIOUS
<1>2. QED
  BY <1>1, QuotientIs

(* Three bytes in four digits.                                              *)
First6(x) == x \div 4
Second6(x, y) == (x % 4) * 16 + y \div 16
Third6(y, z) == (y % 16) * 4 + z \div 64
Fourth6(z) == z % 64
OfThree(x, y, z) == x * 65536 + y * 256 + z
Splits(x, y, z, n) ==
  /\ First6(x) \in 0 .. 63 /\ Second6(x, y) \in 0 .. 63
  /\ Third6(y, z) \in 0 .. 63 /\ Fourth6(z) \in 0 .. 63
  /\ (n \div 262144) % 64 = First6(x) /\ (n \div 4096) % 64 = Second6(x, y)
  /\ (n \div 64) % 64 = Third6(y, z) /\ n % 64 = Fourth6(z)
(* They are the digits of one number.                                       *)
LEMMA ThreeInFour ==
  ASSUME NEW x \in 0 .. 255, NEW y \in 0 .. 255, NEW z \in 0 .. 255
  PROVE  Splits(x, y, z, OfThree(x, y, z))
<1>0. PICK n \in Int : n = OfThree(x, y, z) /\ n = x * 65536 + y * 256 + z
  BY DEF OfThree
<1>1. PICK xh \in 0 .. 63, xl \in 0 .. 3 : x = 4 * xh + xl /\ x \div 4 = xh /\ x % 4 = xl
  BY HighLow
<1>2. PICK yh \in 0 .. 15, yl \in 0 .. 15 : y = 16 * yh + yl /\ y \div 16 = yh /\ y % 16 = yl
  BY HighLow
<1>3. PICK zh \in 0 .. 3, zl \in 0 .. 63 : z = 64 * zh + zl /\ z \div 64 = zh /\ z % 64 = zl
  BY HighLow
<1>4. First6(x) = xh /\ Second6(x, y) = 16 * xl + yh /\ Third6(y, z) = 4 * yl + zh /\ Fourth6(z) = zl
  <2>1. First6(x) = xh
    BY <1>1 DEF First6
  <2>2. Second6(x, y) = xl * 16 + yh
    BY <1>1, <1>2 DEF Second6
  <2>3. Third6(y, z) = yl * 4 + zh
    BY <1>2, <1>3 DEF Third6
  <2>4. Fourth6(z) = zl
    BY <1>3 DEF Fourth6
  <2>5. xl * 16 + yh = 16 * xl + yh /\ yl * 4 + zh = 4 * yl + zh
    OBVIOUS
  <2>6. QED
    BY <2>1, <2>2, <2>3, <2>4, <2>5
<1>5. PICK s \in 0 .. 63, t \in 0 .. 63 : s = 16 * xl + yh /\ t = 4 * yl + zh
  <2>1. 16 * xl + yh \in 0 .. 63 /\ 4 * yl + zh \in 0 .. 63
    OBVIOUS
  <2>2. QED
    BY <2>1
<1>6. n = 64 * (64 * (64 * xh + s) + t) + zl
  <2>1. n = (4 * xh + xl) * 65536 + (16 * yh + yl) * 256 + (64 * zh + zl)
    BY <1>0, <1>1, <1>2, <1>3
  <2>2. QED
    BY <1>0, <1>5, <2>1
<1>7. n % 64 = zl /\ n \div 64 = 64 * (64 * xh + s) + t
  BY <1>6, QuotientIs
<1>8. (n \div 64) % 64 = t
  <2>1. (64 * (64 * xh + s) + t) % 64 = t
    BY QuotientIs
  <2>2. QED
    BY <1>7, <2>1
<1>9. n \div 4096 = 64 * xh + s /\ n \div 262144 = xh
  <2>1. PICK r \in Nat, q \in Nat, h \in Nat :
          r = 64 * t + zl /\ q = 4096 * s + r /\ h = 64 * xh + s
    OBVIOUS
  <2>2. r < 4096 /\ q < 262144
    BY <2>1
  <2>3. n = 4096 * h + r /\ n = 262144 * xh + q
    BY <1>6, <2>1
  <2>4. n \div 4096 = h
    BY <2>2, <2>3, QuotientOf
  <2>5. n \div 262144 = xh
    BY <2>2, <2>3, QuotientOf
  <2>6. QED
    BY <2>1, <2>4, <2>5
<1>10. (64 * xh + s) % 64 = s /\ xh % 64 = xh
  BY QuotientIs
<1>11. Splits(x, y, z, n)
  BY <1>4, <1>5, <1>7, <1>8, <1>9, <1>10 DEF Splits
<1>12. QED
  BY <1>0, <1>11

(* Four digits are three bytes.                                             *)
First8(a, b) == ((a * 4) % 256) + ((b % 64) \div 16)
Second8(b, c) == ((b % 16) * 16) + ((c % 64) \div 4)
Third8(c, d) == ((c % 4) * 64 + d) % 256
OfFour(a, b, c, d) == ((a * 64 + b) * 64 + c) * 64 + d
Merges(a, b, c, d, n) ==
  /\ First8(a, b) \in 0 .. 255 /\ Second8(b, c) \in 0 .. 255 /\ Third8(c, d) \in 0 .. 255
  /\ (n \div 65536) % 256 = First8(a, b) /\ (n \div 256) % 256 = Second8(b, c)
  /\ n % 256 = Third8(c, d)
(* They are the bytes of one number.                                        *)
LEMMA FourInThree ==
  ASSUME NEW a \in 0 .. 63, NEW b \in 0 .. 63, NEW c \in 0 .. 63, NEW d \in 0 .. 63
  PROVE  Merges(a, b, c, d, OfFour(a, b, c, d))
<1>0. PICK n \in Int : n = OfFour(a, b, c, d) /\ n = ((a * 64 + b) * 64 + c) * 64 + d
  BY DEF OfFour
<1>1. PICK bh \in 0 .. 15, bl \in 0 .. 15 : b = 16 * bh + bl /\ b \div 16 = bh /\ b % 16 = bl
  BY HighLow
<1>2. PICK ch \in 0 .. 63, cl \in 0 .. 3 : c = 4 * ch + cl /\ c \div 4 = ch /\ c % 4 = cl
  BY HighLow
<1>3. bh \in 0 .. 3 /\ ch \in 0 .. 15
  BY <1>1, <1>2
<1>4. b % 64 = b /\ c % 64 = c /\ (a * 4) % 256 = 4 * a /\ (cl * 64 + d) % 256 = 64 * cl + d
  OBVIOUS
<1>5. PICK x \in 0 .. 255, y \in 0 .. 255, z \in 0 .. 255 :
        x = 4 * a + bh /\ y = 16 * bl + ch /\ z = 64 * cl + d
  <2>1. 4 * a + bh \in 0 .. 255 /\ 16 * bl + ch \in 0 .. 255 /\ 64 * cl + d \in 0 .. 255
    BY <1>3
  <2>2. QED
    BY <2>1, Zenon
<1>6. /\ ((a * 4) % 256) + ((b % 64) \div 16) = x
      /\ ((b % 16) * 16) + ((c % 64) \div 4) = y
      /\ (((c % 4) * 64 + d) % 256) = z
  <2>1. ((a * 4) % 256) + ((b % 64) \div 16) = x
    BY <1>1, <1>4, <1>5
  <2>2. bl * 16 + ch = y
    BY <1>5
  <2>3. ((b % 16) * 16) + ((c % 64) \div 4) = y
    BY <1>1, <1>2, <1>4, <2>2
  <2>4. (((c % 4) * 64 + d) % 256) = z
    BY <1>2, <1>4, <1>5
  <2>5. QED
    BY <2>1, <2>3, <2>4
<1>7. n = 256 * (256 * x + y) + z
  BY <1>0, <1>1, <1>2, <1>5
<1>8. n % 256 = z /\ n \div 256 = 256 * x + y
  BY <1>7, QuotientIs
<1>9. (256 * x + y) % 256 = y
  BY QuotientIs
<1>10. n \div 65536 = x /\ x % 256 = x
  <2>1. PICK r \in Nat : r = 256 * y + z
    OBVIOUS
  <2>2. n = 65536 * x + r /\ r < 65536
    BY <1>7, <2>1
  <2>3. n \div 65536 = x
    BY <2>2, QuotientOf
  <2>4. x % 256 = x
    OBVIOUS
  <2>5. QED
    BY <2>3, <2>4
<1>11. x \in 0 .. 255 /\ y \in 0 .. 255 /\ z \in 0 .. 255
  OBVIOUS
<1>12. First8(a, b) = x /\ Second8(b, c) = y /\ Third8(c, d) = z
  BY <1>6 DEF First8, Second8, Third8
<1>13. Merges(a, b, c, d, n)
  BY <1>8, <1>9, <1>10, <1>11, <1>12 DEF Merges
<1>14. QED
  BY <1>0, <1>13

(* And the same three bytes.                                                *)
LEMMA ThereAndBack ==
  ASSUME NEW x \in 0 .. 255, NEW y \in 0 .. 255, NEW z \in 0 .. 255
  PROVE  /\ First8(First6(x), Second6(x, y)) = x
         /\ Second8(Second6(x, y), Third6(y, z)) = y
         /\ Third8(Third6(y, z), Fourth6(z)) = z
<1>1. PICK xh \in 0 .. 63, xl \in 0 .. 3 : x = 4 * xh + xl /\ x \div 4 = xh /\ x % 4 = xl
  BY HighLow
<1>2. PICK yh \in 0 .. 15, yl \in 0 .. 15 : y = 16 * yh + yl /\ y \div 16 = yh /\ y % 16 = yl
  BY HighLow
<1>3. PICK zh \in 0 .. 3, zl \in 0 .. 63 : z = 64 * zh + zl /\ z \div 64 = zh /\ z % 64 = zl
  BY HighLow
<1>4. First6(x) = xh /\ Second6(x, y) = 16 * xl + yh /\ Third6(y, z) = 4 * yl + zh /\ Fourth6(z) = zl
  <2>1. First6(x) = xh
    BY <1>1 DEF First6
  <2>2. Second6(x, y) = xl * 16 + yh
    BY <1>1, <1>2 DEF Second6
  <2>3. Third6(y, z) = yl * 4 + zh
    BY <1>2, <1>3 DEF Third6
  <2>4. Fourth6(z) = zl
    BY <1>3 DEF Fourth6
  <2>5. xl * 16 + yh = 16 * xl + yh /\ yl * 4 + zh = 4 * yl + zh
    OBVIOUS
  <2>6. QED
    BY <2>1, <2>2, <2>3, <2>4, <2>5
<1>5. PICK s \in 0 .. 63, t \in 0 .. 63 : s = 16 * xl + yh /\ t = 4 * yl + zh
  <2>1. 16 * xl + yh \in 0 .. 63 /\ 4 * yl + zh \in 0 .. 63
    OBVIOUS
  <2>2. QED
    BY <2>1
<1>6. s % 64 = s /\ s % 16 = yh /\ s \div 16 = xl /\ t % 64 = t /\ t % 4 = zh /\ t \div 4 = yl
  BY <1>5
<1>7. ((xh * 4) % 256) + ((s % 64) \div 16) = x
  <2>1. (xh * 4) % 256 = 4 * xh
    OBVIOUS
  <2>2. QED
    BY <1>1, <1>6, <2>1
<1>8. (s % 16) * 16 + ((t % 64) \div 4) = y
  BY <1>2, <1>6
<1>9. ((t % 4) * 64 + zl) % 256 = z
  BY <1>3, <1>6
<1>10. First8(xh, s) = x /\ Second8(s, t) = y /\ Third8(t, zl) = z
  BY <1>7, <1>8, <1>9 DEF First8, Second8, Third8
<1>11. QED
  BY <1>4, <1>5, <1>10

(* A string is a sequence of numbers.                                       *)
LEMMA StringIsNumbers ==
  ASSUME NEW s \in String
  PROVE  s \in Seq(Int)
<1> DEFINE T == 0 .. 255
<1>1. T \subseteq Int
  OBVIOUS
<1>2. s \in Seq(T)
  BY DEF String
<1> HIDE DEF T
<1>3. QED
  BY <1>1, <1>2, SeqMonotonic

(* The number of up to four digits.                                         *)
LEMMA PackedShort ==
  ASSUME NEW base \in Nat, NEW s \in Seq(Int)
  PROVE  /\ Len(s) = 1 => Packed(s, base) = s[1]
         /\ Len(s) = 2 => Packed(s, base) = s[1] * base + s[2]
         /\ Len(s) = 3 => Packed(s, base) = (s[1] * base + s[2]) * base + s[3]
         /\ Len(s) = 4 => Packed(s, base) = ((s[1] * base + s[2]) * base + s[3]) * base + s[4]
<1>1. PICK f : PackedBy(f, s, base)
  BY PackedIs
<1>2. /\ f[0] = 0 /\ Packed(s, base) = f[Len(s)]
      /\ \A k \in 1 .. Len(s) : f[k] = f[k - 1] * base + s[k]
  BY <1>1 DEF PackedBy
<1>3. \A k \in 1 .. Len(s) : s[k] \in Int
  BY ElementOfSeq
<1>4. ASSUME Len(s) >= 1 PROVE f[1] = s[1]
  <2>1. 1 \in 1 .. Len(s) /\ 1 - 1 = 0
    BY <1>4, LenProperties
  <2>2. f[1] = 0 * base + s[1]
    BY <1>2, <2>1
  <2>3. s[1] \in Int /\ 0 * base = 0
    BY <1>3, <2>1
  <2>4. QED
    BY <2>2, <2>3
<1>5. ASSUME Len(s) >= 2 PROVE f[2] = f[1] * base + s[2]
  <2>1. 2 \in 1 .. Len(s) /\ 2 - 1 = 1
    BY <1>5, LenProperties
  <2>2. QED
    BY <1>2, <2>1
<1>6. ASSUME Len(s) >= 3 PROVE f[3] = f[2] * base + s[3]
  <2>1. 3 \in 1 .. Len(s) /\ 3 - 1 = 2
    BY <1>6, LenProperties
  <2>2. QED
    BY <1>2, <2>1
<1>7. ASSUME Len(s) >= 4 PROVE f[4] = f[3] * base + s[4]
  <2>1. 4 \in 1 .. Len(s) /\ 4 - 1 = 3
    BY <1>7, LenProperties
  <2>2. QED
    BY <1>2, <2>1
<1>8. Len(s) = 1 => Packed(s, base) = s[1]
  BY <1>2, <1>4
<1>9. Len(s) = 2 => Packed(s, base) = s[1] * base + s[2]
  <2>1. SUFFICES ASSUME Len(s) = 2 PROVE Packed(s, base) = s[1] * base + s[2]
    OBVIOUS
  <2>2. f[1] = s[1] /\ f[2] = f[1] * base + s[2]
    BY <2>1, <1>4, <1>5
  <2>3. QED
    BY <1>2, <2>1, <2>2
<1>10. Len(s) = 3 => Packed(s, base) = (s[1] * base + s[2]) * base + s[3]
  <2>1. SUFFICES ASSUME Len(s) = 3
                 PROVE  Packed(s, base) = (s[1] * base + s[2]) * base + s[3]
    OBVIOUS
  <2>2. f[1] = s[1] /\ f[2] = f[1] * base + s[2] /\ f[3] = f[2] * base + s[3]
    BY <2>1, <1>4, <1>5, <1>6
  <2>3. QED
    BY <1>2, <2>1, <2>2
<1>11. Len(s) = 4 => Packed(s, base) = ((s[1] * base + s[2]) * base + s[3]) * base + s[4]
  <2>1. SUFFICES ASSUME Len(s) = 4
                 PROVE  Packed(s, base) = ((s[1] * base + s[2]) * base + s[3]) * base + s[4]
    OBVIOUS
  <2>2. /\ f[1] = s[1] /\ f[2] = f[1] * base + s[2] /\ f[3] = f[2] * base + s[3]
        /\ f[4] = f[3] * base + s[4]
    BY <2>1, <1>4, <1>5, <1>6, <1>7
  <2>3. QED
    BY <1>2, <2>1, <2>2
<1>12. QED
  BY <1>8, <1>9, <1>10, <1>11

(* The weight of a byte in a group of three.                                *)
PowerOf256(k) == 256 ^ k

(* They are one byte, two bytes and three bytes up.                         *)
LEMMA PowersOf256 == PowerOf256(0) = 1 /\ PowerOf256(1) = 256 /\ PowerOf256(2) = 65536
<1>1. 256 ^ 0 = 1 /\ 256 ^ 1 = 256 /\ 256 ^ 2 = 65536
  OBVIOUS
<1>2. QED
  BY <1>1, SMT DEF PowerOf256

(* The bytes of a group, with zeros for those that are not there, and the   *)
(* values of its four digits.                                               *)
Filled(g, j) == IF j <= Len(g) THEN g[j] ELSE 0
Sixes(g) == <<First6(Filled(g, 1)), Second6(Filled(g, 1), Filled(g, 2)),
              Third6(Filled(g, 2), Filled(g, 3)), Fourth6(Filled(g, 3))>>
Encoded(g) == [j \in 1 .. 4 |-> IF j <= Len(g) + 1 THEN base64_chars[Sixes(g)[j]] ELSE Pad]

(* They are what both encoders make of it.                                  *)
LEMMA FilledIs ==
  ASSUME NEW g \in UpTo(3)
  PROVE  \A j \in 1 .. 3 : Filled(g, j) \in 0 .. 255
<1>1. g \in String /\ Len(g) \in 1 .. 3
  BY DEF UpTo
<1>2. \A j \in 1 .. Len(g) : g[j] \in 0 .. 255
  BY <1>1, StringFacts
<1>3. ASSUME NEW j \in 1 .. 3 PROVE Filled(g, j) \in 0 .. 255
  <2>1. CASE j <= Len(g)
    <3>1. j \in 1 .. Len(g)
      BY <1>1, <2>1
    <3>2. QED
      BY <1>2, <2>1, <3>1 DEF Filled
  <2>2. CASE ~(j <= Len(g))
    BY <2>2 DEF Filled
  <2>3. QED
    BY <2>1, <2>2
<1>4. QED
  BY <1>3

(* Both encoders make these digits of a group.                              *)
LEMMA EncodedIs ==
  ASSUME NEW g \in UpTo(3)
  PROVE  /\ EncodeGroup(g) = Encoded(g) /\ encodeGroup(g) = Encoded(g)
         /\ \A j \in 1 .. 4 : Sixes(g)[j] \in 0 .. 63
<1>1. g \in String /\ Len(g) \in 1 .. 3
  BY DEF UpTo
<1>2. PICK x \in 0 .. 255, y \in 0 .. 255, z \in 0 .. 255 :
        x = Filled(g, 1) /\ y = Filled(g, 2) /\ z = Filled(g, 3)
  <2>1. 1 \in 1 .. 3 /\ 2 \in 1 .. 3 /\ 3 \in 1 .. 3
    OBVIOUS
  <2>2. QED
    BY <2>1, FilledIs, Zenon
<1>3. PICK n \in Int : n = OfThree(x, y, z)
  BY DEF OfThree
<1>4. /\ First6(x) \in 0 .. 63 /\ Second6(x, y) \in 0 .. 63
      /\ Third6(y, z) \in 0 .. 63 /\ Fourth6(z) \in 0 .. 63
      /\ (n \div 262144) % 64 = First6(x) /\ (n \div 4096) % 64 = Second6(x, y)
      /\ (n \div 64) % 64 = Third6(y, z) /\ n % 64 = Fourth6(z)
  <2>1. Splits(x, y, z, OfThree(x, y, z))
    BY ThreeInFour, Zenon
  <2>2. Splits(x, y, z, n)
    BY <1>3, <2>1
  <2>3. QED
    BY <2>2 DEF Splits
<1> DEFINE S == Sixes(g)
<1>5. S[1] = First6(x) /\ S[2] = Second6(x, y) /\ S[3] = Third6(y, z) /\ S[4] = Fourth6(z)
  BY <1>2 DEF Sixes
<1>6. \A j \in 1 .. 4 : S[j] \in 0 .. 63
  <2>1. \A j \in 1 .. 4 : j = 1 \/ j = 2 \/ j = 3 \/ j = 4
    OBVIOUS
  <2> HIDE DEF S
  <2>2. QED
    BY <1>4, <1>5, <2>1
<1>7. EncodeGroup(g) = Encoded(g)
  <2> DEFINE a == [j \in 1 .. 3 |-> IF j <= Len(g) THEN g[j] ELSE 0]
  <2>1. a[1] = x /\ a[2] = y /\ a[3] = z
    BY <1>2 DEF Filled
  <2> HIDE DEF a
  <2>2. FourOf(a) = <<Shr(x, 2), Low(x, 2) * 16 + Shr(y, 4), Low(y, 4) * 4 + Shr(z, 6), Low(z, 6)>>
    BY <2>1 DEF FourOf
  <2>3. /\ Shr(x, 2) = x \div 4 /\ Low(x, 2) = x % 4 /\ Shr(y, 4) = y \div 16
        /\ Low(y, 4) = y % 16 /\ Shr(z, 6) = z \div 64 /\ Low(z, 6) = z % 64
    <3>1. x \in Int /\ y \in Int /\ z \in Int
      OBVIOUS
    <3>2. Shifts(x) /\ Shifts(y) /\ Shifts(z)
      BY <3>1, ShiftsAre
    <3>3. QED
      BY <3>2 DEF Shifts
  <2>4. FourOf(a) = Sixes(g)
    BY <1>2, <2>2, <2>3 DEF Sixes, First6, Second6, Third6, Fourth6
  <2>5. QED
    BY <2>4 DEF EncodeGroup, Encoded, a
<1>8. encodeGroup(g) = Encoded(g)
  <2> DEFINE p == Packed(g, 256) * 256 ^ (3 - Len(g))
  <2>1. p = n
    <3>1. p = Packed(g, 256) * PowerOf256(3 - Len(g))
      BY Zenon DEF PowerOf256
    <3>2. g \in Seq(Int) /\ 256 \in Nat /\ \A i \in 1 .. Len(g) : g[i] \in Int
      BY <1>1, StringIsNumbers, StringFacts
    <3>3. CASE Len(g) = 1
      <4>1. Packed(g, 256) = g[1] /\ 3 - Len(g) = 2
        BY <3>2, <3>3, PackedShort
      <4>2. x = g[1] /\ y = 0 /\ z = 0
        BY <1>2, <3>3 DEF Filled
      <4>3. PowerOf256(3 - Len(g)) = 65536
        <5>1. PowerOf256(3 - Len(g)) = PowerOf256(2)
          BY <4>1, Zenon
        <5>2. QED
          BY <5>1, PowersOf256, SMT
      <4>4. p = (g[1]) * 65536
        BY <3>1, <4>1, <4>3
      <4> HIDE DEF p
      <4>5. p = x * 65536 + y * 256 + z
        BY <4>2, <4>4
      <4>6. QED
        BY <1>3, <4>5 DEF OfThree
    <3>4. CASE Len(g) = 2
      <4>1. Packed(g, 256) = g[1] * 256 + g[2] /\ 3 - Len(g) = 1
        BY <3>2, <3>4, PackedShort
      <4>2. x = g[1] /\ y = g[2] /\ z = 0
        BY <1>2, <3>4 DEF Filled
      <4>3. PowerOf256(3 - Len(g)) = 256
        <5>1. PowerOf256(3 - Len(g)) = PowerOf256(1)
          BY <4>1, Zenon
        <5>2. QED
          BY <5>1, PowersOf256, SMT
      <4>4. p = (g[1] * 256 + g[2]) * 256
        BY <3>1, <4>1, <4>3
      <4> HIDE DEF p
      <4>5. p = x * 65536 + y * 256 + z
        BY <4>2, <4>4
      <4>6. QED
        BY <1>3, <4>5 DEF OfThree
    <3>5. CASE Len(g) = 3
      <4>1. Packed(g, 256) = (g[1] * 256 + g[2]) * 256 + g[3] /\ 3 - Len(g) = 0
        BY <3>2, <3>5, PackedShort
      <4> HIDE DEF p
      <4>2. x = g[1] /\ y = g[2] /\ z = g[3]
        BY <1>2, <3>5 DEF Filled
      <4>3. PowerOf256(3 - Len(g)) = 1
        <5>1. PowerOf256(3 - Len(g)) = PowerOf256(0)
          BY <4>1, Zenon
        <5>2. QED
          BY <5>1, PowersOf256, SMT
      <4>4. p = ((g[1] * 256 + g[2]) * 256 + g[3]) * 1
        BY <3>1, <4>1, <4>3
      <4>5. p = x * 65536 + y * 256 + z
        BY <4>2, <4>4
      <4>6. QED
        BY <1>3, <4>5 DEF OfThree
    <3>6. QED
      BY <1>1, <3>3, <3>4, <3>5
  <2>2. encodeGroup(g)
          = [j \in 1 .. 4 |-> IF j <= Len(g) + 1 THEN base64_chars[Low(Shr(p, 24 - 6 * j), 6)] ELSE Pad]
    BY DEF encodeGroup
  <2> HIDE DEF p
  <2>3. ASSUME NEW j \in 1 .. 4 PROVE Low(Shr(p, 24 - 6 * j), 6) = S[j]
    <3>1. Shr(n, 18) = n \div 262144 /\ Shr(n, 12) = n \div 4096 /\ Shr(n, 6) = n \div 64 /\ Shr(n, 0) = n
      <4>1. Shifts(n)
        BY ShiftsAre
      <4>2. QED
        BY <4>1 DEF Shifts
    <3>2. n \div 262144 \in Int /\ n \div 4096 \in Int /\ n \div 64 \in Int
      OBVIOUS
    <3>3. ASSUME NEW v \in Int PROVE Low(v, 6) = v % 64
      <4>1. Shifts(v)
        BY ShiftsAre
      <4>2. QED
        BY <4>1 DEF Shifts
    <3>4. CASE j = 1
      <4>1. 24 - 6 * j = 18
        BY <3>4
      <4>2. QED
        BY <1>4, <1>5, <2>1, <3>1, <3>2, <3>3, <3>4, <4>1
    <3>5. CASE j = 2
      <4>1. 24 - 6 * j = 12
        BY <3>5
      <4>2. QED
        BY <1>4, <1>5, <2>1, <3>1, <3>2, <3>3, <3>5, <4>1
    <3>6. CASE j = 3
      <4>1. 24 - 6 * j = 6
        BY <3>6
      <4>2. QED
        BY <1>4, <1>5, <2>1, <3>1, <3>2, <3>3, <3>6, <4>1
    <3>7. CASE j = 4
      <4>1. 24 - 6 * j = 0
        BY <3>7
      <4>2. QED
        BY <1>4, <1>5, <2>1, <3>1, <3>2, <3>3, <3>7, <4>1
    <3>8. QED
      BY <3>4, <3>5, <3>6, <3>7
  <2>4. QED
    BY <2>2, <2>3 DEF Encoded
<1>9. QED
  BY <1>6, <1>7, <1>8, Zenon

(* What a function makes of the elements of a sequence, one by one.         *)
LEMMA EachOver ==
  ASSUME NEW D, NEW f \in [D -> String]
  PROVE  /\ \A h \in Seq(D) : Each(h, f) \in Seq(String) /\ Len(Each(h, f)) = Len(h)
                              /\ \A i \in 1 .. Len(h) : Each(h, f)[i] = f[h[i]]
         /\ \A p \in D, h \in Seq(D) : /\ <<p>> \o h \in Seq(D)
                                       /\ Each(<<p>> \o h, f) = <<f[p]>> \o Each(h, f)
<1>1. ASSUME NEW h \in Seq(D)
      PROVE  /\ Each(h, f) \in Seq(String) /\ Len(Each(h, f)) = Len(h)
             /\ \A i \in 1 .. Len(h) : Each(h, f)[i] = f[h[i]]
  <2>1. Len(h) \in Nat /\ DOMAIN h = 1 .. Len(h) /\ \A i \in 1 .. Len(h) : h[i] \in D
    BY LenProperties, ElementOfSeq
  <2>2. Each(h, f) = [i \in 1 .. Len(h) |-> f[h[i]]]
    BY <2>1 DEF Each
  <2>3. /\ Each(h, f) \in [1 .. Len(h) -> String]
        /\ \A i \in 1 .. Len(h) : Each(h, f)[i] = f[h[i]]
    BY <2>1, <2>2
  <2>4. QED
    BY <2>1, <2>3, IsSequence
<1>2. ASSUME NEW p \in D, NEW h \in Seq(D)
      PROVE  <<p>> \o h \in Seq(D) /\ Each(<<p>> \o h, f) = <<f[p]>> \o Each(h, f)
  <2> DEFINE a == Each(<<p>> \o h, f)
             e == Each(h, f)
             b == <<f[p]>> \o e
  <2>1. <<p>> \in Seq(D) /\ Len(<<p>>) = 1 /\ <<p>>[1] = p /\ Len(h) \in Nat
    BY LenProperties
  <2>2. /\ <<p>> \o h \in Seq(D) /\ Len(<<p>> \o h) = 1 + Len(h)
        /\ \A i \in 1 .. 1 + Len(h) :
             (<<p>> \o h)[i] = IF i <= 1 THEN <<p>>[i] ELSE h[i - 1]
    BY <2>1, ConcatProperties
  <2>3. /\ e \in Seq(String) /\ Len(e) = Len(h) /\ \A i \in 1 .. Len(h) : e[i] = f[h[i]]
    BY <1>1
  <2>4. /\ a \in Seq(String) /\ Len(a) = 1 + Len(h)
        /\ \A i \in 1 .. 1 + Len(h) : a[i] = f[(<<p>> \o h)[i]]
    BY <1>1, <2>2
  <2>5. f[p] \in String
    OBVIOUS
  <2>6. <<f[p]>> \in Seq(String) /\ Len(<<f[p]>>) = 1 /\ <<f[p]>>[1] = f[p]
    BY <2>5
  <2> HIDE DEF a, e
  <2>7. /\ b \in Seq(String) /\ Len(b) = 1 + Len(h)
        /\ \A i \in 1 .. 1 + Len(h) : b[i] = IF i <= 1 THEN <<f[p]>>[i] ELSE e[i - 1]
    BY <2>3, <2>6, ConcatProperties
  <2> HIDE DEF b
  <2>8. ASSUME NEW i \in 1 .. 1 + Len(h) PROVE a[i] = b[i]
    <3>1. CASE i = 1
      BY <2>1, <2>2, <2>4, <2>6, <2>7, <3>1
    <3>2. CASE i # 1
      <4>1. i - 1 \in 1 .. Len(h) /\ ~(i <= 1)
        BY <2>1, <3>2
      <4>2. e[i - 1] = f[h[i - 1]]
        BY <2>3, <4>1
      <4>3. QED
        BY <2>2, <2>4, <2>7, <4>1, <4>2
    <3>3. QED
      BY <3>1, <3>2
  <2>9. a = b
    BY <2>4, <2>7, <2>8, SeqEqual
  <2>10. QED
    BY <2>2, <2>9 DEF a, b, e
<1>3. QED
  BY <1>1, <1>2

(* And what they make together, group by group.                             *)
LEMMA Blockwise ==
  ASSUME NEW D, NEW f \in [D -> String]
  PROVE  /\ Spread(<<>>, f) = <<>>
         /\ \A h \in Seq(D) : Spread(h, f) \in String
         /\ \A p \in D : <<p>> \in Seq(D) /\ Spread(<<p>>, f) = f[p]
         /\ \A p \in D, h \in Seq(D) : /\ <<p>> \o h \in Seq(D)
                                       /\ Spread(<<p>> \o h, f) = f[p] \o Spread(h, f)
<1>1. Each(<<>>, f) = <<>>
  <2>1. <<>> \in Seq(D) /\ Len(<<>>) = 0
    BY EmptySeq
  <2>2. Each(<<>>, f) \in Seq(String) /\ Len(Each(<<>>, f)) = 0
    BY <2>1, EachOver
  <2>3. QED
    BY <2>2, EmptySeq
<1>2. Spread(<<>>, f) = <<>>
  BY <1>1, FlattenFacts DEF Spread
<1>3. ASSUME NEW h \in Seq(D) PROVE Spread(h, f) \in String
  <2>1. Each(h, f) \in Seq(String)
    BY EachOver
  <2>2. QED
    BY <2>1, FlattenFacts DEF Spread
<1>4. ASSUME NEW p \in D, NEW h \in Seq(D)
      PROVE  <<p>> \o h \in Seq(D) /\ Spread(<<p>> \o h, f) = f[p] \o Spread(h, f)
  <2>1. Each(h, f) \in Seq(String) /\ f[p] \in String
    BY EachOver
  <2>2. <<f[p]>> \in Seq(String)
    BY <2>1
  <2>3. <<p>> \o h \in Seq(D) /\ Each(<<p>> \o h, f) = <<f[p]>> \o Each(h, f)
    BY EachOver
  <2>4. FlattenSeq(<<f[p]>> \o Each(h, f)) = FlattenSeq(<<f[p]>>) \o FlattenSeq(Each(h, f))
    BY <2>1, <2>2, FlattenFacts
  <2>5. FlattenSeq(<<f[p]>>) = f[p]
    BY <2>1, FlattenFacts
  <2>6. QED
    BY <2>3, <2>4, <2>5 DEF Spread
<1>5. ASSUME NEW p \in D PROVE <<p>> \in Seq(D) /\ Spread(<<p>>, f) = f[p]
  <2>1. <<>> \in Seq(D) /\ <<p>> \in Seq(D)
    BY EmptySeq
  <2>2. <<p>> \o <<>> = <<p>>
    BY <2>1, ConcatEmptySeq
  <2>3. Spread(<<p>>, f) = f[p] \o <<>>
    BY <1>2, <1>4, <2>1, <2>2
  <2>4. f[p] \in String
    OBVIOUS
  <2>5. QED
    BY <2>1, <2>3, <2>4, ShortStrings
<1>6. QED
  BY <1>2, <1>3, <1>4, <1>5

(* How far a text goes until something in it stops.                         *)
Stopped(src, Stops, d) ==
  /\ d \in 0 .. Len(src) /\ \A i \in 1 .. d : src[i] \notin Stops
  /\ d < Len(src) => src[d + 1] \in Stops

(* That is one place only.                                                  *)
LEMMA StopsOnce ==
  ASSUME NEW src \in String, NEW Stops, NEW d, NEW e,
         Stopped(src, Stops, d), Stopped(src, Stops, e)
  PROVE  d = e
<1>1. /\ Len(src) \in Nat /\ d \in 0 .. Len(src) /\ e \in 0 .. Len(src)
      /\ (\A i \in 1 .. d : src[i] \notin Stops) /\ (d < Len(src) => src[d + 1] \in Stops)
      /\ (\A i \in 1 .. e : src[i] \notin Stops) /\ (e < Len(src) => src[e + 1] \in Stops)
  BY StringFacts DEF Stopped
<1>2. ~(d < e)
  <2>1. SUFFICES ASSUME d < e PROVE FALSE
    OBVIOUS
  <2>2. d + 1 \in 1 .. e /\ d < Len(src)
    BY <1>1, <2>1
  <2>3. QED
    BY <1>1, <2>2
<1>3. ~(e < d)
  <2>1. SUFFICES ASSUME e < d PROVE FALSE
    OBVIOUS
  <2>2. e + 1 \in 1 .. d /\ e < Len(src)
    BY <1>1, <2>1
  <2>3. QED
    BY <1>1, <2>2
<1>4. QED
  BY <1>1, <1>2, <1>3

(* The places where a text with a character behind it that stops does stop. *)
StopsAt(I, src, stop, Stops) ==
  \A i : i \in I <=> i \in 1 .. Len(Append(src, stop)) /\ Append(src, stop)[i] \in Stops

(* With a character behind the text that stops, it is found by looking for  *)
(* the first one.                                                           *)
LEMMA FirstStop ==
  ASSUME NEW src \in String, NEW stop \in 0 .. 255, NEW Stops, stop \in Stops,
         NEW I, StopsAt(I, src, stop, Stops)
  PROVE  \E d \in 0 .. Len(src) : Stopped(src, Stops, d) /\ I # {} /\ Min(I) = d + 1
<1> DEFINE n == Len(src)
           t == Append(src, stop)
<1>1. n \in Nat
  BY StringFacts
<1>2. Len(t) = n + 1 /\ t[n + 1] = stop /\ \A i \in 1 .. n : t[i] = src[i]
  <2>1. stop \in 0 .. 255 /\ src \in Seq(0 .. 255)
    BY DEF String
  <2>2. QED
    BY <2>1, AppendProperties
<1>3. \A i : i \in I <=> i \in 1 .. n + 1 /\ t[i] \in Stops
  BY <1>2 DEF StopsAt
<1> HIDE DEF t
<1>4. n + 1 \in I /\ I \in SUBSET Nat
  BY <1>1, <1>2, <1>3
<1>5. Min(I) \in I /\ \A x \in I : Min(I) <= x
  BY <1>4, LeastPosition
<1>6. PICK m \in 1 .. n + 1 : m = Min(I)
  BY <1>3, <1>5
<1> HIDE DEF n
<1>7. m - 1 \in 0 .. n /\ (m - 1) + 1 = m
  BY <1>1
<1>8. ASSUME NEW i \in 1 .. m - 1 PROVE src[i] \notin Stops
  <2>1. i \in 1 .. n /\ i \in 1 .. n + 1 /\ ~(m <= i)
    BY <1>1
  <2>2. i \notin I
    BY <1>5, <1>6, <2>1
  <2>3. QED
    BY <1>2, <1>3, <2>1, <2>2
<1>9. m - 1 < n => src[m] \in Stops
  <2>1. SUFFICES ASSUME m - 1 < n PROVE src[m] \in Stops
    OBVIOUS
  <2>2. m \in 1 .. n
    BY <1>1, <2>1
  <2>3. QED
    BY <1>2, <1>3, <1>5, <1>6, <2>2
<1>10. Stopped(src, Stops, m - 1)
  BY <1>7, <1>8, <1>9 DEF Stopped, n
<1>11. QED
  BY <1>4, <1>6, <1>7, <1>10 DEF n

(* The characters that are no digits of Base64.                             *)
NoDigit == {c \in 0 .. 255 : ~is_base64(c)}
AllDigits(u) == \A i \in 1 .. Len(u) : is_base64(u[i])

(* Base64Decoding() reads up to the first of them.                          *)
LEMMA DigitsAre ==
  ASSUME NEW src \in String
  PROVE  \E d \in 0 .. Len(src) : /\ Stopped(src, NoDigit, d)
                                   /\ DigitsOf(src) = Cut(src, 0, d)
<1> DEFINE t == Append(src, Pad)
           I == {i \in 1 .. Len(t) : t[i] \in NoDigit}
           J == {i \in 1 .. Len(t) : ~is_base64(t[i])}
<1>1. Pad \in 0 .. 255 /\ Pad \in NoDigit
  <2>1. Pad \in 0 .. 255
    BY DEF Pad
  <2>2. ~is_base64(Pad)
    BY ValueIs64, Zenon
  <2>3. QED
    BY <2>1, <2>2 DEF NoDigit
<1>2. t \in String
  <2>1. Pad \in 0 .. 255 /\ src \in Seq(0 .. 255)
    BY <1>1 DEF String
  <2>2. t \in Seq(0 .. 255)
    BY <2>1, AppendProperties
  <2>3. QED
    BY <2>2 DEF String
<1>3. I = J
  <2>1. \A i \in 1 .. Len(t) : t[i] \in 0 .. 255
    BY <1>2, StringFacts
  <2> HIDE DEF t
  <2>2. QED
    BY <2>1 DEF NoDigit
<1>4. PICK d \in 0 .. Len(src) : Stopped(src, NoDigit, d) /\ I # {} /\ Min(I) = d + 1
  <2>1. StopsAt(I, src, Pad, NoDigit)
    BY DEF StopsAt
  <2> HIDE DEF I, t
  <2>2. QED
    BY <1>1, <2>1, FirstStop
<1>5. SelectInSeq(t, LAMBDA c : ~is_base64(c)) = IF J # {} THEN Min(J) ELSE 0
  BY DEF SelectInSeq
<1>6. DigitsOf(src) = SubSeq(src, 1, SelectInSeq(t, LAMBDA c : ~is_base64(c)) - 1)
  BY DEF DigitsOf
<1> HIDE DEF I, J, t
<1>7. SelectInSeq(t, LAMBDA c : ~is_base64(c)) = d + 1
  BY <1>3, <1>4, <1>5
<1>8. (d + 1) - 1 = d /\ 0 + 1 = 1
  BY <1>4
<1>9. DigitsOf(src) = Cut(src, 0, d)
  BY <1>6, <1>7, <1>8 DEF Cut
<1>10. QED
  BY <1>4, <1>9

(* In front of a text it reads the digits that are there.                   *)
LEMMA DigitsFrom ==
  ASSUME NEW u \in String, AllDigits(u), NEW t \in String
  PROVE  DigitsOf(u \o t) = u \o DigitsOf(t)
<1> DEFINE n == Len(u)
<1>1. PICK d \in 0 .. Len(t) : Stopped(t, NoDigit, d) /\ DigitsOf(t) = Cut(t, 0, d)
  BY DigitsAre
<1>2. /\ n \in Nat /\ Len(t) \in Nat /\ u \o t \in String /\ Len(u \o t) = n + Len(t)
      /\ \A i \in 1 .. n : (u \o t)[i] = u[i]
      /\ \A i \in 1 .. Len(t) : (u \o t)[n + i] = t[i]
  BY StringFacts, JoinedIs
<1>3. PICK e \in 0 .. Len(u \o t) :
        Stopped(u \o t, NoDigit, e) /\ DigitsOf(u \o t) = Cut(u \o t, 0, e)
  BY <1>2, DigitsAre
<1>4. Stopped(u \o t, NoDigit, n + d)
  <2>1. n + d \in 0 .. n + Len(t)
    BY <1>2
  <2>2. ASSUME NEW i \in 1 .. n + d PROVE (u \o t)[i] \notin NoDigit
    <3>1. CASE i <= n
      <4>1. i \in 1 .. n
        BY <1>2, <3>1
      <4>2. is_base64(u[i])
        BY <4>1 DEF AllDigits
      <4>3. QED
        BY <1>2, <4>1, <4>2 DEF NoDigit
    <3>2. CASE ~(i <= n)
      <4>1. PICK j \in 1 .. d : i = n + j
        <5>1. i - n \in 1 .. d /\ i = n + (i - n)
          BY <1>2, <3>2
        <5>2. QED
          BY <5>1
      <4>2. j \in 1 .. Len(t)
        BY <1>2
      <4>3. t[j] \notin NoDigit
        BY <1>1 DEF Stopped
      <4>4. QED
        BY <1>2, <4>1, <4>2, <4>3
    <3>3. QED
      BY <3>1, <3>2
  <2>3. n + d < n + Len(t) => (u \o t)[n + d + 1] \in NoDigit
    <3>1. SUFFICES ASSUME n + d < n + Len(t) PROVE (u \o t)[n + d + 1] \in NoDigit
      OBVIOUS
    <3>2. d < Len(t) /\ d + 1 \in 1 .. Len(t) /\ n + d + 1 = n + (d + 1)
      BY <1>2, <3>1
    <3>3. t[d + 1] \in NoDigit
      BY <1>1, <3>2 DEF Stopped
    <3>4. QED
      BY <1>2, <3>2, <3>3
  <2>4. QED
    BY <1>2, <2>1, <2>2, <2>3 DEF Stopped
<1>5. e = n + d
  BY <1>2, <1>3, <1>4, StopsOnce
<1>6. Cut(u \o t, 0, n + d) = u \o Cut(t, 0, d)
  <2> DEFINE a == Cut(u \o t, 0, n + d)
             c == Cut(t, 0, d)
  <2>1. n + d \in 0 .. Len(u \o t) /\ 0 \in 0 .. n + d /\ 0 \in 0 .. d /\ n + d - 0 = n + d
        /\ d - 0 = d
    BY <1>2
  <2>2. /\ a \in String /\ Len(a) = n + d
        /\ \A k \in 1 .. n + d : a[k] = (u \o t)[0 + k]
    <3>1. PICK w \in String : w = u \o t
      BY <1>2
    <3>2. PICK m \in Nat : m = n + d
      BY <1>2
    <3>3. m \in 0 .. Len(w) /\ m - 0 = m /\ 0 \in 0 .. m
      BY <1>2, <2>1, <3>1, <3>2
    <3>4. /\ Cut(w, 0, m) \in String /\ Len(Cut(w, 0, m)) = m
          /\ \A k \in 1 .. m : Cut(w, 0, m)[k] = w[0 + k]
      BY <3>3, CutIs
    <3>5. QED
      BY <3>1, <3>2, <3>4
  <2>3. /\ c \in String /\ Len(c) = d /\ \A k \in 1 .. d : c[k] = t[0 + k]
    BY <2>1, CutIs
  <2> HIDE DEF a, c
  <2>4. /\ u \o c \in String /\ Len(u \o c) = n + d
        /\ \A i \in 1 .. n : (u \o c)[i] = u[i]
        /\ \A i \in 1 .. d : (u \o c)[n + i] = c[i]
    BY <2>3, JoinedIs
  <2>5. ASSUME NEW i \in 1 .. n + d PROVE a[i] = (u \o c)[i]
    <3>1. a[i] = (u \o t)[i]
      BY <1>2, <2>2
    <3>2. CASE i <= n
      <4>1. i \in 1 .. n
        BY <1>2, <3>2
      <4>2. QED
        BY <1>2, <2>4, <3>1, <4>1
    <3>3. CASE ~(i <= n)
      <4>1. PICK j \in 1 .. d : i = n + j
        <5>1. i - n \in 1 .. d /\ i = n + (i - n)
          BY <1>2, <3>3
        <5>2. QED
          BY <5>1
      <4>2. j \in 1 .. Len(t) /\ 0 + j = j
        BY <1>2
      <4>3. a[i] = t[j]
        BY <1>2, <3>1, <4>1, <4>2
      <4>4. (u \o c)[i] = c[j] /\ c[j] = t[j]
        BY <2>3, <2>4, <4>1, <4>2
      <4>5. QED
        BY <4>3, <4>4
    <3>4. QED
      BY <3>2, <3>3
  <2>6. a = u \o c
    BY <2>2, <2>4, <2>5, SameString
  <2>7. QED
    BY <2>6 DEF a, c
<1>7. QED
  BY <1>1, <1>3, <1>5, <1>6

(* It reads nothing where the first character is no digit.                  *)
LEMMA DigitsStop ==
  ASSUME NEW t \in String, t = <<>> \/ ~is_base64(t[1])
  PROVE  DigitsOf(t) = <<>>
<1>1. PICK d \in 0 .. Len(t) : Stopped(t, NoDigit, d) /\ DigitsOf(t) = Cut(t, 0, d)
  BY DigitsAre
<1>2. Len(t) \in Nat /\ \A i \in 1 .. Len(t) : t[i] \in 0 .. 255
  BY StringFacts
<1>3. d = 0
  <2>1. CASE t = <<>>
    <3>1. Len(t) = 0
      BY <2>1, ShortStrings, Zenon
    <3>2. QED
      BY <3>1
  <2>2. CASE ~is_base64(t[1]) /\ d # 0
    <3>1. 1 \in 1 .. d /\ 1 \in 1 .. Len(t)
      BY <1>2, <2>2
    <3>2. t[1] \in NoDigit
      BY <1>2, <2>2, <3>1 DEF NoDigit
    <3>3. QED
      BY <1>1, <3>1, <3>2 DEF Stopped
  <2>3. QED
    BY <2>1, <2>2
<1>4. Cut(t, 0, 0) = <<>>
  <2>1. 0 \in 0 .. Len(t)
    BY <1>2
  <2>2. QED
    BY <2>1, CutEnds
<1>5. QED
  BY <1>1, <1>3, <1>4

(* The bytes in the digits of a group, of which the first m are there.      *)
ValueAt(g, j, m) == IF j <= m THEN Value64[g[j]] ELSE 0
Merged(a, b, c, d) == <<First8(a, b), Second8(b, c), Third8(c, d)>>
Threes(g, m) == Merged(ValueAt(g, 1, m), ValueAt(g, 2, m), ValueAt(g, 3, m), ValueAt(g, 4, m))
Decoded(g, m) == [j \in 1 .. m - 1 |-> Threes(g, m)[j]]
DigitsUpTo(g, m) == \A j \in 1 .. m : is_base64(g[j])

(* They are bytes.                                                          *)
LEMMA ThreesAre ==
  ASSUME NEW g, NEW m \in 1 .. 4, DigitsUpTo(g, m)
  PROVE  /\ \A j \in 1 .. 4 : ValueAt(g, j, m) \in 0 .. 63
         /\ Threes(g, m) \in String /\ Len(Threes(g, m)) = 3
         /\ Decoded(g, m) \in String /\ Len(Decoded(g, m)) = m - 1
         /\ \A j \in 1 .. m - 1 : Decoded(g, m)[j] = Threes(g, m)[j]
<1>1. ASSUME NEW j \in 1 .. 4 PROVE ValueAt(g, j, m) \in 0 .. 63
  <2>1. CASE j <= m
    <3>1. is_base64(g[j])
      BY <2>1 DEF DigitsUpTo
    <3>2. QED
      BY <2>1, <3>1, ValueIs64, ZenonT(40) DEF ValueAt
  <2>2. CASE ~(j <= m)
    BY <2>2 DEF ValueAt
  <2>3. QED
    BY <2>1, <2>2, Zenon
<1>2. PICK a \in 0 .. 63, b \in 0 .. 63, c \in 0 .. 63, d \in 0 .. 63 :
        /\ a = ValueAt(g, 1, m) /\ b = ValueAt(g, 2, m)
        /\ c = ValueAt(g, 3, m) /\ d = ValueAt(g, 4, m)
  <2>1. 1 \in 1 .. 4 /\ 2 \in 1 .. 4 /\ 3 \in 1 .. 4 /\ 4 \in 1 .. 4
    OBVIOUS
  <2>2. /\ ValueAt(g, 1, m) \in 0 .. 63 /\ ValueAt(g, 2, m) \in 0 .. 63
        /\ ValueAt(g, 3, m) \in 0 .. 63 /\ ValueAt(g, 4, m) \in 0 .. 63
    BY <1>1, <2>1, Zenon
  <2>3. QED
    BY <2>2, Zenon
<1>3. PICK x \in 0 .. 255, y \in 0 .. 255, z \in 0 .. 255 : Threes(g, m) = <<x, y, z>>
  <2>1. Merges(a, b, c, d, OfFour(a, b, c, d))
    BY FourInThree, Zenon
  <2>2. First8(a, b) \in 0 .. 255 /\ Second8(b, c) \in 0 .. 255 /\ Third8(c, d) \in 0 .. 255
    BY <2>1 DEF Merges
  <2>3. QED
    BY <1>2, <2>2, Zenon DEF Threes, Merged
<1>4. Threes(g, m) \in String /\ Len(Threes(g, m)) = 3
  BY <1>3 DEF String
<1>5. PICK n \in 0 .. 3 : n = m - 1
  OBVIOUS
<1>6. ASSUME NEW j \in 1 .. n PROVE Threes(g, m)[j] \in 0 .. 255
  <2>1. j \in 1 .. Len(Threes(g, m))
    BY <1>4
  <2>2. QED
    BY <1>4, <2>1, StringFacts
<1>7. Decoded(g, m) = [j \in 1 .. n |-> Threes(g, m)[j]]
  BY <1>5 DEF Decoded
<1>8. Decoded(g, m) \in [1 .. n -> 0 .. 255] /\ \A j \in 1 .. n : Decoded(g, m)[j] = Threes(g, m)[j]
  BY <1>6, <1>7
<1>9. Decoded(g, m) \in String /\ Len(Decoded(g, m)) = n
  <2>1. n \in Nat
    OBVIOUS
  <2>2. QED
    BY <1>8, <2>1, IsSequence DEF String
<1>10. QED
  BY <1>1, <1>4, <1>5, <1>8, <1>9

(* Base64Decoding() takes these out of a group of digits.                   *)
LEMMA LenientIs ==
  ASSUME NEW g \in UpTo(4), AllDigits(g)
  PROVE  /\ DecodeGroup(g) = Decoded(g, Len(g)) /\ DecodeGroup(g) \in String
         /\ Len(DecodeGroup(g)) = Len(g) - 1
<1>1. PICK m \in 1 .. 4 : m = Len(g)
  BY DEF UpTo
<1>2. DigitsUpTo(g, m)
  BY <1>1, Zenon DEF AllDigits, DigitsUpTo
<1> DEFINE v == [j \in 1 .. 4 |-> IF j <= Len(g) THEN Value64[g[j]] ELSE 0]
           T == ThreeOf(v)
<1>3. PICK a \in 0 .. 63, b \in 0 .. 63, c \in 0 .. 63, d \in 0 .. 63 :
        /\ a = ValueAt(g, 1, m) /\ b = ValueAt(g, 2, m)
        /\ c = ValueAt(g, 3, m) /\ d = ValueAt(g, 4, m)
  <2>1. 1 \in 1 .. 4 /\ 2 \in 1 .. 4 /\ 3 \in 1 .. 4 /\ 4 \in 1 .. 4
    OBVIOUS
  <2>2. \A j \in 1 .. 4 : ValueAt(g, j, m) \in 0 .. 63
    BY <1>2, ThreesAre
  <2>3. /\ ValueAt(g, 1, m) \in 0 .. 63 /\ ValueAt(g, 2, m) \in 0 .. 63
        /\ ValueAt(g, 3, m) \in 0 .. 63 /\ ValueAt(g, 4, m) \in 0 .. 63
    BY <2>1, <2>2
  <2>4. QED
    BY <2>3, Zenon
<1>4. v[1] = a /\ v[2] = b /\ v[3] = c /\ v[4] = d
  BY <1>1, <1>3 DEF ValueAt
<1> HIDE DEF v
<1>5. T = <<Char8(a * 4) + Shr(Low(b, 6), 4), Low(b, 4) * 16 + Shr(Low(c, 6), 2),
            Char8(Low(c, 2) * 64 + d)>>
  BY <1>4 DEF ThreeOf
<1>6. /\ Char8(a * 4) = (a * 4) % 256 /\ Shr(Low(b, 6), 4) = (b % 64) \div 16
      /\ Low(b, 4) = b % 16 /\ Shr(Low(c, 6), 2) = (c % 64) \div 4
      /\ Low(c, 2) = c % 4 /\ Char8((c % 4) * 64 + d) = ((c % 4) * 64 + d) % 256
  <2>1. /\ a * 4 \in Int /\ b \in Int /\ c \in Int /\ b % 64 \in Int /\ c % 64 \in Int
        /\ (c % 4) * 64 + d \in Int
    OBVIOUS
  <2>2. /\ Shifts(a * 4) /\ Shifts(b) /\ Shifts(c) /\ Shifts(b % 64) /\ Shifts(c % 64)
        /\ Shifts((c % 4) * 64 + d)
    BY <2>1, ShiftsAre
  <2>3. Char8(a * 4) = (a * 4) % 256
    BY <2>2 DEF Shifts, Char8
  <2>4. Shr(Low(b, 6), 4) = (b % 64) \div 16
    BY <2>2 DEF Shifts
  <2>5. Low(b, 4) = b % 16 /\ Low(c, 2) = c % 4
    BY <2>2 DEF Shifts
  <2>6. Shr(Low(c, 6), 2) = (c % 64) \div 4
    BY <2>2 DEF Shifts
  <2>7. Char8((c % 4) * 64 + d) = ((c % 4) * 64 + d) % 256
    BY <2>2 DEF Shifts, Char8
  <2>8. QED
    BY <2>3, <2>4, <2>5, <2>6, <2>7
<1>7. T = Threes(g, m)
  BY <1>3, <1>5, <1>6 DEF Threes, Merged, First8, Second8, Third8
<1>8. DecodeGroup(g) = SubSeq(T, 1, Len(g) - 1)
  BY DEF DecodeGroup, v
<1> HIDE DEF T
<1>9. PICK n \in 0 .. 3 : n = m - 1
  OBVIOUS
<1>10. Threes(g, m) \in String /\ Len(Threes(g, m)) = 3
       /\ Decoded(g, m) \in String /\ Len(Decoded(g, m)) = m - 1
       /\ \A j \in 1 .. m - 1 : Decoded(g, m)[j] = Threes(g, m)[j]
  BY <1>2, ThreesAre
<1>11. DecodeGroup(g) = Cut(Threes(g, m), 0, n)
  BY <1>1, <1>7, <1>8, <1>9 DEF Cut
<1>12. /\ Cut(Threes(g, m), 0, n) \in String /\ Len(Cut(Threes(g, m), 0, n)) = n - 0
       /\ \A k \in 1 .. n - 0 : Cut(Threes(g, m), 0, n)[k] = Threes(g, m)[0 + k]
  <2>1. n \in 0 .. Len(Threes(g, m)) /\ 0 \in 0 .. n
    BY <1>10
  <2>2. QED
    BY <1>10, <2>1, CutIs
<1>13. n - 0 = n /\ \A k \in 1 .. n : 0 + k = k
  OBVIOUS
<1>14. Cut(Threes(g, m), 0, n) = Decoded(g, m)
  BY <1>9, <1>10, <1>12, <1>13, SameString
<1>15. QED
  BY <1>1, <1>10, <1>11, <1>14

(* A whole group: m digits, and padding behind them.                        *)
Shape(g, m) ==
  Len(g) = 4 /\ \A j \in 1 .. 4 : IF j <= m THEN is_base64(g[j]) ELSE g[j] = Pad

(* base64decode() takes the same out of a whole group.                      *)
LEMMA StrictIs ==
  ASSUME NEW g \in String, NEW m \in 2 .. 4, Shape(g, m)
  PROVE  /\ padding(g) = 4 - m /\ DigitsUpTo(g, m)
         /\ decodeGroup(g) = Decoded(g, m) /\ decodeGroup(g) \in String
         /\ Len(decodeGroup(g)) = m - 1
<1>1. Len(g) = 4 /\ \A j \in 1 .. 4 : IF j <= m THEN is_base64(g[j]) ELSE g[j] = Pad
  BY DEF Shape
<1>2. DigitsUpTo(g, m)
  <2>1. \A j \in 1 .. m : j \in 1 .. 4 /\ j <= m
    OBVIOUS
  <2>2. QED
    BY <1>1, <2>1 DEF DigitsUpTo
<1>3. ASSUME NEW j \in 1 .. 4
      PROVE  (g[j] = Pad <=> m < j) /\ (IF g[j] = Pad THEN 0 ELSE Value64[g[j]]) = ValueAt(g, j, m)
  <2>1. CASE j <= m
    <3>1. is_base64(g[j])
      BY <1>1, <2>1, Zenon
    <3>2. g[j] # Pad
      BY <3>1, ValueIs64, Zenon
    <3>3. QED
      BY <2>1, <3>2 DEF ValueAt
  <2>2. CASE ~(j <= m)
    <3>1. g[j] = Pad
      BY <1>1, <2>2
    <3>2. QED
      BY <2>2, <3>1 DEF ValueAt
  <2>3. QED
    BY <2>1, <2>2
<1>4. padding(g) = 4 - m
  <2>1. {j \in 1 .. Len(g) : g[j] = Pad} = m + 1 .. 4
    <3>1. \A j : j \in 1 .. 4 /\ m < j <=> j \in m + 1 .. 4
      OBVIOUS
    <3>2. \A j : j \in {i \in 1 .. Len(g) : g[i] = Pad} <=> j \in 1 .. 4 /\ m < j
      BY <1>1, <1>3
    <3>3. QED
      BY <3>1, <3>2
  <2>2. Cardinality(m + 1 .. 4) = IF m + 1 > 4 THEN 0 ELSE 4 - (m + 1) + 1
    <3>1. m + 1 \in Int /\ 4 \in Int
      OBVIOUS
    <3>2. QED
      BY <3>1, FS_Interval
  <2>3. padding(g) = Cardinality(m + 1 .. 4)
    BY <2>1, Zenon DEF padding
  <2>4. QED
    BY <2>2, <2>3
<1>5. PICK a \in 0 .. 63, b \in 0 .. 63, c \in 0 .. 63, d \in 0 .. 63 :
        /\ a = ValueAt(g, 1, m) /\ b = ValueAt(g, 2, m)
        /\ c = ValueAt(g, 3, m) /\ d = ValueAt(g, 4, m)
  <2>1. 1 \in 1 .. 4 /\ 2 \in 1 .. 4 /\ 3 \in 1 .. 4 /\ 4 \in 1 .. 4
    OBVIOUS
  <2>2. m \in 1 .. 4
    OBVIOUS
  <2>3. \A j \in 1 .. 4 : ValueAt(g, j, m) \in 0 .. 63
    BY <1>2, <2>2, ThreesAre
  <2>4. /\ ValueAt(g, 1, m) \in 0 .. 63 /\ ValueAt(g, 2, m) \in 0 .. 63
        /\ ValueAt(g, 3, m) \in 0 .. 63 /\ ValueAt(g, 4, m) \in 0 .. 63
    BY <2>1, <2>3
  <2>5. QED
    BY <2>4, Zenon
<1> DEFINE w == MapSeq(g, LAMBDA c_1 : IF c_1 = Pad THEN 0 ELSE Value64[c_1])
           p == Packed(w, 64)
<1>6. w \in Seq(Int) /\ Len(w) = 4 /\ w[1] = a /\ w[2] = b /\ w[3] = c /\ w[4] = d
  <2>1. DOMAIN g = 1 .. 4
    BY <1>1, StringFacts
  <2>2. w = [j \in 1 .. 4 |-> IF g[j] = Pad THEN 0 ELSE Value64[g[j]]]
    BY <2>1 DEF MapSeq
  <2> HIDE DEF w
  <2>3. /\ 1 \in 1 .. 4 /\ 2 \in 1 .. 4 /\ 3 \in 1 .. 4 /\ 4 \in 1 .. 4
        /\ \A j \in 1 .. 4 : j = 1 \/ j = 2 \/ j = 3 \/ j = 4
    OBVIOUS
  <2>4. w[1] = a /\ w[2] = b /\ w[3] = c /\ w[4] = d
    BY <1>3, <1>5, <2>2, <2>3
  <2>5. \A j \in 1 .. 4 : w[j] \in Int
    BY <2>3, <2>4
  <2>6. w \in [1 .. 4 -> Int]
    BY <2>2, <2>5
  <2>7. PICK n \in Nat : n = 4
    OBVIOUS
  <2>8. w \in Seq(Int) /\ Len(w) = 4
    <3>1. w \in [1 .. n -> Int]
      BY <2>6, <2>7
    <3>2. w \in Seq(Int) /\ Len(w) = n
      BY <3>1, IsSequence
    <3>3. QED
      BY <2>7, <3>2
  <2>9. QED
    BY <2>4, <2>8, Zenon
<1>7. p = OfFour(a, b, c, d)
  <2>1. 64 \in Nat
    OBVIOUS
  <2> HIDE DEF w
  <2>2. Packed(w, 64) = ((w[1] * 64 + w[2]) * 64 + w[3]) * 64 + w[4]
    BY <1>6, <2>1, PackedShort
  <2>3. QED
    BY <1>6, <2>2 DEF OfFour
<1>8. PICK n \in Int : n = OfFour(a, b, c, d)
  BY DEF OfFour
<1>9. /\ (n \div 65536) % 256 = First8(a, b) /\ (n \div 256) % 256 = Second8(b, c)
      /\ n % 256 = Third8(c, d)
  <2>1. Merges(a, b, c, d, OfFour(a, b, c, d))
    BY FourInThree, Zenon
  <2>2. Merges(a, b, c, d, n)
    BY <1>8, <2>1
  <2>3. QED
    BY <2>2 DEF Merges
<1>10. decodeGroup(g) = [j \in 1 .. 3 - padding(g) |-> Char8(Shr(p, 24 - 8 * j))]
  BY Zenon DEF decodeGroup
<1> HIDE DEF w, p
<1>11. ASSUME NEW j \in 1 .. 3 PROVE Char8(Shr(n, 24 - 8 * j)) = Threes(g, m)[j]
  <2>1. Shr(n, 16) = n \div 65536 /\ Shr(n, 8) = n \div 256 /\ Shr(n, 0) = n
    <3>1. Shifts(n)
      BY ShiftsAre
    <3>2. QED
      BY <3>1 DEF Shifts
  <2>2. n \div 65536 \in Int /\ n \div 256 \in Int
    OBVIOUS
  <2>3. ASSUME NEW x \in Int PROVE Char8(x) = x % 256
    <3>1. Shifts(x)
      BY ShiftsAre
    <3>2. QED
      BY <3>1 DEF Shifts, Char8
  <2>4. Threes(g, m) = <<First8(a, b), Second8(b, c), Third8(c, d)>>
    BY <1>5 DEF Threes, Merged
  <2>5. CASE j = 1
    <3>1. 24 - 8 * j = 16
      BY <2>5
    <3>2. QED
      BY <1>9, <2>1, <2>2, <2>3, <2>4, <2>5, <3>1
  <2>6. CASE j = 2
    <3>1. 24 - 8 * j = 8
      BY <2>6
    <3>2. QED
      BY <1>9, <2>1, <2>2, <2>3, <2>4, <2>6, <3>1
  <2>7. CASE j = 3
    <3>1. 24 - 8 * j = 0
      BY <2>7
    <3>2. QED
      BY <1>9, <2>1, <2>2, <2>3, <2>4, <2>7, <3>1
  <2>8. QED
    BY <2>5, <2>6, <2>7
<1>12. decodeGroup(g) = Decoded(g, m)
  <2>1. 3 - padding(g) = m - 1 /\ \A j \in 1 .. m - 1 : j \in 1 .. 3
    BY <1>4
  <2>2. decodeGroup(g) = [j \in 1 .. m - 1 |-> Char8(Shr(n, 24 - 8 * j))]
    BY <1>7, <1>8, <1>10, <2>1
  <2>3. \A j \in 1 .. m - 1 : Char8(Shr(n, 24 - 8 * j)) = Threes(g, m)[j]
    BY <1>11, <2>1
  <2>4. QED
    BY <2>2, <2>3 DEF Decoded
<1>13. Decoded(g, m) \in String /\ Len(Decoded(g, m)) = m - 1
  <2>1. m \in 1 .. 4
    OBVIOUS
  <2>2. QED
    BY <1>2, <2>1, ThreesAre
<1>14. QED
  BY <1>2, <1>4, <1>12, <1>13

(* Whole groups are what base64decode() accepts, and those with padding at  *)
(* the end only.                                                            *)
LEMMA GoodShapes ==
  ASSUME NEW g \in String, NEW isLast \in BOOLEAN
  PROVE  GoodGroup(g, isLast) <=> \E m \in 2 .. 4 : Shape(g, m) /\ (m < 4 => isLast)
<1>1. ASSUME NEW m \in 2 .. 4, Shape(g, m), m < 4 => isLast PROVE GoodGroup(g, isLast)
  <2>1. padding(g) = 4 - m
    BY <1>1, StrictIs
  <2>2. Len(g) = 4 /\ \A j \in 1 .. 4 : IF j <= m THEN is_base64(g[j]) ELSE g[j] = Pad
    BY <1>1 DEF Shape
  <2>3. 4 - padding(g) = m /\ padding(g) <= 2 /\ (padding(g) > 0 => m < 4)
    BY <2>1
  <2>4. QED
    BY <1>1, <2>2, <2>3 DEF GoodGroup
<1>2. ASSUME GoodGroup(g, isLast)
      PROVE  \E m \in 2 .. 4 : Shape(g, m) /\ (m < 4 => isLast)
  <2>1. /\ Len(g) = 4 /\ padding(g) <= 2 /\ (padding(g) > 0 => isLast)
        /\ \A j \in 1 .. 4 : IF j <= 4 - padding(g) THEN is_base64(g[j]) ELSE g[j] = Pad
    BY <1>2 DEF GoodGroup
  <2>2. padding(g) \in Nat
    <3>1. 1 \in Int /\ Len(g) \in Int
      BY <2>1
    <3>2. IsFiniteSet(1 .. Len(g))
      BY <3>1, FS_Interval
    <3>3. {j \in 1 .. Len(g) : g[j] = Pad} \in SUBSET (1 .. Len(g))
      OBVIOUS
    <3>4. IsFiniteSet({j \in 1 .. Len(g) : g[j] = Pad})
      BY <3>2, <3>3, FS_Subset
    <3>5. QED
      BY <3>4, FS_CardinalityType DEF padding
  <2>3. PICK q \in 0 .. 2 : q = padding(g)
    BY <2>1, <2>2
  <2>4. 4 - q \in 2 .. 4 /\ (4 - q < 4 => q > 0)
    OBVIOUS
  <2>5. Shape(g, 4 - q)
    BY <2>1, <2>3 DEF Shape
  <2>6. QED
    BY <2>1, <2>3, <2>4, <2>5
<1>3. QED
  BY <1>1, <1>2

(* An encoded group has a digit more than the group has bytes, and they are *)
(* in its digits.                                                           *)
LEMMA EncodedShape ==
  ASSUME NEW g \in UpTo(3)
  PROVE  /\ Encoded(g) \in String /\ Len(Encoded(g)) = 4
         /\ Len(g) + 1 \in 2 .. 4 /\ Shape(Encoded(g), Len(g) + 1)
         /\ Decoded(Encoded(g), Len(g) + 1) = g
<1> DEFINE e == Encoded(g)
           S == Sixes(g)
<1>1. g \in String /\ Len(g) \in 1 .. 3
  BY DEF UpTo
<1>2. PICK m \in 2 .. 4 : m = Len(g) + 1 /\ m - 1 = Len(g)
  <2>1. PICK l \in 1 .. 3 : l = Len(g)
    BY <1>1
  <2>2. l + 1 \in 2 .. 4 /\ (l + 1) - 1 = l
    OBVIOUS
  <2>3. QED
    BY <2>1, <2>2
<1>3. \A j \in 1 .. 4 : S[j] \in 0 .. 63
  BY EncodedIs
<1>4. e = [j \in 1 .. 4 |-> IF j <= m THEN base64_chars[S[j]] ELSE Pad]
  BY <1>2 DEF Encoded
<1> HIDE DEF e, S
<1>5. \A j \in 1 .. 4 : e[j] = IF j <= m THEN base64_chars[S[j]] ELSE Pad
  BY <1>4
<1>6. ASSUME NEW j \in 1 .. 4 PROVE e[j] \in 0 .. 255
  <2>1. Pad \in 0 .. 255
    BY DEF Pad
  <2>2. base64_chars[S[j]] \in 0 .. 255
    BY <1>3, ValueIs64, ZenonT(40)
  <2>3. QED
    BY <1>5, <2>1, <2>2, Zenon
<1>7. e \in String /\ Len(e) = 4
  <2>1. PICK n \in Nat : n = 4
    OBVIOUS
  <2>2. e \in [1 .. n -> 0 .. 255]
    BY <1>4, <1>6, <2>1
  <2>3. e \in String /\ Len(e) = n
    BY <2>2, IsSequence DEF String
  <2>4. QED
    BY <2>1, <2>3
<1>8. ASSUME NEW j \in 1 .. 4 PROVE IF j <= m THEN is_base64(e[j]) ELSE e[j] = Pad
  <2>1. is_base64(base64_chars[S[j]])
    BY <1>3, ValueIs64, ZenonT(40)
  <2>2. QED
    BY <1>5, <2>1
<1>9. Shape(e, m)
  BY <1>7, <1>8 DEF Shape
<1>10. PICK x \in 0 .. 255, y \in 0 .. 255, z \in 0 .. 255 :
         x = Filled(g, 1) /\ y = Filled(g, 2) /\ z = Filled(g, 3)
  <2>1. 1 \in 1 .. 3 /\ 2 \in 1 .. 3 /\ 3 \in 1 .. 3
    OBVIOUS
  <2>2. QED
    BY <2>1, FilledIs, Zenon
<1>11. /\ S[1] = First6(x) /\ S[2] = Second6(x, y) /\ S[3] = Third6(y, z) /\ S[4] = Fourth6(z)
  BY <1>10 DEF Sixes, S
<1>12. (m < 3 => y = 0 /\ z = 0) /\ (m < 4 => z = 0)
  BY <1>1, <1>2, <1>10 DEF Filled
<1>13. (m < 3 => S[3] = 0) /\ (m < 4 => S[4] = 0)
  <2>1. Third6(0, 0) = 0 /\ Fourth6(0) = 0
    BY DEF Third6, Fourth6
  <2>2. QED
    BY <1>11, <1>12, <2>1
<1>14. ASSUME NEW j \in 1 .. 4 PROVE ValueAt(e, j, m) = S[j]
  <2>1. CASE j <= m
    <3>1. Value64[base64_chars[S[j]]] = S[j]
      BY <1>3, ValueIs64, ZenonT(40)
    <3>2. QED
      BY <1>5, <2>1, <3>1 DEF ValueAt
  <2>2. CASE ~(j <= m)
    <3>1. (j = 3 /\ m < 3) \/ (j = 4 /\ m < 4)
      BY <2>2
    <3>2. S[j] = 0
      BY <1>13, <3>1
    <3>3. QED
      BY <2>2, <3>2 DEF ValueAt
  <2>3. QED
    BY <2>1, <2>2
<1>15. Threes(e, m) = <<x, y, z>>
  <2>1. 1 \in 1 .. 4 /\ 2 \in 1 .. 4 /\ 3 \in 1 .. 4 /\ 4 \in 1 .. 4
    OBVIOUS
  <2>2. /\ ValueAt(e, 1, m) = First6(x) /\ ValueAt(e, 2, m) = Second6(x, y)
        /\ ValueAt(e, 3, m) = Third6(y, z) /\ ValueAt(e, 4, m) = Fourth6(z)
    BY <1>11, <1>14, <2>1
  <2>3. /\ First8(First6(x), Second6(x, y)) = x
        /\ Second8(Second6(x, y), Third6(y, z)) = y
        /\ Third8(Third6(y, z), Fourth6(z)) = z
    BY ThereAndBack, Zenon
  <2>4. Threes(e, m) = <<First8(First6(x), Second6(x, y)), Second8(Second6(x, y), Third6(y, z)),
                         Third8(Third6(y, z), Fourth6(z))>>
    BY <2>2, Zenon DEF Threes, Merged
  <2>5. QED
    BY <2>3, <2>4, Zenon
<1>16. Decoded(e, m) = g
  <2>1. DigitsUpTo(e, m)
    BY <1>8 DEF DigitsUpTo
  <2>2. /\ Decoded(e, m) \in String /\ Len(Decoded(e, m)) = m - 1
        /\ \A j \in 1 .. m - 1 : Decoded(e, m)[j] = Threes(e, m)[j]
    <3>1. m \in 1 .. 4
      OBVIOUS
    <3>2. QED
      BY <2>1, <3>1, ThreesAre
  <2>3. m - 1 = Len(g)
    BY <1>2
  <2>4. ASSUME NEW j \in 1 .. Len(g) PROVE Decoded(e, m)[j] = g[j]
    <3>1. Decoded(e, m)[j] = <<x, y, z>>[j]
      BY <1>15, <2>2, <2>3
    <3>2. Filled(g, j) = g[j]
      BY <1>1 DEF Filled
    <3>3. j = 1 \/ j = 2 \/ j = 3
      <4>1. PICK l \in 1 .. 3 : l = Len(g)
        BY <1>1
      <4>2. j \in 1 .. l
        BY <4>1
      <4>3. QED
        BY <4>2
    <3>4. QED
      BY <1>10, <3>1, <3>2, <3>3
  <2>5. QED
    BY <1>1, <2>2, <2>3, <2>4, SameString
<1>17. QED
  BY <1>2, <1>7, <1>9, <1>16 DEF e

(* What the encoders make of no byte, of a last group, and of a first one.  *)
EncodeBy == [g \in UpTo(3) |-> Encoded(g)]

(* Both encoders put the same four characters in the place of every group.  *)
LEMMA EncodersAre ==
  /\ \A data \in String : /\ base64encode(data) = Spread(Groups(data, 3), EncodeBy)
                          /\ Base64Encoding(data) = Spread(Groups(data, 3), EncodeBy)
                          /\ base64encode(data) \in String
  /\ base64encode(<<>>) = <<>>
  /\ \A g \in UpTo(3) : base64encode(g) = Encoded(g)
  /\ \A p, s \in String : Len(p) = 3 => base64encode(p \o s) = Encoded(p) \o base64encode(s)
<1>1. EncodeBy \in [UpTo(3) -> String] /\ \A g \in UpTo(3) : EncodeBy[g] = Encoded(g)
  BY EncodedShape DEF EncodeBy
<1>2. 3 \in {2, 3, 4}
  OBVIOUS
<1>3. ASSUME NEW data \in String
      PROVE  /\ base64encode(data) = Spread(Groups(data, 3), EncodeBy)
             /\ Base64Encoding(data) = Spread(Groups(data, 3), EncodeBy)
             /\ base64encode(data) \in String /\ Groups(data, 3) \in Seq(UpTo(3))
  <2> DEFINE h == Groups(data, 3)
  <2>1. h \in Seq(UpTo(3))
    BY <1>2, GroupsAre
  <2> HIDE DEF h
  <2>2. \A i \in DOMAIN h : h[i] \in UpTo(3)
    BY <2>1, LenProperties, ElementOfSeq
  <2>3. MapSeq(h, encodeGroup) = Each(h, EncodeBy)
    BY <1>1, <2>2, EncodedIs DEF MapSeq, Each
  <2>4. MapSeq(h, EncodeGroup) = Each(h, EncodeBy)
    BY <1>1, <2>2, EncodedIs DEF MapSeq, Each
  <2>5. Spread(h, EncodeBy) \in String
    BY <1>1, <2>1, Blockwise
  <2>6. QED
    BY <2>1, <2>3, <2>4, <2>5 DEF base64encode, Base64Encoding, Spread, h
<1>4. base64encode(<<>>) = <<>>
  <2>1. <<>> \in String /\ Len(<<>>) = 0
    BY ShortStrings
  <2>2. Groups(<<>>, 3) = <<>>
    BY <1>2, <2>1, ShortGroups
  <2>3. QED
    BY <1>1, <1>3, <2>1, <2>2, Blockwise
<1>5. ASSUME NEW g \in UpTo(3) PROVE base64encode(g) = Encoded(g)
  <2>1. g \in String /\ Len(g) \in 1 .. 3
    BY DEF UpTo
  <2>2. Len(g) <= 3 /\ g # <<>>
    <3>1. PICK l \in 1 .. 3 : l = Len(g)
      BY <2>1
    <3>2. Len(g) <= 3 /\ Len(g) # 0
      BY <3>1
    <3>3. QED
      BY <3>2, ShortStrings
  <2>3. Groups(g, 3) = <<g>>
    BY <1>2, <2>1, <2>2, ShortGroups
  <2>4. Spread(<<g>>, EncodeBy) = EncodeBy[g]
    BY <1>1, Blockwise
  <2>5. QED
    BY <1>1, <1>3, <2>1, <2>3, <2>4
<1>6. ASSUME NEW p \in String, NEW s \in String, Len(p) = 3
      PROVE  base64encode(p \o s) = Encoded(p) \o base64encode(s)
  <2>1. p \in UpTo(3) /\ p \o s \in String
    BY <1>6, JoinedIs DEF UpTo
  <2>2. Groups(p \o s, 3) = <<p>> \o Groups(s, 3)
    BY <1>2, <1>6, LongGroups
  <2>3. Spread(<<p>> \o Groups(s, 3), EncodeBy) = EncodeBy[p] \o Spread(Groups(s, 3), EncodeBy)
    <3>1. Groups(s, 3) \in Seq(UpTo(3))
      BY <1>3
    <3>2. QED
      BY <1>1, <2>1, <3>1, Blockwise
  <2>4. QED
    BY <1>1, <1>3, <2>1, <2>2, <2>3
<1>7. QED
  BY <1>3, <1>4, <1>5, <1>6

(* What Base64Decoding() makes of a first group, and of a last one.         *)
DigitGroups == {g \in UpTo(4) : AllDigits(g)}
LenientBy == [g \in DigitGroups |-> DecodeGroup(g)]

(* It decodes a whole first group, and then what follows it; a group that   *)
(* is followed by no digit is the last.                                     *)
LEMMA LenientChunks ==
  /\ Base64Decoding(<<>>) = <<>>
  /\ \A t \in String : Base64Decoding(t) \in String
  /\ \A g \in DigitGroups, t \in String :
       t = <<>> \/ ~is_base64(t[1]) => Base64Decoding(g \o t) = Decoded(g, Len(g))
  /\ \A g \in DigitGroups, t \in String :
       Len(g) = 4 => Base64Decoding(g \o t) = Decoded(g, 4) \o Base64Decoding(t)
<1> DEFINE f == LenientBy
<1>1. f \in [DigitGroups -> String] /\ \A g \in DigitGroups : f[g] = DecodeGroup(g)
  BY LenientIs DEF LenientBy, DigitGroups
<1> HIDE DEF f
<1>2. 4 \in {2, 3, 4}
  OBVIOUS
<1>3. ASSUME NEW s \in String, AllDigits(s) PROVE Groups(s, 4) \in Seq(DigitGroups)
  <2> DEFINE h == Groups(s, 4)
             c == (Len(s) + 4 - 1) \div 4
  <2>1. h \in Seq(UpTo(4)) /\ Len(h) = c /\ c \in Nat /\ \A k \in 1 .. c : h[k] = Group(s, 4, k)
    BY <1>2, GroupsAre
  <2>2. ASSUME NEW k \in 1 .. c PROVE h[k] \in DigitGroups
    <3>1. /\ Group(s, 4, k) \in UpTo(4)
          /\ Len(Group(s, 4, k)) = Lesser(4, Len(s) - 4 * (k - 1))
          /\ \A j \in 1 .. Len(Group(s, 4, k)) : Group(s, 4, k)[j] = s[4 * (k - 1) + j]
      BY <1>2, GroupIs
    <3>2. PICK g \in UpTo(4) : g = Group(s, 4, k)
      BY <3>1
    <3>3. PICK a \in Nat : a = 4 * (k - 1)
      <4>1. 4 * (k - 1) \in Nat
        <5>1. c \in Nat
          BY <2>1
        <5> HIDE DEF c
        <5>2. QED
          BY <5>1
      <4>2. QED
        BY <4>1
    <3>4. PICK l \in Nat : l = Len(s)
      BY StringFacts
    <3>5. ASSUME NEW j \in 1 .. Len(g) PROVE is_base64(g[j])
      <4>1. g[j] = s[a + j]
        BY <3>1, <3>2, <3>3
      <4>2. Len(g) = Lesser(4, l - a)
        BY <3>1, <3>2, <3>3, <3>4
      <4>3. PICK n \in 1 .. 4 : n = Len(g)
        BY DEF UpTo
      <4>4. n <= l - a
        BY <4>2, <4>3 DEF Lesser
      <4>5. j \in 1 .. n
        BY <4>3
      <4>6. a + j \in 1 .. l
        BY <4>4, <4>5
      <4>7. QED
        BY <1>3, <3>4, <4>1, <4>6 DEF AllDigits
    <3>6. QED
      BY <2>1, <3>2, <3>5 DEF AllDigits, DigitGroups
  <2> HIDE DEF h, c
  <2>3. h \in [1 .. c -> DigitGroups]
    <3>1. DOMAIN h = 1 .. c /\ h = [k \in 1 .. c |-> h[k]]
      BY <2>1, LenProperties
    <3>2. QED
      BY <2>2, <3>1
  <2>4. QED
    BY <2>1, <2>3, IsSequence DEF h
<1>4. ASSUME NEW t \in String PROVE DigitsOf(t) \in String /\ AllDigits(DigitsOf(t))
  <2>1. PICK d \in 0 .. Len(t) : Stopped(t, NoDigit, d) /\ DigitsOf(t) = Cut(t, 0, d)
    BY DigitsAre
  <2>2. PICK l \in Nat : l = Len(t)
    BY StringFacts
  <2>3. 0 \in 0 .. d /\ d - 0 = d /\ \A i \in 1 .. d : i \in 1 .. l /\ 0 + i = i
    BY <2>2
  <2>4. /\ Cut(t, 0, d) \in String /\ Len(Cut(t, 0, d)) = d
        /\ \A i \in 1 .. d : Cut(t, 0, d)[i] = t[i]
    <3>1. /\ Cut(t, 0, d) \in String /\ Len(Cut(t, 0, d)) = d - 0
          /\ \A i \in 1 .. d - 0 : Cut(t, 0, d)[i] = t[0 + i]
      BY <2>3, CutIs
    <3>2. QED
      BY <2>3, <3>1
  <2>5. ASSUME NEW i \in 1 .. d PROVE is_base64(t[i])
    <3>1. t[i] \in 0 .. 255
      BY <2>2, <2>3, StringFacts
    <3>2. t[i] \notin NoDigit
      BY <2>1 DEF Stopped
    <3>3. QED
      BY <3>1, <3>2 DEF NoDigit
  <2>6. QED
    BY <2>1, <2>4, <2>5 DEF AllDigits
<1>5. ASSUME NEW t \in String
      PROVE  /\ Base64Decoding(t) = Spread(Groups(DigitsOf(t), 4), f)
             /\ Groups(DigitsOf(t), 4) \in Seq(DigitGroups) /\ Base64Decoding(t) \in String
  <2> DEFINE h == Groups(DigitsOf(t), 4)
  <2>1. h \in Seq(DigitGroups)
    BY <1>3, <1>4
  <2> HIDE DEF h
  <2>2. \A i \in DOMAIN h : h[i] \in DigitGroups
    BY <2>1, LenProperties, ElementOfSeq
  <2>3. MapSeq(h, DecodeGroup) = Each(h, f)
    BY <1>1, <2>2 DEF MapSeq, Each
  <2>4. Spread(h, f) \in String
    BY <1>1, <2>1, Blockwise
  <2>5. QED
    BY <2>1, <2>3, <2>4 DEF Base64Decoding, Spread, h
<1>6. <<>> \in String /\ DigitsOf(<<>>) = <<>> /\ Groups(<<>>, 4) = <<>>
  <2>1. <<>> \in String /\ Len(<<>>) = 0 /\ 0 <= 4
    BY ShortStrings
  <2>2. DigitsOf(<<>>) = <<>>
    BY <2>1, DigitsStop
  <2>3. Groups(<<>>, 4) = <<>>
    BY <1>2, <2>1, ShortGroups
  <2>4. QED
    BY <2>1, <2>2, <2>3
<1>7. Base64Decoding(<<>>) = <<>>
  BY <1>1, <1>5, <1>6, Blockwise
<1>8. ASSUME NEW g \in DigitGroups
      PROVE  /\ g \in UpTo(4) /\ g \in String /\ AllDigits(g) /\ Len(g) \in 1 .. 4
             /\ f[g] = Decoded(g, Len(g))
  BY <1>1, LenientIs DEF DigitGroups, UpTo
<1>9. ASSUME NEW g \in DigitGroups, NEW t \in String, t = <<>> \/ ~is_base64(t[1])
      PROVE  Base64Decoding(g \o t) = Decoded(g, Len(g))
  <2>1. DigitsOf(g \o t) = g
    <3>1. DigitsOf(g \o t) = g \o DigitsOf(t)
      BY <1>8, DigitsFrom
    <3>2. DigitsOf(t) = <<>>
      BY <1>9, DigitsStop
    <3>3. QED
      BY <1>8, <3>1, <3>2, ShortStrings
  <2>2. g \o t \in String
    BY <1>8, JoinedIs
  <2>3. Groups(g, 4) = <<g>>
    <3>1. PICK l \in 1 .. 4 : l = Len(g)
      BY <1>8
    <3>2. Len(g) <= 4 /\ Len(g) # 0
      BY <3>1
    <3>3. g # <<>>
      BY <3>2, ShortStrings
    <3>4. QED
      BY <1>2, <1>8, <3>2, <3>3, ShortGroups
  <2>4. Spread(<<g>>, f) = f[g]
    BY <1>1, Blockwise
  <2>5. QED
    BY <1>5, <1>8, <2>1, <2>2, <2>3, <2>4
<1>10. ASSUME NEW g \in DigitGroups, NEW t \in String, Len(g) = 4
       PROVE  Base64Decoding(g \o t) = Decoded(g, 4) \o Base64Decoding(t)
  <2>1. DigitsOf(g \o t) = g \o DigitsOf(t)
    BY <1>8, DigitsFrom
  <2>2. Groups(g \o DigitsOf(t), 4) = <<g>> \o Groups(DigitsOf(t), 4)
    BY <1>2, <1>4, <1>8, <1>10, LongGroups
  <2>3. Groups(DigitsOf(t), 4) \in Seq(DigitGroups)
    BY <1>5
  <2>4. Spread(<<g>> \o Groups(DigitsOf(t), 4), f) = f[g] \o Spread(Groups(DigitsOf(t), 4), f)
    BY <1>1, <2>3, Blockwise
  <2>5. g \o t \in String
    BY <1>8, JoinedIs
  <2>6. f[g] = Decoded(g, 4)
    BY <1>8, <1>10
  <2>7. QED
    BY <1>5, <2>1, <2>2, <2>4, <2>5, <2>6
<1>11. QED
  BY <1>5, <1>7, <1>9, <1>10

(* What base64decode() accepts, and what it makes of it.                    *)
WholeGroups == {g \in String : \E m \in 2 .. 4 : Shape(g, m)}
StrictBy == [g \in WholeGroups |-> decodeGroup(g)]

(* It accepts a text group by group, a padded one only at the end, and      *)
(* decodes what it accepts in the same way.                                 *)
LEMMA StrictChunks ==
  /\ Accepted(<<>>) /\ base64decode(<<>>) = <<>>
  /\ \A t \in String : Accepted(t) => base64decode(t) \in String
  /\ \A t \in String : Len(t) < 4 /\ Accepted(t) => t = <<>>
  /\ \A g, t \in String :
       Len(g) = 4 =>
         (Accepted(g \o t) <=> /\ \E m \in 2 .. 4 : Shape(g, m) /\ (m < 4 => t = <<>>)
                              /\ Accepted(t))
  /\ \A g, t \in String, m \in 2 .. 4 :
       Accepted(g \o t) /\ Accepted(t) /\ Shape(g, m) =>
         base64decode(g \o t) = Decoded(g, m) \o base64decode(t)
<1> DEFINE f == StrictBy
<1>1. f \in [WholeGroups -> String] /\ \A g \in WholeGroups : f[g] = decodeGroup(g)
  BY StrictIs DEF StrictBy, WholeGroups
<1> HIDE DEF f
<1>2. 4 \in {2, 3, 4}
  OBVIOUS
<1>3. ASSUME NEW s \in String
      PROVE  /\ Groups(s, 4) \in Seq(String) /\ Len(Groups(s, 4)) \in Nat
             /\ DOMAIN Groups(s, 4) = 1 .. Len(Groups(s, 4))
             /\ Accepted(s) <=> \A k \in 1 .. Len(Groups(s, 4)) :
                                  GoodGroup(Groups(s, 4)[k], k = Len(Groups(s, 4)))
  <2>1. Groups(s, 4) \in Seq(UpTo(4))
    BY <1>2, GroupsAre
  <2>2. UpTo(4) \subseteq String
    BY DEF UpTo
  <2>3. Groups(s, 4) \in Seq(String)
    BY <2>1, <2>2, SeqMonotonic
  <2>4. Len(Groups(s, 4)) \in Nat /\ DOMAIN Groups(s, 4) = 1 .. Len(Groups(s, 4))
    BY <2>3, LenProperties
  <2>5. QED
    BY <2>3, <2>4 DEF Accepted
<1>4. ASSUME NEW s \in String, Accepted(s)
      PROVE  /\ Groups(s, 4) \in Seq(WholeGroups)
             /\ base64decode(s) = Spread(Groups(s, 4), f) /\ base64decode(s) \in String
  <2> DEFINE h == Groups(s, 4)
  <2>1. /\ h \in Seq(String) /\ Len(h) \in Nat /\ DOMAIN h = 1 .. Len(h)
        /\ \A k \in 1 .. Len(h) : GoodGroup(h[k], k = Len(h))
    BY <1>3, <1>4
  <2> HIDE DEF h
  <2>2. ASSUME NEW k \in 1 .. Len(h) PROVE h[k] \in WholeGroups
    <3>1. h[k] \in String
      BY <2>1, ElementOfSeq, Zenon
    <3>2. GoodGroup(h[k], k = Len(h)) /\ (k = Len(h)) \in BOOLEAN
      BY <2>1, Zenon
    <3>3. QED
      BY <3>1, <3>2, GoodShapes DEF WholeGroups
  <2>3. h \in Seq(WholeGroups)
    <3>1. h = [k \in 1 .. Len(h) |-> h[k]]
      BY <2>1, LenProperties
    <3>2. h \in [1 .. Len(h) -> WholeGroups]
      BY <2>2, <3>1
    <3>3. QED
      BY <2>1, <3>2, IsSequence, Zenon
  <2>4. MapSeq(h, decodeGroup) = Each(h, f)
    BY <1>1, <2>1, <2>2, Zenon DEF MapSeq, Each
  <2>5. Spread(h, f) \in String
    BY <1>1, <2>3, Blockwise
  <2>6. QED
    BY <1>4, <2>3, <2>4, <2>5 DEF base64decode, Spread, h
<1>5. <<>> \in String /\ Groups(<<>>, 4) = <<>> /\ Len(<<>>) = 0
  <2>1. <<>> \in String /\ Len(<<>>) = 0 /\ 0 <= 4
    BY ShortStrings
  <2>2. QED
    BY <1>2, <2>1, ShortGroups
<1>6. Accepted(<<>>)
  BY <1>3, <1>5
<1>7. base64decode(<<>>) = <<>>
  BY <1>1, <1>4, <1>5, <1>6, Blockwise
<1>8. ASSUME NEW t \in String, Len(t) < 4, Accepted(t) PROVE t = <<>>
  <2>1. SUFFICES ASSUME t # <<>> PROVE FALSE
    OBVIOUS
  <2>2. Len(t) <= 4
    BY <1>8, StringFacts
  <2>3. Groups(t, 4) = <<t>>
    BY <1>2, <2>1, <2>2, ShortGroups
  <2>4. PICK h : h = Groups(t, 4)
    OBVIOUS
  <2>5. Len(h) = 1 /\ h[1] = t /\ 1 \in 1 .. Len(h)
    BY <2>3, <2>4
  <2>6. GoodGroup(h[1], 1 = Len(h))
    <3>1. \A k \in 1 .. Len(h) : GoodGroup(h[k], k = Len(h))
      BY <1>3, <1>8, <2>4
    <3>2. QED
      BY <2>5, <3>1
  <2>7. Len(t) = 4
    BY <2>5, <2>6 DEF GoodGroup
  <2>8. QED
    BY <1>8, <2>7
<1>9. ASSUME NEW g \in String, NEW t \in String, Len(g) = 4
      PROVE  Accepted(g \o t) <=> /\ \E m \in 2 .. 4 : Shape(g, m) /\ (m < 4 => t = <<>>)
                                 /\ Accepted(t)
  <2> DEFINE h == Groups(t, 4)
             a == Groups(g \o t, 4)
             n == Len(h)
  <2>1. a = <<g>> \o h
    BY <1>2, <1>9, LongGroups
  <2>2. h \in Seq(String) /\ n \in Nat
        /\ (Accepted(t) <=> \A k \in 1 .. n : GoodGroup(h[k], k = n))
    BY <1>3
  <2>3. g \o t \in String
    BY JoinedIs
  <2>4. Accepted(g \o t) <=> \A k \in 1 .. Len(a) : GoodGroup(a[k], k = Len(a))
    BY <1>3, <2>3
  <2>5. n = 0 <=> t = <<>>
    <3>1. t = <<>> => n = 0
      BY <1>5
    <3>2. ASSUME n = 0 PROVE t = <<>>
      <4>1. PICK l \in Nat : l = Len(t)
        BY StringFacts
      <4>2. (l + 4 - 1) \div 4 = 0
        BY <1>2, <3>2, <4>1, GroupsAre
      <4>3. l = 0
        BY <4>2
      <4>4. QED
        BY <4>1, <4>3, EmptySeq DEF String
    <3>3. QED
      BY <3>1, <3>2
  <2> HIDE DEF h, a, n
  <2>6. Len(a) = n + 1 /\ a[1] = g /\ \A k \in 1 .. n : a[k + 1] = h[k]
    <3>1. <<g>> \in Seq(String) /\ Len(<<g>>) = 1 /\ <<g>>[1] = g /\ Len(h) = n
      BY DEF n
    <3>2. /\ Len(<<g>> \o h) = 1 + n
          /\ \A i \in 1 .. 1 + n : (<<g>> \o h)[i] = IF i <= 1 THEN <<g>>[i] ELSE h[i - 1]
      BY <2>2, <3>1, ConcatProperties
    <3>3. 1 \in 1 .. 1 + n /\ 1 + n = n + 1
      BY <2>2
    <3>4. ASSUME NEW k \in 1 .. n
          PROVE  k + 1 \in 1 .. 1 + n /\ ~(k + 1 <= 1) /\ (k + 1) - 1 = k
      BY <2>2
    <3>5. QED
      BY <2>1, <3>1, <3>2, <3>3, <3>4
  <2>7. (1 = n + 1) <=> t = <<>>
    BY <2>2, <2>5
  <2>8. GoodGroup(g, 1 = n + 1) <=> \E m \in 2 .. 4 : Shape(g, m) /\ (m < 4 => t = <<>>)
    <3>1. PICK last \in BOOLEAN : last <=> (1 = n + 1)
      OBVIOUS
    <3>2. GoodGroup(g, 1 = n + 1) <=> GoodGroup(g, last)
      BY <3>1 DEF GoodGroup
    <3>3. GoodGroup(g, last) <=> \E m \in 2 .. 4 : Shape(g, m) /\ (m < 4 => last)
      BY GoodShapes
    <3>4. QED
      BY <2>7, <3>1, <3>2, <3>3
  <2>9. (\A k \in 1 .. n + 1 : GoodGroup(a[k], k = n + 1))
          <=> GoodGroup(a[1], 1 = n + 1) /\ \A k \in 1 .. n : GoodGroup(a[k + 1], k + 1 = n + 1)
    <3>1. /\ 1 \in 1 .. n + 1 /\ \A k \in 1 .. n : k + 1 \in 1 .. n + 1
          /\ \A k \in 1 .. n + 1 : k = 1 \/ (k - 1 \in 1 .. n /\ (k - 1) + 1 = k)
      BY <2>2
    <3>2. ASSUME GoodGroup(a[1], 1 = n + 1), NEW k \in 1 .. n + 1,
                 \A i \in 1 .. n : GoodGroup(a[i + 1], i + 1 = n + 1)
          PROVE  GoodGroup(a[k], k = n + 1)
      <4>1. CASE k = 1
        BY <3>2, <4>1
      <4>2. CASE k # 1
        <5>1. PICK i \in 1 .. n : k = i + 1
          BY <3>1, <4>2
        <5>2. QED
          BY <3>2, <5>1
      <4>3. QED
        BY <4>1, <4>2
    <3>3. QED
      BY <3>1, <3>2
  <2>10. ASSUME NEW k \in 1 .. n
         PROVE  GoodGroup(a[k + 1], k + 1 = n + 1) <=> GoodGroup(h[k], k = n)
    <3>1. (k + 1 = n + 1) <=> (k = n)
      BY <2>2
    <3>2. QED
      BY <2>6, <3>1 DEF GoodGroup
  <2>11. QED
    BY <2>2, <2>4, <2>6, <2>8, <2>9, <2>10
<1>10. ASSUME NEW g \in String, NEW t \in String, NEW m \in 2 .. 4,
              Accepted(g \o t), Accepted(t), Shape(g, m)
       PROVE  base64decode(g \o t) = Decoded(g, m) \o base64decode(t)
  <2>1. Len(g) = 4 /\ g \in WholeGroups
    BY <1>10 DEF Shape, WholeGroups
  <2>2. Groups(g \o t, 4) = <<g>> \o Groups(t, 4)
    BY <1>2, <2>1, LongGroups
  <2>3. Groups(t, 4) \in Seq(WholeGroups) /\ base64decode(t) = Spread(Groups(t, 4), f)
    BY <1>4, <1>10
  <2>4. base64decode(g \o t) = Spread(Groups(g \o t, 4), f)
    <3>1. g \o t \in String
      BY JoinedIs
    <3>2. QED
      BY <1>4, <1>10, <3>1
  <2>5. Spread(<<g>> \o Groups(t, 4), f) = f[g] \o Spread(Groups(t, 4), f)
    <3>1. f \in [WholeGroups -> String] /\ g \in WholeGroups /\ Groups(t, 4) \in Seq(WholeGroups)
      BY <1>1, <2>1, <2>3
    <3>2. QED
      BY <3>1, Blockwise
  <2>6. f[g] = Decoded(g, m)
    BY <1>1, <1>10, <2>1, StrictIs
  <2>7. QED
    BY <2>2, <2>3, <2>4, <2>5, <2>6
<1>11. QED
  BY <1>4, <1>6, <1>7, <1>8, <1>9, <1>10

(* encoding.cc:38-78, hash.cc:131-188: where the strict decoder accepts a   *)
(* text, the lenient one reads the same.                                    *)
LEMMA StrictAlwaysWithinLenient ==
  ASSUME NEW src \in String
  PROVE  StrictWithinLenient(src)
<1> DEFINE Holds == {t \in String : Accepted(t) => base64decode(t) = Base64Decoding(t)}
<1>1. ASSUME NEW t \in String, Len(t) < 4 PROVE t \in Holds
  <2>1. SUFFICES ASSUME Accepted(t) PROVE base64decode(t) = Base64Decoding(t)
    OBVIOUS
  <2>2. t = <<>>
    BY <1>1, <2>1, StrictChunks
  <2>3. QED
    BY <2>2, StrictChunks, LenientChunks
<1>2. ASSUME NEW p \in String, NEW s \in String, Len(p) = 4, s \in Holds PROVE p \o s \in Holds
  <2>1. p \o s \in String
    BY JoinedIs
  <2>2. SUFFICES ASSUME Accepted(p \o s) PROVE base64decode(p \o s) = Base64Decoding(p \o s)
    BY <2>1
  <2>3. PICK m \in 2 .. 4 : Shape(p, m) /\ (m < 4 => s = <<>>)
    BY <1>2, <2>2, StrictChunks
  <2>4. Accepted(s)
    BY <1>2, <2>2, StrictChunks
  <2>5. base64decode(p \o s) = Decoded(p, m) \o base64decode(s)
    <3>1. Accepted(p \o s) /\ Accepted(s) /\ Shape(p, m)
      BY <2>2, <2>3, <2>4
    <3> HIDE DEF Holds
    <3>2. QED
      BY <3>1, StrictChunks, ZenonT(40)
  <2>6. base64decode(s) = Base64Decoding(s)
    BY <1>2, <2>4
  <2>7. /\ Len(p) = 4 /\ DigitsUpTo(p, m)
        /\ \A j \in 1 .. 4 : IF j <= m THEN is_base64(p[j]) ELSE p[j] = Pad
    BY <2>3 DEF Shape, DigitsUpTo
  <2>8. CASE m = 4
    <3>1. p \in DigitGroups
      <4>1. AllDigits(p)
        BY <2>7, <2>8 DEF AllDigits
      <4>2. QED
        BY <1>2, <4>1 DEF DigitGroups, UpTo
    <3>2. Base64Decoding(p \o s) = Decoded(p, 4) \o Base64Decoding(s)
      BY <1>2, <3>1, LenientChunks
    <3>3. QED
      BY <2>5, <2>6, <2>8, <3>2
  <2>9. CASE m # 4
    <3>1. s = <<>> /\ m \in 2 .. 3
      BY <2>3, <2>9
    <3>2. p \o s = p /\ base64decode(s) = <<>>
      BY <3>1, ShortStrings, StrictChunks
    <3>3. base64decode(p \o s) = Decoded(p, m)
      <4>1. Decoded(p, m) \in String
        <5>1. m \in 1 .. 4
          OBVIOUS
        <5>2. QED
          BY <2>7, <5>1, ThreesAre
      <4>2. QED
        BY <2>5, <3>2, <4>1, ShortStrings
    <3> DEFINE g == Cut(p, 0, m)
               t == Cut(p, m, 4)
    <3>4. /\ m \in 0 .. Len(p) /\ 4 \in 0 .. Len(p) /\ 0 \in 0 .. m /\ m \in 0 .. 4 /\ m - 0 = m
          /\ \A j \in 1 .. m : 0 + j = j /\ j <= m /\ j \in 1 .. 4
          /\ 1 \in 1 .. 4 - m /\ m + 1 \in 1 .. 4 /\ ~(m + 1 <= m)
      BY <2>7, <3>1
    <3>5. g \in String /\ Len(g) = m /\ \A j \in 1 .. m : g[j] = p[j]
      <4>1. g \in String /\ Len(g) = m - 0 /\ \A j \in 1 .. m - 0 : g[j] = p[0 + j]
        BY <3>4, CutIs
      <4>2. QED
        BY <3>4, <4>1
    <3>6. t \in String /\ t[1] = Pad
      <4>1. t \in String /\ \A j \in 1 .. 4 - m : t[j] = p[m + j]
        BY <3>4, CutIs
      <4>2. QED
        BY <2>7, <3>4, <4>1
    <3>7. g \o t = p
      <4>1. 0 \in 0 .. m /\ m \in 0 .. 4 /\ 4 \in 0 .. Len(p)
        BY <3>4
      <4>2. g \o t = Cut(p, 0, 4)
        BY <4>1, CutsJoin
      <4>3. Cut(p, 0, 4) = p
        BY <2>7, CutEnds
      <4>4. QED
        BY <4>2, <4>3
    <3> HIDE DEF g, t
    <3>8. g \in DigitGroups
      <4>1. \A j \in 1 .. m : is_base64(g[j])
        BY <2>7, <3>4, <3>5, Zenon
      <4>2. m \in 1 .. 4
        OBVIOUS
      <4>3. QED
        BY <3>5, <4>1, <4>2 DEF AllDigits, DigitGroups, UpTo
    <3>9. ~is_base64(t[1])
      BY <3>6, ValueIs64, Zenon
    <3>10. Base64Decoding(g \o t) = Decoded(g, Len(g))
      BY <3>6, <3>8, <3>9, LenientChunks
    <3>11. Decoded(g, m) = Decoded(p, m)
      <4>1. ASSUME NEW j \in 1 .. 4 PROVE ValueAt(g, j, m) = ValueAt(p, j, m)
        <5>1. CASE j <= m
          <6>1. j \in 1 .. m
            BY <5>1
          <6>2. QED
            BY <3>5, <6>1 DEF ValueAt
        <5>2. CASE ~(j <= m)
          BY <5>2 DEF ValueAt
        <5>3. QED
          BY <5>1, <5>2
      <4>2. 1 \in 1 .. 4 /\ 2 \in 1 .. 4 /\ 3 \in 1 .. 4 /\ 4 \in 1 .. 4
        OBVIOUS
      <4>3. /\ ValueAt(g, 1, m) = ValueAt(p, 1, m) /\ ValueAt(g, 2, m) = ValueAt(p, 2, m)
            /\ ValueAt(g, 3, m) = ValueAt(p, 3, m) /\ ValueAt(g, 4, m) = ValueAt(p, 4, m)
        BY <4>1, <4>2
      <4>4. Threes(g, m) = Threes(p, m)
        BY <4>3 DEF Threes
      <4>5. QED
        BY <4>4 DEF Decoded
    <3>12. QED
      BY <3>2, <3>3, <3>5, <3>7, <3>10, <3>11
  <2>10. QED
    BY <2>8, <2>9
<1>3. Chunks(4, Holds)
  BY <1>1, <1>2 DEF Chunks
<1> HIDE DEF Holds
<1>4. \A t \in String : t \in Holds
  <2>1. 4 \in Nat \ {0}
    OBVIOUS
  <2>2. QED
    BY <1>3, <2>1, ChunkByChunk
<1>5. QED
  BY <1>4 DEF Holds, StrictWithinLenient

(* encoding.cc:3-78, hash.cc:131-237: the two encoders of Base64 agree, and *)
(* both decoders undo both of them, whatever the bytes.                     *)
LEMMA Base64AlwaysAgrees ==
  ASSUME NEW data \in String
  PROVE  Base64Agrees(data)
<1> DEFINE Enc(d) == base64encode(d)
           Holds == {d \in String : Accepted(Enc(d)) /\ base64decode(Enc(d)) = d}
<1>1. ASSUME NEW g \in UpTo(3), NEW t \in String, Accepted(t), t = <<>> \/ Len(g) = 3
      PROVE  Accepted(Encoded(g) \o t) /\ base64decode(Encoded(g) \o t) = g \o base64decode(t)
  <2>1. PICK m \in 2 .. 4 : m = Len(g) + 1
    BY EncodedShape
  <2>2. /\ Encoded(g) \in String /\ Len(Encoded(g)) = 4 /\ Shape(Encoded(g), m)
        /\ Decoded(Encoded(g), m) = g
    BY <2>1, EncodedShape
  <2>3. m < 4 => t = <<>>
    <3>1. Len(g) = 3 => m = 4
      BY <2>1
    <3>2. QED
      BY <1>1, <3>1
  <2>4. Accepted(Encoded(g) \o t)
    BY <1>1, <2>2, <2>3, StrictChunks
  <2>5. base64decode(Encoded(g) \o t) = Decoded(Encoded(g), m) \o base64decode(t)
    <3>1. /\ Encoded(g) \in String /\ t \in String /\ Accepted(t)
          /\ Accepted(Encoded(g) \o t) /\ Shape(Encoded(g), m)
      BY <1>1, <2>2, <2>4
    <3>2. QED
      BY <3>1, StrictChunks, ZenonT(40)
  <2>6. QED
    BY <2>2, <2>4, <2>5
<1>2. ASSUME NEW d \in String, Len(d) < 3 PROVE d \in Holds
  <2>1. CASE d = <<>>
    BY <2>1, EncodersAre, StrictChunks, ShortStrings
  <2>2. CASE d # <<>>
    <3>1. PICK l \in Nat : l = Len(d)
      BY StringFacts
    <3>2. l # 0
      BY <2>2, <3>1, EmptySeq DEF String
    <3>3. l \in 1 .. 3
      BY <1>2, <3>1, <3>2
    <3>4. d \in UpTo(3)
      BY <3>1, <3>3 DEF UpTo
    <3>5. Enc(d) = Encoded(d) /\ Encoded(d) \in String
      BY <3>4, EncodersAre, EncodedShape
    <3>6. <<>> \in String /\ Accepted(<<>>) /\ base64decode(<<>>) = <<>>
      BY StrictChunks, ShortStrings
    <3>7. Accepted(Encoded(d) \o <<>>) /\ base64decode(Encoded(d) \o <<>>) = d \o <<>>
      BY <1>1, <3>4, <3>6
    <3>8. Encoded(d) \o <<>> = Encoded(d) /\ d \o <<>> = d
      BY <3>5, ShortStrings
    <3>9. QED
      BY <3>5, <3>7, <3>8
  <2>3. QED
    BY <2>1, <2>2
<1>3. ASSUME NEW p \in String, NEW s \in String, Len(p) = 3, s \in Holds PROVE p \o s \in Holds
  <2>1. p \in UpTo(3) /\ p \o s \in String /\ Enc(s) \in String
    BY <1>3, JoinedIs, EncodersAre DEF UpTo
  <2>2. Enc(p \o s) = Encoded(p) \o Enc(s)
    BY <1>3, EncodersAre
  <2>3. Accepted(Enc(s)) /\ base64decode(Enc(s)) = s
    BY <1>3
  <2>4. /\ Accepted(Encoded(p) \o Enc(s))
        /\ base64decode(Encoded(p) \o Enc(s)) = p \o base64decode(Enc(s))
    BY <1>1, <1>3, <2>1, <2>3
  <2>5. QED
    BY <2>1, <2>2, <2>3, <2>4
<1>4. Chunks(3, Holds)
  BY <1>2, <1>3 DEF Chunks
<1>5. Accepted(Enc(data)) /\ base64decode(Enc(data)) = data
  <2> HIDE DEF Holds
  <2>1. 3 \in Nat \ {0}
    OBVIOUS
  <2>2. \A d \in String : d \in Holds
    BY <1>4, <2>1, ChunkByChunk
  <2>3. QED
    BY <2>2 DEF Holds
<1>6. Enc(data) \in String /\ Base64Encoding(data) = Enc(data)
  BY EncodersAre
<1>7. Base64Decoding(Enc(data)) = data
  <2>1. StrictWithinLenient(Enc(data))
    BY <1>6, StrictAlwaysWithinLenient
  <2>2. QED
    BY <1>5, <2>1 DEF StrictWithinLenient
<1>8. QED
  BY <1>5, <1>6, <1>7 DEF Base64Agrees

(* The number of padding characters is a number.                            *)
LEMMA PaddingIs ==
  ASSUME NEW g \in String
  PROVE  padding(g) \in Nat /\ Lesser(2, padding(g)) \in 0 .. 2
<1> DEFINE P == {j \in 1 .. Len(g) : g[j] = Pad}
<1>1. 1 \in Int /\ Len(g) \in Int
  BY StringFacts
<1>2. IsFiniteSet(1 .. Len(g))
  BY <1>1, FS_Interval
<1>3. P \in SUBSET (1 .. Len(g))
  OBVIOUS
<1>4. IsFiniteSet(P)
  <2> HIDE DEF P
  <2>1. QED
    BY <1>2, <1>3, FS_Subset
<1>5. padding(g) = Cardinality(P)
  BY Zenon DEF padding
<1> HIDE DEF P
<1>6. padding(g) \in Nat
  BY <1>4, <1>5, FS_CardinalityType
<1>7. QED
  BY <1>6 DEF Lesser

(* hash.cc:133-188: nothing is written past the buffer that was reserved.   *)
LEMMA NothingOverruns ==
  ASSUME NEW src \in String
  PROVE  NoOverrun(src)
<1> DEFINE groups == Groups(src, 4)
           n == Len(groups)
           S == 0 .. n
           m == [k \in S |-> k]
           next == [k \in S |-> IF k = 0 THEN 0 ELSE k - 1]
           zero == [k \in S |-> 0]
           three == [k \in S |-> IF k = 0 THEN 0 ELSE 3 - Lesser(2, padding(groups[k]))]
           step == [k \in S |-> [v \in Int |-> v + three[k]]]
           Body(f) == [k \in S |-> IF k = 0 THEN 0
                                   ELSE f[k - 1] + 3 - Lesser(2, padding(groups[k]))]
           Written[k \in 0 .. Len(groups)] ==
             IF k = 0 THEN 0 ELSE Written[k - 1] + 3 - Lesser(2, padding(groups[k]))
<1>1. /\ groups \in Seq(UpTo(4)) /\ n = (Len(src) + 4 - 1) \div 4 /\ n \in Nat
      /\ \A k \in 1 .. n : groups[k] = Group(src, 4, k) /\ groups[k] \in String
  <2>1. 4 \in {2, 3, 4}
    OBVIOUS
  <2>2. /\ groups \in Seq(UpTo(4)) /\ n = (Len(src) + 4 - 1) \div 4
        /\ (Len(src) + 4 - 1) \div 4 \in Nat
        /\ \A k \in 1 .. (Len(src) + 4 - 1) \div 4 : groups[k] = Group(src, 4, k)
    BY <2>1, GroupsAre
  <2> HIDE DEF groups
  <2>3. \A k \in 1 .. n : groups[k] \in UpTo(4)
    BY <2>2, ElementOfSeq
  <2>4. QED
    BY <2>2, <2>3 DEF UpTo
<1> HIDE DEF groups, n
<1>2. ASSUME NEW k \in S PROVE /\ k \in Nat /\ (k # 0 => k - 1 \in S /\ k \in 1 .. n)
                               /\ three[k] \in 0 .. 3
  <2>1. k \in Nat /\ (k # 0 => k - 1 \in S /\ k \in 1 .. n)
    BY <1>1
  <2>2. ASSUME k # 0 PROVE 3 - Lesser(2, padding(groups[k])) \in 0 .. 3
    <3>1. Lesser(2, padding(groups[k])) \in 0 .. 2
      BY <1>1, <2>1, <2>2, PaddingIs
    <3>2. QED
      BY <3>1
  <2>3. QED
    BY <2>1, <2>2
<1>3. ASSUME NEW k \in S, k # 0, NEW v \in Int
      PROVE  v + 3 - Lesser(2, padding(groups[k])) = v + three[k]
  <2>1. k \in 1 .. n
    BY <1>2, <1>3
  <2>2. PICK q \in 0 .. 2 : q = Lesser(2, padding(groups[k]))
    BY <1>1, <2>1, PaddingIs
  <2>3. three[k] = 3 - q
    BY <1>3, <2>2
  <2>4. v + 3 - q = v + (3 - q)
    OBVIOUS
  <2>5. QED
    BY <2>2, <2>3, <2>4
<1>4. Recursion(S, Int, {0}, m, zero, step, next)
  <2>1. m \in [S -> Nat] /\ zero \in [S -> Int]
    BY <1>2
  <2>2. next \in [S -> S]
    <3>1. 0 \in S
      BY <1>1
    <3>2. QED
      BY <1>2, <3>1
  <2>3. step \in [S -> [Int -> Int]]
    <3>1. ASSUME NEW k \in S, NEW v \in Int PROVE v + three[k] \in Int
      <4>1. three[k] \in Int
        BY <1>2
      <4> HIDE DEF three
      <4>2. QED
        BY <4>1
    <3> HIDE DEF S, three
    <3>2. QED
      BY <3>1
  <2>4. \A k \in S \ {0} : m[next[k]] < m[k]
    BY <1>2
  <2> HIDE DEF m, next, zero, step
  <2>5. QED
    BY <2>1, <2>2, <2>3, <2>4 DEF Recursion
<1>5. PICK f \in [S -> Int] : \A x \in S : Recurs(f, x, {0}, zero, step, next)
  <2> HIDE DEF S, m, next, zero, step
  <2>1. QED
    BY <1>4, RecursionIsDefined
<1>6. ASSUME NEW k \in S
      PROVE  f[k] = IF k = 0 THEN 0 ELSE f[k - 1] + 3 - Lesser(2, padding(groups[k]))
  <2>1. f[k] = IF k \in {0} THEN zero[k] ELSE step[k][f[next[k]]]
    BY <1>5 DEF Recurs
  <2>2. CASE k = 0
    BY <2>1, <2>2
  <2>3. CASE k # 0
    <3>1. k - 1 \in S /\ next[k] = k - 1
      BY <1>2, <2>3
    <3>2. f[k - 1] \in Int
      BY <3>1
    <3>3. step[k][f[k - 1]] = f[k - 1] + three[k]
      <4> HIDE DEF three, S
      <4>1. QED
        BY <3>2
    <3>4. f[k - 1] + 3 - Lesser(2, padding(groups[k])) = f[k - 1] + three[k]
      BY <1>3, <2>3, <3>2
    <3> HIDE DEF three, step, next
    <3>5. QED
      BY <2>1, <2>3, <3>1, <3>3, <3>4
  <2>4. QED
    BY <2>2, <2>3
<1>7. f = Body(f)
  <2> HIDE DEF three
  <2>1. QED
    BY <1>6
<1>8. Written = CHOOSE h : h = Body(h)
  BY DEF n
<1>9. Written = Body(Written)
  <2> HIDE DEF Written, Body
  <2>1. QED
    BY <1>7, <1>8
<1> HIDE DEF Written
<1>10. ASSUME NEW k \in S
       PROVE  Written[k] = IF k = 0 THEN 0
                           ELSE Written[k - 1] + 3 - Lesser(2, padding(groups[k]))
  BY <1>9
<1>11. \A k \in S : Written[k] \in Int /\ Written[k] <= 3 * k
  <2> DEFINE Holds == {k \in S : Written[k] \in Int /\ Written[k] <= 3 * k}
  <2>1. 0 \in Holds
    <3>1. 0 \in S
      BY <1>1
    <3>2. QED
      BY <1>10, <3>1
  <2>2. ASSUME NEW k \in 0 .. n - 1, k \in Holds PROVE k + 1 \in Holds
    <3>1. k \in S /\ k + 1 \in S /\ k + 1 # 0 /\ (k + 1) - 1 = k /\ k \in Nat
      BY <1>1
    <3>2. PICK v \in Int : v = Written[k] /\ v <= 3 * k
      BY <2>2
    <3>3. PICK w \in 0 .. 3 : w = three[k + 1]
      BY <1>2, <3>1
    <3>4. Written[k + 1] = v + w
      <4>1. Written[k + 1] = v + 3 - Lesser(2, padding(groups[k + 1]))
        BY <1>10, <3>1, <3>2
      <4>2. v + 3 - Lesser(2, padding(groups[k + 1])) = v + three[k + 1]
        BY <1>3, <3>1
      <4> HIDE DEF three
      <4>3. QED
        BY <3>3, <4>1, <4>2
    <3>5. v + w \in Int /\ v + w <= 3 * (k + 1)
      BY <3>1, <3>2
    <3>6. QED
      BY <3>1, <3>4, <3>5
  <2> HIDE DEF Holds, S
  <2>3. Climbs(n, Holds)
    BY <2>1, <2>2 DEF Climbs
  <2>4. \A k \in 0 .. n : k \in Holds
    BY <1>1, <2>3, Climbing
  <2>5. QED
    BY <2>4 DEF Holds, S
<1>12. ASSUME NEW k \in 0 .. n, \A i \in 1 .. k : GoodGroup(groups[i], i = n)
       PROVE  Written[k] <= (Len(src) * 3) \div 4
  <2>1. PICK l \in Nat : l = Len(src)
    BY StringFacts
  <2>2. 4 * k <= l
    <3>1. CASE k = 0
      BY <2>1, <3>1
    <3>2. CASE k # 0
      <4>1. k \in 1 .. k /\ k \in 1 .. n /\ k \in Nat
        BY <1>1, <3>2
      <4>2. Len(groups[k]) = 4
        BY <1>12, <4>1 DEF GoodGroup
      <4>3. Len(groups[k]) = Lesser(4, l - 4 * (k - 1))
        <5>1. 4 \in {2, 3, 4} /\ k \in 1 .. (Len(src) + 4 - 1) \div 4
          BY <1>1, <4>1
        <5>2. Len(Group(src, 4, k)) = Lesser(4, Len(src) - 4 * (k - 1))
          BY <5>1, GroupIs
        <5>3. QED
          BY <1>1, <2>1, <4>1, <5>2
      <4>4. 4 <= l - 4 * (k - 1)
        <5>1. l - 4 * (k - 1) \in Int
          BY <4>1
        <5>2. PICK z \in Int : z = l - 4 * (k - 1)
          BY <5>1
        <5>3. Lesser(4, z) = 4
          BY <4>2, <4>3, <5>2
        <5>4. 4 <= z
          BY <5>3 DEF Lesser
        <5>5. QED
          BY <5>2, <5>4
      <4>5. QED
        BY <4>1, <4>4
    <3>3. QED
      BY <3>1, <3>2
  <2>3. Written[k] \in Int /\ Written[k] <= 3 * k /\ k \in Nat
    BY <1>1, <1>11
  <2>4. PICK v \in Int : v = Written[k]
    BY <2>3
  <2>5. v <= 3 * k /\ 4 * k <= l => v <= (l * 3) \div 4
    BY <2>3
  <2>6. QED
    BY <2>1, <2>2, <2>3, <2>4, <2>5
<1>13. QED
  BY <1>12 DEF NoOverrun, Written, groups, n

IsHex(c) == c \in DOMAIN HexValue
UpperCase(c) == IF c > 96 THEN c - 32 ELSE c
LowerCase(c) == IF c \in 65 .. 70 THEN c + 32 ELSE c

(* A hexadecimal digit has its value, in either case.                       *)
LEMMA HexDigitsAre ==
  /\ \A v \in 0 .. 15 : /\ HexDigit(v) \in 0 .. 255 /\ UpperCase(HexDigit(v)) \in 0 .. 255
                        /\ IsHex(HexDigit(v)) /\ HexValue[HexDigit(v)] = v
                        /\ IsHex(UpperCase(HexDigit(v))) /\ HexValue[UpperCase(HexDigit(v))] = v
  /\ \A c : IsHex(c) => /\ c \in 0 .. 255 /\ HexValue[c] \in 0 .. 15
                        /\ HexDigit(HexValue[c]) = LowerCase(c)
<1>1. ASSUME NEW c
      PROVE  /\ IsHex(c) <=> c \in 48 .. 57 \/ c \in 65 .. 70 \/ c \in 97 .. 102
             /\ c \in 48 .. 57 => HexValue[c] = c - 48
             /\ c \in 65 .. 70 => HexValue[c] = c - 55
             /\ c \in 97 .. 102 => HexValue[c] = c - 87
  <2> DEFINE D == 48 .. 57 \cup 65 .. 70 \cup 97 .. 102
  <2>1. HexValue = [x \in D |-> IF x < 58 THEN x - 48 ELSE IF x < 71 THEN x - 55 ELSE x - 87]
    BY DEF HexValue
  <2>2. IsHex(c) <=> c \in D
    BY <2>1 DEF IsHex
  <2>3. c \in D => HexValue[c] = IF c < 58 THEN c - 48 ELSE IF c < 71 THEN c - 55 ELSE c - 87
    BY <2>1
  <2>4. QED
    BY <2>2, <2>3
<1>2. ASSUME NEW v \in 0 .. 15
      PROVE  /\ v > 9 => /\ HexDigit(v) = v + 87 /\ v + 87 \in 97 .. 102
                         /\ UpperCase(v + 87) = v + 55 /\ v + 55 \in 65 .. 70
             /\ ~(v > 9) => /\ HexDigit(v) = v + 48 /\ v + 48 \in 48 .. 57
                            /\ UpperCase(v + 48) = v + 48
  BY DEF HexDigit, UpperCase
<1>3. ASSUME NEW v \in 0 .. 15
      PROVE  /\ HexDigit(v) \in 0 .. 255 /\ UpperCase(HexDigit(v)) \in 0 .. 255
             /\ IsHex(HexDigit(v)) /\ HexValue[HexDigit(v)] = v
             /\ IsHex(UpperCase(HexDigit(v))) /\ HexValue[UpperCase(HexDigit(v))] = v
  <2>1. CASE v > 9
    <3>1. /\ HexDigit(v) = v + 87 /\ v + 87 \in 97 .. 102
          /\ UpperCase(v + 87) = v + 55 /\ v + 55 \in 65 .. 70
      BY <1>2, <2>1
    <3>2. IsHex(v + 87) /\ HexValue[v + 87] = (v + 87) - 87
      BY <1>1, <3>1
    <3>3. IsHex(v + 55) /\ HexValue[v + 55] = (v + 55) - 55
      BY <1>1, <3>1
    <3>4. (v + 87) - 87 = v /\ (v + 55) - 55 = v /\ v + 87 \in 0 .. 255 /\ v + 55 \in 0 .. 255
      OBVIOUS
    <3>5. QED
      BY <3>1, <3>2, <3>3, <3>4
  <2>2. CASE ~(v > 9)
    <3>1. HexDigit(v) = v + 48 /\ v + 48 \in 48 .. 57 /\ UpperCase(v + 48) = v + 48
      BY <1>2, <2>2
    <3>2. IsHex(v + 48) /\ HexValue[v + 48] = (v + 48) - 48
      BY <1>1, <3>1
    <3>3. (v + 48) - 48 = v /\ v + 48 \in 0 .. 255
      OBVIOUS
    <3>4. QED
      BY <3>1, <3>2, <3>3
  <2>3. QED
    BY <2>1, <2>2
<1>4. ASSUME NEW c, IsHex(c)
      PROVE  c \in 0 .. 255 /\ HexValue[c] \in 0 .. 15 /\ HexDigit(HexValue[c]) = LowerCase(c)
  <2>1. CASE c \in 48 .. 57
    <3>1. HexValue[c] = c - 48 /\ c - 48 \in 0 .. 15 /\ ~(c - 48 > 9) /\ (c - 48) + 48 = c
      BY <1>1, <2>1
    <3>2. HexDigit(c - 48) = (c - 48) + 48
      BY <1>2, <3>1
    <3>3. LowerCase(c) = c
      BY <2>1 DEF LowerCase
    <3>4. QED
      BY <2>1, <3>1, <3>2, <3>3
  <2>2. CASE c \in 65 .. 70
    <3>1. HexValue[c] = c - 55 /\ c - 55 \in 0 .. 15 /\ c - 55 > 9 /\ (c - 55) + 87 = c + 32
      BY <1>1, <2>2
    <3>2. HexDigit(c - 55) = (c - 55) + 87
      BY <1>2, <3>1
    <3>3. LowerCase(c) = c + 32
      BY <2>2 DEF LowerCase
    <3>4. QED
      BY <2>2, <3>1, <3>2, <3>3
  <2>3. CASE c \in 97 .. 102
    <3>1. HexValue[c] = c - 87 /\ c - 87 \in 0 .. 15 /\ c - 87 > 9 /\ (c - 87) + 87 = c
      BY <1>1, <2>3
    <3>2. HexDigit(c - 87) = (c - 87) + 87
      BY <1>2, <3>1
    <3>3. LowerCase(c) = c
      BY <2>3 DEF LowerCase
    <3>4. QED
      BY <2>3, <3>1, <3>2, <3>3
  <2>4. QED
    BY <1>1, <1>4, <2>1, <2>2, <2>3
<1>5. QED
  BY <1>3, <1>4

(* The two halves of a byte.                                                *)
HighHalf(b) == b \div 16
LowHalf(b) == b % 16

(* They are below 16, and make the byte again.                              *)
LEMMA HalvesAre ==
  /\ \A b \in 0 .. 255 : /\ HighHalf(b) \in 0 .. 15 /\ LowHalf(b) \in 0 .. 15
                         /\ HighHalf(b) * 16 + LowHalf(b) = b
                         /\ Shr(b, 4) = HighHalf(b) /\ Low(b, 4) = LowHalf(b)
  /\ \A h, l \in 0 .. 15 : /\ h * 16 + l \in 0 .. 255
                           /\ HighHalf(h * 16 + l) = h /\ LowHalf(h * 16 + l) = l
<1>1. ASSUME NEW b \in 0 .. 255
      PROVE  /\ HighHalf(b) \in 0 .. 15 /\ LowHalf(b) \in 0 .. 15
             /\ HighHalf(b) * 16 + LowHalf(b) = b
             /\ Shr(b, 4) = HighHalf(b) /\ Low(b, 4) = LowHalf(b)
  <2>1. PICK h \in 0 .. 15, l \in 0 .. 15 : b = 16 * h + l /\ b \div 16 = h /\ b % 16 = l
    BY HighLow
  <2>2. h * 16 + l = b
    BY <2>1
  <2>3. Shr(b, 4) = b \div 16 /\ Low(b, 4) = b % 16
    <3>1. Shifts(b)
      BY ShiftsAre
    <3>2. QED
      BY <3>1 DEF Shifts
  <2>4. QED
    BY <2>1, <2>2, <2>3 DEF HighHalf, LowHalf
<1>2. ASSUME NEW h \in 0 .. 15, NEW l \in 0 .. 15
      PROVE  /\ h * 16 + l \in 0 .. 255
             /\ HighHalf(h * 16 + l) = h /\ LowHalf(h * 16 + l) = l
  <2>1. PICK n \in Int : n = h * 16 + l /\ n = 16 * h + l
    OBVIOUS
  <2>2. n \div 16 = h /\ n % 16 = l
    BY <2>1
  <2>3. n \in 0 .. 255
    BY <2>1
  <2>4. QED
    BY <2>1, <2>2, <2>3 DEF HighHalf, LowHalf
<1>3. QED
  BY <1>1, <1>2

(* What hexstring_from_data() writes.                                       *)
HexBy == [b \in 0 .. 255 |-> <<HexDigit(Shr(b, 4)), HexDigit(Low(b, 4))>>]
HexOf(h, data) ==
  /\ h \in String /\ Len(h) = 2 * Len(data)
  /\ \A i \in 1 .. Len(data) : /\ h[2 * i - 1] = HexDigit(HighHalf(data[i]))
                               /\ h[2 * i] = HexDigit(LowHalf(data[i]))

(* Two characters for each byte, the higher half first.                     *)
LEMMA HexIs ==
  ASSUME NEW data \in String
  PROVE  HexOf(hexstring_from_data(data), data)
<1>1. ASSUME NEW b \in 0 .. 255
      PROVE  /\ HexBy[b] = <<HexDigit(HighHalf(b)), HexDigit(LowHalf(b))>>
             /\ HexBy[b] \in String /\ Len(HexBy[b]) = 2
             /\ HexBy[b][1] = HexDigit(HighHalf(b)) /\ HexBy[b][2] = HexDigit(LowHalf(b))
  <2>1. PICK x \in 0 .. 255, y \in 0 .. 255 :
          x = HexDigit(HighHalf(b)) /\ y = HexDigit(LowHalf(b))
    BY HalvesAre, HexDigitsAre, Zenon
  <2>2. HexBy[b] = <<x, y>>
    BY <2>1, HalvesAre, Zenon DEF HexBy
  <2>3. <<x, y>> \in String /\ Len(<<x, y>>) = 2 /\ <<x, y>>[1] = x /\ <<x, y>>[2] = y
    BY DEF String
  <2>4. QED
    BY <2>1, <2>2, <2>3, Zenon
<1>2. HexBy \in [0 .. 255 -> String]
  BY <1>1 DEF HexBy
<1>3. ASSUME NEW d \in String PROVE hexstring_from_data(d) = Spread(d, HexBy)
  <2>1. \A i \in DOMAIN d : d[i] \in 0 .. 255
    BY StringFacts
  <2>2. MapSeq(d, LAMBDA b : <<HexDigit(Shr(b, 4)), HexDigit(Low(b, 4))>>) = Each(d, HexBy)
    BY <2>1 DEF MapSeq, Each, HexBy
  <2>3. QED
    BY <2>2, Zenon DEF hexstring_from_data, Spread
<1> DEFINE Holds == {d \in String : HexOf(Spread(d, HexBy), d)}
<1>4. <<>> \in Holds
  <2>1. Spread(<<>>, HexBy) = <<>> /\ <<>> \in String /\ Len(<<>>) = 0
    BY <1>2, SpreadIs, ShortStrings
  <2>2. QED
    BY <2>1 DEF HexOf
<1>5. ASSUME NEW s \in Seq(0 .. 255), NEW e \in 0 .. 255, s \in Holds
      PROVE  s \o <<e>> \in Holds
  <2> DEFINE p == Spread(s, HexBy)
             q == HexBy[e]
             u == s \o <<e>>
  <2>1. s \in String /\ <<e>> \in String /\ Len(<<e>>) = 1 /\ <<e>>[1] = e
    BY ShortStrings DEF String
  <2>2. Spread(u, HexBy) = p \o q
    BY <1>2, <2>1, SpreadIs, ZenonT(40)
  <2>3. /\ p \in String /\ Len(p) = 2 * Len(s)
        /\ \A i \in 1 .. Len(s) : /\ p[2 * i - 1] = HexDigit(HighHalf(s[i]))
                                  /\ p[2 * i] = HexDigit(LowHalf(s[i]))
    BY <1>5 DEF HexOf
  <2>4. /\ q \in String /\ Len(q) = 2
        /\ q[1] = HexDigit(HighHalf(e)) /\ q[2] = HexDigit(LowHalf(e))
    BY <1>1
  <2>5. PICK n \in Nat : n = Len(s)
    BY <2>1, StringFacts
  <2>6. u \in String /\ Len(u) = n + 1 /\ u[n + 1] = e /\ \A i \in 1 .. n : u[i] = s[i]
    <3>1. /\ u \in String /\ Len(u) = Len(s) + Len(<<e>>)
          /\ \A i \in 1 .. Len(s) : u[i] = s[i]
          /\ \A i \in 1 .. Len(<<e>>) : u[Len(s) + i] = <<e>>[i]
      BY <2>1, JoinedIs
    <3>2. 1 \in 1 .. 1
      OBVIOUS
    <3>3. QED
      BY <2>1, <2>5, <3>1, <3>2
  <2> HIDE DEF p, q, u
  <2>7. /\ p \o q \in String /\ Len(p \o q) = 2 * n + 2
        /\ \A i \in 1 .. 2 * n : (p \o q)[i] = p[i]
        /\ (p \o q)[2 * n + 1] = q[1] /\ (p \o q)[2 * n + 2] = q[2]
    <3>1. Len(p) = 2 * n
      BY <2>3, <2>5
    <3>2. /\ p \o q \in String /\ Len(p \o q) = Len(p) + Len(q)
          /\ \A i \in 1 .. Len(p) : (p \o q)[i] = p[i]
          /\ \A i \in 1 .. Len(q) : (p \o q)[Len(p) + i] = q[i]
      BY <2>3, <2>4, JoinedIs
    <3>3. 1 \in 1 .. 2 /\ 2 \in 1 .. 2
      OBVIOUS
    <3>4. QED
      BY <2>4, <3>1, <3>2, <3>3
  <2>8. ASSUME NEW i \in 1 .. n + 1
        PROVE  /\ (p \o q)[2 * i - 1] = HexDigit(HighHalf(u[i]))
               /\ (p \o q)[2 * i] = HexDigit(LowHalf(u[i]))
    <3>1. CASE i = n + 1
      <4>1. 2 * i - 1 = 2 * n + 1 /\ 2 * i = 2 * n + 2
        BY <3>1
      <4>2. QED
        BY <2>4, <2>6, <2>7, <3>1, <4>1
    <3>2. CASE i # n + 1
      <4>1. i \in 1 .. n /\ 2 * i - 1 \in 1 .. 2 * n /\ 2 * i \in 1 .. 2 * n
        BY <3>2
      <4>2. QED
        BY <2>3, <2>5, <2>6, <2>7, <4>1
    <3>3. QED
      BY <3>1, <3>2
  <2>9. Len(p \o q) = 2 * Len(u)
    BY <2>6, <2>7
  <2>10. HexOf(p \o q, u)
    BY <2>6, <2>7, <2>8, <2>9 DEF HexOf
  <2>11. QED
    BY <2>2, <2>6, <2>10 DEF u
<1>6. Grows(0 .. 255, Holds)
  <2> HIDE DEF Holds
  <2>1. QED
    BY <1>4, <1>5 DEF Grows
<1>7. \A d \in Seq(0 .. 255) : d \in Holds
  <2> HIDE DEF Holds
  <2>1. QED
    BY <1>6, Growing
<1>8. QED
  BY <1>3, <1>7 DEF String

(* What data_from_hexstring() reads out of pairs of hexadecimal digits.     *)
ReadFrom(r, src, n) ==
  /\ r \in String /\ Len(r) = n
  /\ \A k \in 1 .. n : r[k] = HexValue[src[2 * k - 1]] * 16 + HexValue[src[2 * k]]

(* One byte for each pair, the higher half first.                           *)
LEMMA UnhexIs ==
  ASSUME NEW src \in String, NEW n \in Nat, Len(src) = 2 * n,
         \A i \in 1 .. Len(src) : IsHex(src[i])
  PROVE  ReadFrom(data_from_hexstring(src), src, n)
<1> DEFINE h == Groups(src, 2)
           Pair(g) == HexValue[g[1]] * 16 + HexValue[g[2]]
<1>1. DOMAIN src = 1 .. Len(src) /\ Len(src) = 2 * n /\ \A i \in 1 .. Len(src) : IsHex(src[i])
  BY StringFacts
<1>2. ToSet(src) \subseteq DOMAIN HexValue
  BY <1>1 DEF ToSet, IsHex
<1>3. Len(src) % 2 = 0
  BY <1>1
<1>4. data_from_hexstring(src) = MapSeq(h, Pair)
  BY <1>2, <1>3, Zenon DEF data_from_hexstring
<1>5. 2 \in {2, 3, 4} /\ (2 * n + 2 - 1) \div 2 = n
  OBVIOUS
<1>6. h \in Seq(UpTo(2)) /\ Len(h) = n /\ \A k \in 1 .. n : h[k] = Group(src, 2, k)
  BY <1>1, <1>5, GroupsAre
<1>7. DOMAIN h = 1 .. n
  BY <1>6, LenProperties
<1> HIDE DEF h
<1>8. ASSUME NEW k \in 1 .. n
      PROVE  /\ 2 * k - 1 \in 1 .. 2 * n /\ 2 * k \in 1 .. 2 * n
             /\ h[k][1] = src[2 * k - 1] /\ h[k][2] = src[2 * k]
  <2>1. PICK a \in Nat : a = 2 * (k - 1) /\ a + 1 = 2 * k - 1 /\ a + 2 = 2 * k /\ a + 2 <= 2 * n
    <3>1. /\ 2 * (k - 1) \in Nat /\ 2 * (k - 1) + 1 = 2 * k - 1 /\ 2 * (k - 1) + 2 = 2 * k
          /\ 2 * (k - 1) + 2 <= 2 * n
      OBVIOUS
    <3>2. QED
      BY <3>1
  <2>2. k \in 1 .. (Len(src) + 2 - 1) \div 2
    BY <1>1, <1>5
  <2>3. /\ Len(Group(src, 2, k)) = Lesser(2, Len(src) - a)
        /\ \A j \in 1 .. Lesser(2, Len(src) - a) : Group(src, 2, k)[j] = src[a + j]
    BY <1>5, <2>1, <2>2, GroupFrom
  <2>4. Lesser(2, Len(src) - a) = 2
    <3>1. PICK z \in Int : z = 2 * n - a /\ 2 <= z
      BY <2>1
    <3>2. Lesser(2, z) = 2
      BY <3>1 DEF Lesser
    <3>3. QED
      BY <1>1, <3>1, <3>2
  <2>5. 1 \in 1 .. 2 /\ 2 \in 1 .. 2
    OBVIOUS
  <2>6. Group(src, 2, k)[1] = src[a + 1] /\ Group(src, 2, k)[2] = src[a + 2]
    BY <2>3, <2>4, <2>5
  <2>7. 2 * k - 1 \in 1 .. 2 * n /\ 2 * k \in 1 .. 2 * n
    OBVIOUS
  <2>8. QED
    BY <1>6, <2>1, <2>6, <2>7
<1>9. ASSUME NEW k \in 1 .. n
      PROVE  /\ Pair(h[k]) = HexValue[src[2 * k - 1]] * 16 + HexValue[src[2 * k]]
             /\ Pair(h[k]) \in 0 .. 255
  <2>1. IsHex(src[2 * k - 1]) /\ IsHex(src[2 * k])
    BY <1>1, <1>8
  <2>2. HexValue[src[2 * k - 1]] \in 0 .. 15 /\ HexValue[src[2 * k]] \in 0 .. 15
    BY <2>1, HexDigitsAre
  <2>3. HexValue[src[2 * k - 1]] * 16 + HexValue[src[2 * k]] \in 0 .. 255
    BY <2>2, HalvesAre, Zenon
  <2>4. QED
    BY <1>8, <2>3
<1> DEFINE r == MapSeq(h, Pair)
<1>10. r = [k \in 1 .. n |-> Pair(h[k])]
  BY <1>7 DEF MapSeq
<1> HIDE DEF Pair, r
<1>11. r \in [1 .. n -> 0 .. 255]
  BY <1>9, <1>10
<1>12. r \in String /\ Len(r) = n
  BY <1>11, IsSequence DEF String
<1>13. \A k \in 1 .. n : r[k] = HexValue[src[2 * k - 1]] * 16 + HexValue[src[2 * k]]
  BY <1>9, <1>10
<1>14. QED
  BY <1>4, <1>12, <1>13 DEF ReadFrom, r

(* Every other position of a string of pairs.                               *)
LEMMA Halving ==
  ASSUME NEW n \in Nat, NEW i \in 1 .. 2 * n
  PROVE  \E k \in 1 .. n : i = 2 * k - 1 \/ i = 2 * k
<1>1. CASE i % 2 = 0
  <2>1. i \div 2 \in 1 .. n /\ i = 2 * (i \div 2)
    BY <1>1
  <2>2. QED
    BY <2>1
<1>2. CASE i % 2 = 1
  <2>1. (i + 1) \div 2 \in 1 .. n /\ i = 2 * ((i + 1) \div 2) - 1
    BY <1>2
  <2>2. QED
    BY <2>1
<1>3. i % 2 = 0 \/ i % 2 = 1
  OBVIOUS
<1>4. QED
  BY <1>1, <1>2, <1>3

(* hash.cc:368-493: hexadecimal reads back what was written, in either case.*)
LEMMA HexAlwaysReadsBack ==
  ASSUME NEW data \in String
  PROVE  HexReadsBack(data)
<1> DEFINE h == hexstring_from_data(data)
           upper == MapSeq(h, LAMBDA c : IF c > 96 THEN c - 32 ELSE c)
<1>1. PICK n \in Nat : n = Len(data)
  BY StringFacts
<1>2. /\ h \in String /\ Len(h) = 2 * n
      /\ \A i \in 1 .. n : /\ h[2 * i - 1] = HexDigit(HighHalf(data[i]))
                           /\ h[2 * i] = HexDigit(LowHalf(data[i]))
  BY <1>1, HexIs DEF HexOf
<1>3. \A i \in 1 .. n : data[i] \in 0 .. 255
  BY <1>1, StringFacts
<1> HIDE DEF h
<1>4. ASSUME NEW t \in String, Len(t) = 2 * n,
             \A i \in 1 .. n : /\ IsHex(t[2 * i - 1]) /\ HexValue[t[2 * i - 1]] = HighHalf(data[i])
                               /\ IsHex(t[2 * i]) /\ HexValue[t[2 * i]] = LowHalf(data[i])
      PROVE  data_from_hexstring(t) = data
  <2>1. ASSUME NEW i \in 1 .. Len(t) PROVE IsHex(t[i])
    <3>1. PICK k \in 1 .. n : i = 2 * k - 1 \/ i = 2 * k
      BY <1>4, Halving
    <3>2. QED
      BY <1>4, <3>1
  <2>2. ReadFrom(data_from_hexstring(t), t, n)
    BY <1>4, <2>1, UnhexIs
  <2>3. /\ data_from_hexstring(t) \in String /\ Len(data_from_hexstring(t)) = n
        /\ \A k \in 1 .. n :
             data_from_hexstring(t)[k] = HexValue[t[2 * k - 1]] * 16 + HexValue[t[2 * k]]
    BY <2>2 DEF ReadFrom
  <2>4. ASSUME NEW k \in 1 .. n PROVE data_from_hexstring(t)[k] = data[k]
    <3>1. data_from_hexstring(t)[k] = HighHalf(data[k]) * 16 + LowHalf(data[k])
      BY <1>4, <2>3
    <3>2. QED
      BY <1>3, <3>1, HalvesAre
  <2>5. QED
    BY <1>1, <2>3, <2>4, SameString
<1>5. data_from_hexstring(h) = data
  <2>1. ASSUME NEW i \in 1 .. n
        PROVE  /\ IsHex(h[2 * i - 1]) /\ HexValue[h[2 * i - 1]] = HighHalf(data[i])
               /\ IsHex(h[2 * i]) /\ HexValue[h[2 * i]] = LowHalf(data[i])
    <3>1. HighHalf(data[i]) \in 0 .. 15 /\ LowHalf(data[i]) \in 0 .. 15
      BY <1>3, HalvesAre
    <3>2. QED
      BY <1>2, <3>1, HexDigitsAre
  <2>2. QED
    BY <1>2, <1>4, <2>1
<1>6. DOMAIN h = 1 .. 2 * n /\ 2 * n \in Nat
  BY <1>2, StringFacts
<1>7. upper = [i \in 1 .. 2 * n |-> UpperCase(h[i])]
  BY <1>6 DEF MapSeq, UpperCase
<1> HIDE DEF upper
<1>8. ASSUME NEW i \in 1 .. n
      PROVE  /\ 2 * i - 1 \in 1 .. 2 * n /\ 2 * i \in 1 .. 2 * n
             /\ upper[2 * i - 1] \in 0 .. 255 /\ upper[2 * i] \in 0 .. 255
             /\ IsHex(upper[2 * i - 1]) /\ HexValue[upper[2 * i - 1]] = HighHalf(data[i])
             /\ IsHex(upper[2 * i]) /\ HexValue[upper[2 * i]] = LowHalf(data[i])
  <2>1. 2 * i - 1 \in 1 .. 2 * n /\ 2 * i \in 1 .. 2 * n
    OBVIOUS
  <2>2. /\ upper[2 * i - 1] = UpperCase(HexDigit(HighHalf(data[i])))
        /\ upper[2 * i] = UpperCase(HexDigit(LowHalf(data[i])))
    BY <1>2, <1>7, <2>1
  <2>3. HighHalf(data[i]) \in 0 .. 15 /\ LowHalf(data[i]) \in 0 .. 15
    BY <1>3, HalvesAre
  <2>4. QED
    BY <2>1, <2>2, <2>3, HexDigitsAre
<1>9. upper \in String /\ Len(upper) = 2 * n
  <2>1. ASSUME NEW i \in 1 .. 2 * n PROVE upper[i] \in 0 .. 255
    <3>1. PICK k \in 1 .. n : i = 2 * k - 1 \/ i = 2 * k
      BY Halving
    <3>2. QED
      BY <1>8, <3>1
  <2>2. upper \in [1 .. 2 * n -> 0 .. 255]
    BY <1>7, <2>1
  <2>3. QED
    BY <1>6, <2>2, IsSequence DEF String
<1>10. data_from_hexstring(upper) = data
  BY <1>4, <1>8, <1>9
<1>11. QED
  BY <1>5, <1>10, Zenon DEF HexReadsBack, h, upper

(* hash.cc:368-493: what was read is written as it was, but in lower case.  *)
LEMMA UnhexAlwaysReadsBack ==
  ASSUME NEW src \in String, data_from_hexstring(src) # Throws
  PROVE  hexstring_from_data(data_from_hexstring(src))
           = MapSeq(src, LAMBDA c : IF c \in 65 .. 70 THEN c + 32 ELSE c)
<1>1. Len(src) \in Nat /\ DOMAIN src = 1 .. Len(src)
  BY StringFacts
<1>2. Len(src) % 2 = 0 /\ ToSet(src) \subseteq DOMAIN HexValue
  BY Zenon DEF data_from_hexstring
<1>3. \A i \in 1 .. Len(src) : IsHex(src[i])
  BY <1>1, <1>2 DEF ToSet, IsHex
<1>4. PICK n \in Nat : Len(src) = 2 * n
  <2>1. PICK l \in Nat : l = Len(src) /\ l % 2 = 0
    BY <1>1, <1>2, Zenon
  <2>2. l \div 2 \in Nat /\ l = 2 * (l \div 2)
    BY <2>1
  <2>3. QED
    BY <2>1, <2>2
<1> DEFINE d == data_from_hexstring(src)
           h == hexstring_from_data(d)
           low == MapSeq(src, LAMBDA c : IF c \in 65 .. 70 THEN c + 32 ELSE c)
<1>5. /\ d \in String /\ Len(d) = n
      /\ \A k \in 1 .. n : d[k] = HexValue[src[2 * k - 1]] * 16 + HexValue[src[2 * k]]
  BY <1>3, <1>4, UnhexIs DEF ReadFrom
<1> HIDE DEF d
<1>6. /\ h \in String /\ Len(h) = 2 * n
      /\ \A k \in 1 .. n : /\ h[2 * k - 1] = HexDigit(HighHalf(d[k]))
                           /\ h[2 * k] = HexDigit(LowHalf(d[k]))
  BY <1>5, HexIs DEF HexOf
<1> HIDE DEF h
<1>7. ASSUME NEW k \in 1 .. n
      PROVE  /\ 2 * k - 1 \in 1 .. 2 * n /\ 2 * k \in 1 .. 2 * n
             /\ h[2 * k - 1] = LowerCase(src[2 * k - 1]) /\ h[2 * k] = LowerCase(src[2 * k])
  <2>1. 2 * k - 1 \in 1 .. 2 * n /\ 2 * k \in 1 .. 2 * n
    OBVIOUS
  <2>2. IsHex(src[2 * k - 1]) /\ IsHex(src[2 * k])
    BY <1>3, <1>4, <2>1, Zenon
  <2>3. PICK x \in 0 .. 15, y \in 0 .. 15 :
          /\ x = HexValue[src[2 * k - 1]] /\ y = HexValue[src[2 * k]]
          /\ HexDigit(x) = LowerCase(src[2 * k - 1]) /\ HexDigit(y) = LowerCase(src[2 * k])
    BY <2>2, HexDigitsAre, ZenonT(40)
  <2>4. d[k] = x * 16 + y
    BY <1>5, <2>3
  <2>5. HighHalf(d[k]) = x /\ LowHalf(d[k]) = y
    BY <2>4, HalvesAre
  <2>6. QED
    BY <1>6, <2>1, <2>3, <2>5
<1>8. low = [i \in 1 .. 2 * n |-> LowerCase(src[i])]
  BY <1>1, <1>4 DEF MapSeq, LowerCase
<1> HIDE DEF low
<1>9. ASSUME NEW i \in 1 .. 2 * n PROVE h[i] = low[i]
  <2>1. PICK k \in 1 .. n : i = 2 * k - 1 \/ i = 2 * k
    BY Halving
  <2>2. QED
    BY <1>7, <1>8, <2>1
<1>10. DOMAIN h = 1 .. 2 * n /\ h = [i \in 1 .. 2 * n |-> h[i]]
  BY <1>6, StringFacts, LenProperties DEF String
<1>11. h = low
  BY <1>8, <1>9, <1>10
<1>12. QED
  BY <1>11, Zenon DEF h, d, low

(* The bytes of a number of three.                                          *)
OfBytes(x, y, z) == (z * 256 + y) * 256 + x
HasBytes(n, x, y, z) == n % 256 = x /\ (n \div 256) % 256 = y /\ (n \div 65536) % 256 = z

(* Dividing by the powers of 256 gives them back.                           *)
LEMMA BytesOf ==
  ASSUME NEW x \in 0 .. 255, NEW y \in 0 .. 255, NEW z \in 0 .. 255
  PROVE  HasBytes(OfBytes(x, y, z), x, y, z)
<1>1. PICK n \in Nat : n = OfBytes(x, y, z)
  BY DEF OfBytes
<1>2. n = 256 * (z * 256 + y) + x
  BY <1>1 DEF OfBytes
<1>3. n % 256 = x /\ n \div 256 = z * 256 + y
  <2>1. 256 \in Nat /\ z * 256 + y \in Int /\ x \in Nat /\ x < 256 /\ n \in Int
    OBVIOUS
  <2>2. QED
    BY <1>2, <2>1, QuotientOf
<1>4. (z * 256 + y) % 256 = y
  <2>1. PICK q \in Int : q = z * 256 + y /\ q = 256 * z + y
    OBVIOUS
  <2>2. 256 \in Nat /\ z \in Int /\ y \in Nat /\ y < 256
    OBVIOUS
  <2>3. q % 256 = y
    BY <2>1, <2>2, QuotientOf
  <2>4. QED
    BY <2>1, <2>3
<1>5. n \div 65536 = z
  <2>1. PICK low \in Nat : low = y * 256 + x /\ low < 65536
    OBVIOUS
  <2>2. n = 65536 * z + low
    BY <1>2, <2>1
  <2>3. 65536 \in Nat /\ z \in Int /\ n \in Int
    OBVIOUS
  <2>4. QED
    BY <2>1, <2>2, <2>3, QuotientOf
<1>6. z % 256 = z
  OBVIOUS
<1>7. QED
  BY <1>1, <1>3, <1>4, <1>5, <1>6 DEF HasBytes

(* encoding.h:18-61: a word of up to three bytes reads back what was        *)
(* written.                                                                 *)
LEMMA FixedAlwaysReadsBack ==
  ASSUME NEW data \in String
  PROVE  FixedReadsBack(data)
<1>1. SUFFICES ASSUME Len(data) <= 3
               PROVE  EncodeFixed(DecodeFixed(data), Len(data)) = data
  BY DEF FixedReadsBack
<1>2. PICK l \in 0 .. 3 : l = Len(data)
  <2>1. PICK k \in Nat : k = Len(data)
    BY StringFacts
  <2>2. k \in 0 .. 3
    BY <1>1, <2>1
  <2>3. QED
    BY <2>1, <2>2
<1> DEFINE r == Reverse(data)
           v == DecodeFixed(data)
<1>3. /\ r \in Seq(Int) /\ Len(r) = l /\ \A i \in 1 .. l : r[i] = data[l - i + 1]
      /\ \A i \in 1 .. l : data[i] \in 0 .. 255
  BY <1>2, Reversed, StringIsNumbers, StringFacts
<1>4. v = Packed(r, 256) /\ 256 \in Nat
  BY DEF DecodeFixed
<1> HIDE DEF r, v
<1>5. \A j \in 1 .. 3 : Filled(data, j) = IF j <= l THEN data[j] ELSE 0
  BY <1>2 DEF Filled
<1>6. ASSUME NEW j \in 1 .. 3 PROVE Filled(data, j) \in 0 .. 255
  <2>1. CASE j <= l
    <3>1. j \in 1 .. l
      BY <2>1
    <3>2. QED
      BY <1>3, <1>5, <2>1, <3>1, Zenon
  <2>2. CASE ~(j <= l)
    BY <1>5, <2>2
  <2>3. QED
    BY <2>1, <2>2
<1>7. PICK x \in 0 .. 255, y \in 0 .. 255, z \in 0 .. 255 :
        x = Filled(data, 1) /\ y = Filled(data, 2) /\ z = Filled(data, 3)
  <2>1. 1 \in 1 .. 3 /\ 2 \in 1 .. 3 /\ 3 \in 1 .. 3
    OBVIOUS
  <2>2. QED
    BY <1>6, <2>1, Zenon
<1>8. PICK n \in Int : n = OfBytes(x, y, z)
  BY DEF OfBytes
<1>9. ASSUME l # 0 PROVE v = n
  <2>1. CASE l = 1
    <3>1. x = data[1] /\ y = 0 /\ z = 0 /\ 1 \in 1 .. l /\ l - 1 + 1 = 1
      BY <1>5, <1>7, <2>1
    <3>2. v = x
      BY <1>3, <1>4, <2>1, <3>1, PackedShort
    <3>3. OfBytes(x, 0, 0) = x
      BY DEF OfBytes
    <3>4. QED
      BY <1>8, <3>1, <3>2, <3>3
  <2>2. CASE l = 2
    <3>1. /\ x = data[1] /\ y = data[2] /\ z = 0 /\ 1 \in 1 .. l /\ 2 \in 1 .. l
          /\ l - 1 + 1 = 2 /\ l - 2 + 1 = 1
      BY <1>5, <1>7, <2>2
    <3>2. r[1] = y /\ r[2] = x
      BY <1>3, <3>1
    <3>3. v = y * 256 + x
      BY <1>3, <1>4, <2>2, <3>2, PackedShort
    <3>4. OfBytes(x, y, 0) = y * 256 + x
      BY DEF OfBytes
    <3>5. QED
      BY <1>8, <3>1, <3>3, <3>4
  <2>3. CASE l = 3
    <3>1. /\ x = data[1] /\ y = data[2] /\ z = data[3]
          /\ 1 \in 1 .. l /\ 2 \in 1 .. l /\ 3 \in 1 .. l
          /\ l - 1 + 1 = 3 /\ l - 2 + 1 = 2 /\ l - 3 + 1 = 1
      BY <1>5, <1>7, <2>3
    <3>2. r[1] = z /\ r[2] = y /\ r[3] = x
      BY <1>3, <3>1
    <3>3. v = (z * 256 + y) * 256 + x
      <4>1. Packed(r, 256) = (r[1] * 256 + r[2]) * 256 + r[3]
        BY <1>3, <1>4, <2>3, PackedShort
      <4>2. QED
        BY <1>4, <3>2, <4>1
    <3>4. QED
      BY <1>8, <3>3 DEF OfBytes
  <2>4. QED
    BY <1>9, <2>1, <2>2, <2>3
<1>10. EncodeFixed(v, l) = [i \in 1 .. l |-> Char8(Shr(v, 8 * (i - 1)))]
  BY DEF EncodeFixed
<1>11. ASSUME NEW i \in 1 .. l PROVE Char8(Shr(v, 8 * (i - 1))) = data[i]
  <2>1. v = n /\ i \in 1 .. 3 /\ i <= l
    BY <1>9
  <2>2. n % 256 = x /\ (n \div 256) % 256 = y /\ (n \div 65536) % 256 = z
    <3>1. HasBytes(OfBytes(x, y, z), x, y, z)
      BY BytesOf, Zenon
    <3>2. QED
      BY <1>8, <3>1 DEF HasBytes
  <2>3. Shr(n, 16) = n \div 65536 /\ Shr(n, 8) = n \div 256 /\ Shr(n, 0) = n
    <3>1. Shifts(n)
      BY ShiftsAre
    <3>2. QED
      BY <3>1 DEF Shifts
  <2>4. n \div 65536 \in Int /\ n \div 256 \in Int
    OBVIOUS
  <2>5. ASSUME NEW w \in Int PROVE Char8(w) = w % 256
    <3>1. Shifts(w)
      BY ShiftsAre
    <3>2. QED
      BY <3>1 DEF Shifts, Char8
  <2>6. CASE i = 1
    <3>1. 8 * (i - 1) = 0 /\ x = data[1]
      BY <1>5, <1>7, <2>1, <2>6
    <3>2. QED
      BY <2>1, <2>2, <2>3, <2>5, <2>6, <3>1
  <2>7. CASE i = 2
    <3>1. 8 * (i - 1) = 8 /\ y = data[2]
      BY <1>5, <1>7, <2>1, <2>7
    <3>2. QED
      BY <2>1, <2>2, <2>3, <2>4, <2>5, <2>7, <3>1
  <2>8. CASE i = 3
    <3>1. 8 * (i - 1) = 16 /\ z = data[3]
      BY <1>5, <1>7, <2>1, <2>8
    <3>2. QED
      BY <2>1, <2>2, <2>3, <2>4, <2>5, <2>8, <3>1
  <2>9. QED
    BY <2>1, <2>6, <2>7, <2>8
<1>12. data = [i \in 1 .. l |-> data[i]]
  BY <1>2, LenProperties DEF String
<1>13. QED
  BY <1>2, <1>10, <1>11, <1>12 DEF v

(* encoding.*, hash.cc: the codecs read back what they wrote.               *)
LEMMA CodecsAlwaysReadBack ==
  ASSUME NEW data \in String
  PROVE  CodecsReadBack(data)
<1>1. Base64Agrees(data) /\ StrictWithinLenient(data) /\ NoOverrun(data)
  BY Base64AlwaysAgrees, StrictAlwaysWithinLenient, NothingOverruns
<1>2. HexReadsBack(data) /\ FixedReadsBack(data)
  BY HexAlwaysReadsBack, FixedAlwaysReadsBack
<1>3. data_from_hexstring(data) # Throws =>
        hexstring_from_data(data_from_hexstring(data))
          = MapSeq(data, LAMBDA c : IF c \in 65 .. 70 THEN c + 32 ELSE c)
  BY UnhexAlwaysReadsBack, Zenon
<1>4. QED
  BY <1>1, <1>2, <1>3, Zenon DEF CodecsReadBack

(* What of a string goes into a hash word by word, and what is left over.   *)
Mixed(data, words, tail, q) ==
  /\ \A k \in 1 .. q, j \in 1 .. 4 : words[k][j] = data[4 * (k - 1) + j]
  /\ tail \in String /\ Len(tail) = Len(data) - 4 * q
  /\ \A j \in 1 .. Len(data) - 4 * q : tail[j] = data[4 * q + j]

(* Whole words come from the front and the rest from behind them: nothing   *)
(* is skipped.                                                              *)
LEMMA MixedIs ==
  ASSUME NEW data \in String
  PROVE  Mixed(data, Blocks(data, Len(data)), Tail4(data, Len(data)), Len(data) \div 4)
<1>1. PICK n \in Nat : n = Len(data)
  BY StringFacts
<1>2. PICK q \in Nat : q = n \div 4 /\ 4 * q <= n
  <2>1. n \div 4 \in Nat /\ 4 * (n \div 4) <= n
    OBVIOUS
  <2>2. QED
    BY <2>1
<1>3. 4 \in {2, 3, 4}
  OBVIOUS
<1> DEFINE h == Groups(data, 4)
           c == (n + 4 - 1) \div 4
<1>4. h \in Seq(UpTo(4)) /\ Len(h) = c /\ c \in Nat /\ \A k \in 1 .. c : h[k] = Group(data, 4, k)
  BY <1>1, <1>3, GroupsAre
<1>5. q <= c
  BY <1>2
<1> HIDE DEF h, c
<1>6. SubSeq(data, 1, n) = data
  <2>1. Cut(data, 0, n) = data
    BY <1>1, CutEnds
  <2>2. 0 + 1 = 1
    OBVIOUS
  <2>3. QED
    BY <2>1, <2>2 DEF Cut
<1>7. Blocks(data, n) = SubSeq(h, 1, q)
  BY <1>2, <1>6 DEF Blocks, h
<1>8. ASSUME NEW k \in 1 .. q PROVE SubSeq(h, 1, q)[k] = h[k]
  <2>1. h \in Seq(UpTo(4)) /\ 1 \in 1 .. Len(h) + 1 /\ q \in 1 - 1 .. Len(h) /\ q - 1 + 1 = q
    BY <1>4, <1>5
  <2>2. k \in 1 .. q - 1 + 1 /\ 1 + k - 1 = k
    BY <2>1
  <2>3. \A i \in 1 .. q - 1 + 1 : SubSeq(h, 1, q)[i] = h[1 + i - 1]
    BY <2>1, SubSeqProperties
  <2>4. QED
    BY <2>2, <2>3
<1>9. ASSUME NEW k \in 1 .. q, NEW j \in 1 .. 4
      PROVE  Blocks(data, n)[k][j] = data[4 * (k - 1) + j]
  <2>1. k \in 1 .. c
    BY <1>4, <1>5
  <2>2. Blocks(data, n)[k] = Group(data, 4, k)
    BY <1>4, <1>7, <1>8, <2>1
  <2>3. PICK a \in Nat : a = 4 * (k - 1) /\ a + 4 <= 4 * q
    <3>1. 4 * (k - 1) \in Nat /\ 4 * (k - 1) + 4 <= 4 * q
      OBVIOUS
    <3>2. QED
      BY <3>1
  <2>4. \A i \in 1 .. Lesser(4, n - a) : Group(data, 4, k)[i] = data[a + i]
    <3>1. k \in 1 .. (Len(data) + 4 - 1) \div 4
      BY <1>1, <2>1 DEF c
    <3>2. \A i \in 1 .. Lesser(4, Len(data) - a) : Group(data, 4, k)[i] = data[a + i]
      BY <1>3, <2>3, <3>1, GroupFrom
    <3>3. QED
      BY <1>1, <3>2
  <2>5. Lesser(4, n - a) = 4
    <3>1. PICK z \in Int : z = n - a /\ 4 <= z
      BY <1>2, <2>3
    <3>2. Lesser(4, z) = 4
      BY <3>1 DEF Lesser
    <3>3. QED
      BY <3>1, <3>2
  <2>6. QED
    BY <2>2, <2>3, <2>4, <2>5
<1>10. Tail4(data, n) = Cut(data, 4 * q, n)
  BY <1>2 DEF Tail4, Cut
<1>11. /\ Tail4(data, n) \in String /\ Len(Tail4(data, n)) = n - 4 * q
       /\ \A j \in 1 .. n - 4 * q : Tail4(data, n)[j] = data[4 * q + j]
  <2>1. PICK a \in Nat : a = 4 * q /\ a \in 0 .. n /\ n \in 0 .. Len(data)
    BY <1>1, <1>2
  <2>2. /\ Cut(data, a, n) \in String /\ Len(Cut(data, a, n)) = n - a
        /\ \A j \in 1 .. n - a : Cut(data, a, n)[j] = data[a + j]
    BY <2>1, CutIs
  <2>3. QED
    BY <1>10, <2>1, <2>2
<1>12. QED
  BY <1>1, <1>2, <1>9, <1>11 DEF Mixed

(* What went in says what the string was.                                   *)
LEMMA MixedOnce ==
  ASSUME NEW a \in String, NEW b \in String, Len(a) = Len(b), NEW words, NEW tail, NEW rest,
         Mixed(a, words, tail, Len(a) \div 4), Mixed(b, words, rest, Len(a) \div 4),
         \A j \in 1 .. Len(tail) : tail[j] = rest[j]
  PROVE  a = b
<1>1. PICK n \in Nat : n = Len(a)
  BY StringFacts
<1>2. PICK q \in Nat : q = n \div 4 /\ 4 * q <= n
  <2>1. n \div 4 \in Nat /\ 4 * (n \div 4) <= n
    OBVIOUS
  <2>2. QED
    BY <2>1
<1>3. Mixed(a, words, tail, q) /\ Mixed(b, words, rest, q) /\ Len(b) = n
  BY <1>1, <1>2
<1>4. ASSUME NEW i \in 1 .. n PROVE a[i] = b[i]
  <2>1. CASE i <= 4 * q
    <3>1. PICK k \in 1 .. q, j \in 1 .. 4 : i = 4 * (k - 1) + j
      <4>1. (i - 1) \div 4 + 1 \in 1 .. q /\ ((i - 1) % 4) + 1 \in 1 .. 4
            /\ i = 4 * (((i - 1) \div 4 + 1) - 1) + (((i - 1) % 4) + 1)
        BY <2>1
      <4>2. QED
        BY <4>1
    <3>2. words[k][j] = a[4 * (k - 1) + j] /\ words[k][j] = b[4 * (k - 1) + j]
      BY <1>3 DEF Mixed
    <3>3. QED
      BY <3>1, <3>2
  <2>2. CASE ~(i <= 4 * q)
    <3>1. PICK j \in 1 .. n - 4 * q : i = 4 * q + j
      <4>1. i - 4 * q \in 1 .. n - 4 * q /\ i = 4 * q + (i - 4 * q)
        BY <2>2
      <4>2. QED
        BY <4>1
    <3>2. Len(tail) = n - 4 * q /\ tail[j] = a[4 * q + j] /\ rest[j] = b[4 * q + j]
      BY <1>1, <1>3 DEF Mixed
    <3>3. tail[j] = rest[j]
      BY <3>2
    <3>4. QED
      BY <3>1, <3>2, <3>3
  <2>3. QED
    BY <2>1, <2>2
<1>5. QED
  BY <1>1, <1>3, <1>4, SameString

(* A string without a NUL is all of what its C string is.                   *)
LEMMA CStringIs ==
  ASSUME NEW src \in String, \A i \in 1 .. Len(src) : src[i] # NUL
  PROVE  CString(src) = src
<1> DEFINE t == Append(src, NUL)
           J == {i \in 1 .. Len(t) : t[i] = NUL}
           N == {NUL}
<1>1. NUL \in 0 .. 255 /\ NUL \in N
  BY DEF NUL
<1>2. PICK n \in Nat : n = Len(src)
  BY StringFacts
<1>3. PICK d \in 0 .. Len(src) : Stopped(src, N, d) /\ J # {} /\ Min(J) = d + 1
  <2>1. StopsAt(J, src, NUL, N)
    BY DEF StopsAt
  <2> HIDE DEF J, t, N
  <2>2. QED
    BY <1>1, <2>1, FirstStop
<1>4. SelectInSeq(t, LAMBDA c : c = NUL) = IF J # {} THEN Min(J) ELSE 0
  BY DEF SelectInSeq
<1>5. CString(src) = SubSeq(src, 1, SelectInSeq(t, LAMBDA c : c = NUL) - 1)
  BY DEF CString
<1> HIDE DEF J, t
<1>6. d = n
  <2>1. Stopped(src, N, n)
    BY <1>2 DEF Stopped
  <2>2. Stopped(src, N, d)
    BY <1>3
  <2> HIDE DEF N
  <2>3. QED
    BY <2>1, <2>2, StopsOnce
<1>7. (n + 1) - 1 = n /\ 0 + 1 = 1
  OBVIOUS
<1>8. CString(src) = Cut(src, 0, n)
  BY <1>3, <1>4, <1>5, <1>6, <1>7 DEF Cut
<1>9. QED
  BY <1>2, <1>8, CutEnds

(* The same, of its characters as a set.                                    *)
LEMMA WholeCString ==
  ASSUME NEW src \in String, NUL \notin ToSet(src)
  PROVE  CString(src) = src
<1>1. \A i \in 1 .. Len(src) : src[i] # NUL
  BY StringFacts DEF ToSet
<1>2. QED
  BY <1>1, CStringIs

(* hash.cc:5-91, 97-107, 506-536: every byte, and how many there are, goes  *)
(* into the hash.                                                           *)
LEMMA EveryByteAlwaysCounts ==
  ASSUME NEW a \in String, NEW b \in String
  PROVE  EveryByteCounts(a, b)
<1>1. ASSUME murmur3_hash(a, Len(a), 0) = murmur3_hash(b, Len(b), 0) PROVE a = b
  <2> DEFINE q == Len(a) \div 4
             TailOf(s) == IF Len(a) % 4 = 0 THEN <<>> ELSE TailWord(Tail4(s, Len(a)))
  <2>1. Len(a) = Len(b)
    BY <1>1 DEF murmur3_hash
  <2>2. Blocks(a, Len(a)) = Blocks(b, Len(a)) /\ TailOf(a) = TailOf(b)
    BY <1>1, <2>1 DEF murmur3_hash
  <2>3. PICK n \in Nat : n = Len(a)
    BY StringFacts
  <2>4. /\ Mixed(a, Blocks(a, n), Tail4(a, n), n \div 4)
        /\ Mixed(b, Blocks(a, n), Tail4(b, n), n \div 4)
    BY <2>1, <2>2, <2>3, MixedIs
  <2>5. Len(Tail4(a, n)) = n - 4 * (n \div 4) /\ Len(Tail4(b, n)) = n - 4 * (n \div 4)
    BY <2>1, <2>3, <2>4 DEF Mixed
  <2>6. PICK l \in 0 .. 3 : l = n - 4 * (n \div 4) /\ (l = 0 <=> n % 4 = 0)
    <3>1. n - 4 * (n \div 4) \in 0 .. 3 /\ (n - 4 * (n \div 4) = 0 <=> n % 4 = 0)
      OBVIOUS
    <3>2. QED
      BY <3>1
  <2>7. ASSUME NEW j \in 1 .. Len(Tail4(a, n)) PROVE Tail4(a, n)[j] = Tail4(b, n)[j]
    <3>1. j \in 1 .. l /\ l # 0 /\ j \in 1 .. 4 /\ j <= l
      BY <2>5, <2>6
    <3>2. TailWord(Tail4(a, n)) = TailWord(Tail4(b, n))
      BY <2>2, <2>3, <2>6, <3>1
    <3>3. TailWord(Tail4(a, n))[j] = Tail4(a, n)[j] /\ TailWord(Tail4(b, n))[j] = Tail4(b, n)[j]
      BY <2>5, <2>6, <3>1 DEF TailWord
    <3>4. QED
      BY <3>2, <3>3
  <2>8. QED
    BY <2>1, <2>3, <2>4, <2>7, MixedOnce
<1>2. ASSUME Hash(a, Len(a), 0) = Hash(b, Len(b), 0) PROVE a = b
  <2>1. <<0, Len(a)>> = <<0, Len(b)>>
    BY <1>2 DEF Hash
  <2>2. Len(a) = Len(b)
    BY <2>1
  <2>3. Blocks(a, Len(a)) = Blocks(b, Len(a)) /\ Tail4(a, Len(a)) = Tail4(b, Len(a))
    BY <1>2, <2>2 DEF Hash
  <2>4. PICK n \in Nat : n = Len(a)
    BY StringFacts
  <2>5. /\ Mixed(a, Blocks(a, n), Tail4(a, n), n \div 4)
        /\ Mixed(b, Blocks(a, n), Tail4(b, n), n \div 4)
    BY <2>2, <2>3, <2>4, MixedIs
  <2>6. \A j \in 1 .. Len(Tail4(a, n)) : Tail4(a, n)[j] = Tail4(b, n)[j]
    BY <2>3, <2>4
  <2>7. QED
    BY <2>2, <2>4, <2>5, <2>6, MixedOnce
<1>3. ASSUME NEW c \in String, NUL \notin ToSet(c)
      PROVE  /\ murmur3_hash_str(c, 0) = murmur3_hash(c, Len(c), 0)
             /\ quick_hash(c) = c
  BY <1>3, WholeCString DEF murmur3_hash_str, quick_hash
<1>4. ASSUME NUL \notin ToSet(a) \cup ToSet(b)
      PROVE  NUL \notin ToSet(a) /\ NUL \notin ToSet(b)
  BY <1>4
<1>5. QED
  BY <1>1, <1>2, <1>3, <1>4 DEF EveryByteCounts

(* hash.cc:93-95, 109-121: what the other overloads miss.                   *)
LEMMA SomeHashesAlwaysMissBytes ==
  ASSUME NEW a \in String, NEW b \in String
  PROVE  SomeHashesMissBytes(a, b)
<1>1. PICK n \in Nat, m \in Nat : n = Len(a) /\ m = Len(b)
  BY StringFacts
<1>2. ASSUME n > 0, m > 0
      PROVE  quick_hash_sized(a, n) = quick_hash_sized(b, m) <=> n = m /\ a[1] = b[1]
  <2> DEFINE f == [i \in 1 .. n |-> a[1]]
             g == [i \in 1 .. m |-> b[1]]
  <2>1. quick_hash_sized(a, n) = f /\ quick_hash_sized(b, m) = g
    BY DEF quick_hash_sized
  <2>2. DOMAIN f = 1 .. n /\ DOMAIN g = 1 .. m /\ 1 \in 1 .. n /\ 1 \in 1 .. m
    BY <1>2
  <2>3. f[1] = a[1] /\ g[1] = b[1]
    BY <2>2
  <2>4. n = m /\ a[1] = b[1] => f = g
    OBVIOUS
  <2> HIDE DEF f, g
  <2>5. ASSUME f = g PROVE n = m /\ a[1] = b[1]
    <3>1. 1 .. n = 1 .. m
      BY <2>2, <2>5
    <3>2. n \in 1 .. m /\ m \in 1 .. n
      BY <1>2, <3>1
    <3>3. n = m
      BY <3>2
    <3>4. QED
      BY <2>3, <2>5, <3>3
  <2>6. QED
    BY <2>1, <2>4, <2>5
<1>3. ASSUME NUL \notin ToSet(a), NEW p \in 0 .. n, NEW l \in 0 .. n - p
      PROVE  LET view == SubSeq(a, p + 1, p + l) IN
             /\ murmur3_hash_view(a, p, l, 0) = murmur3_hash(view, l, 0) <=> p + l = n
             /\ quick_hash_view(a, p, l) = quick_hash(view) <=> p + l = n
  <2> DEFINE view == Cut(a, p, p + l)
             c == Cut(a, p, n)
  <2>1. PICK e \in 0 .. n : e = p + l /\ p \in 0 .. e /\ e - p = l
    <3>1. p + l \in 0 .. n /\ p \in 0 .. p + l /\ (p + l) - p = l
      OBVIOUS
    <3>2. QED
      BY <3>1
  <2>2. /\ view \in String /\ Len(view) = l /\ \A i \in 1 .. l : view[i] = a[p + i]
    BY <1>1, <2>1, CutIs
  <2>3. /\ c \in String /\ Len(c) = n - p /\ \A i \in 1 .. n - p : c[i] = a[p + i]
    <3>1. n \in 0 .. Len(a) /\ p \in 0 .. n
      BY <1>1
    <3>2. QED
      BY <3>1, CutIs
  <2>4. \A i \in 1 .. n : a[i] # NUL
    BY <1>1, <1>3, StringFacts DEF ToSet
  <2>5. /\ SubSeq(a, p + 1, p + l) = view /\ SubSeq(a, p + 1, Len(a)) = c
        /\ p + l = n => view = c
    BY <1>1 DEF Cut
  <2> HIDE DEF view, c
  <2>6. CString(c) = c
    <3>1. \A i \in 1 .. n - p : p + i \in 1 .. n
      OBVIOUS
    <3>2. QED
      BY <2>3, <2>4, <3>1, CStringIs
  <2>7. CString(view) = view
    <3>1. \A i \in 1 .. l : p + i \in 1 .. n
      OBVIOUS
    <3>2. QED
      BY <2>2, <2>4, <3>1, CStringIs
  <2>8. /\ murmur3_hash_view(a, p, l, 0) = murmur3_hash(c, n - p, 0)
        /\ quick_hash_view(a, p, l) = c /\ quick_hash(view) = view
    BY <2>3, <2>5, <2>6, <2>7
    DEF murmur3_hash_view, murmur3_hash_str, quick_hash_view, quick_hash
  <2>9. n - p = l <=> p + l = n
    OBVIOUS
  <2>10. ASSUME murmur3_hash(c, n - p, 0) = murmur3_hash(view, l, 0) PROVE p + l = n
    <3>1. n - p = l
      BY <2>10 DEF murmur3_hash
    <3>2. QED
      BY <2>9, <3>1
  <2>11. ASSUME c = view PROVE p + l = n
    BY <2>2, <2>3, <2>9, <2>11
  <2>12. QED
    BY <2>5, <2>8, <2>9, <2>10, <2>11
<1>4. QED
  BY <1>1, <1>2, <1>3 DEF SomeHashesMissBytes

(* A bit is 0 or 1.                                                         *)
TwoTo(k) == 2 ^ k

(* The seventh is what is left of the half.                                 *)
LEMMA BitIs ==
  ASSUME NEW x \in 0 .. 255, NEW i \in 1 .. 8
  PROVE  BitOf(x, i) \in 0 .. 1 /\ (i = 7 => BitOf(x, i) = (x \div 2) % 2)
<1>1. /\ 2 ^ 0 = 1 /\ 2 ^ 1 = 2 /\ 2 ^ 2 = 4 /\ 2 ^ 3 = 8
      /\ 2 ^ 4 = 16 /\ 2 ^ 5 = 32 /\ 2 ^ 6 = 64 /\ 2 ^ 7 = 128
  OBVIOUS
<1>2. /\ TwoTo(0) = 1 /\ TwoTo(1) = 2 /\ TwoTo(2) = 4 /\ TwoTo(3) = 8
      /\ TwoTo(4) = 16 /\ TwoTo(5) = 32 /\ TwoTo(6) = 64 /\ TwoTo(7) = 128
  BY <1>1, SMT DEF TwoTo
<1>3. BitOf(x, i) = (x \div TwoTo(8 - i)) % TwoTo(1)
  BY Zenon DEF BitOf, Low, Shr, TwoTo
<1>4. PICK k \in 0 .. 7 : k = 8 - i /\ (i = 7 => k = 1)
  OBVIOUS
<1>5. k = 0 \/ k = 1 \/ k = 2 \/ k = 3 \/ k = 4 \/ k = 5 \/ k = 6 \/ k = 7
  OBVIOUS
<1>6. PICK p \in Nat \ {0} : p = TwoTo(k) /\ (k = 1 => p = 2)
  BY <1>2, <1>5
<1>7. BitOf(x, i) = (x \div p) % 2
  BY <1>2, <1>3, <1>4, <1>6
<1>8. (x \div p) % 2 \in 0 .. 1
  <2>1. x \div p \in Int
    OBVIOUS
  <2>2. \A v \in Int : v % 2 \in 0 .. 1
    OBVIOUS
  <2>3. QED
    BY <2>1, <2>2
<1>9. QED
  BY <1>4, <1>6, <1>7, <1>8

(* The two pads differ in the bit of value two, and that stays so whatever  *)
(* they are mixed with.                                                     *)
LEMMA PadsDiffer ==
  ASSUME NEW x \in 0 .. 255
  PROVE  Xor(x, 54) # Xor(x, 92)
<1>1. ASSUME NEW y \in 0 .. 255
      PROVE  (Xor(x, y) \div 2) % 2 = (BitOf(x, 7) + BitOf(y, 7)) % 2
  <2> DEFINE s == [i \in 1 .. 8 |-> (BitOf(x, i) + BitOf(y, i)) % 2]
  <2>1. ASSUME NEW i \in 1 .. 8 PROVE (BitOf(x, i) + BitOf(y, i)) % 2 \in 0 .. 1
    <3>1. PICK v \in 0 .. 1, w \in 0 .. 1 : v = BitOf(x, i) /\ w = BitOf(y, i)
      BY BitIs
    <3>2. (v + w) % 2 \in 0 .. 1
      OBVIOUS
    <3>3. QED
      BY <3>1, <3>2
  <2>2. PICK n \in Nat : n = 8
    OBVIOUS
  <2>3. s \in [1 .. n -> Int] /\ \A i \in 1 .. 8 : s[i] \in 0 .. 1
    BY <2>1, <2>2
  <2>4. s[7] = (BitOf(x, 7) + BitOf(y, 7)) % 2
    OBVIOUS
  <2>5. Xor(x, y) = Packed(s, 2)
    BY Zenon DEF Xor
  <2> HIDE DEF s
  <2>6. s \in Seq(Int) /\ Len(s) = 8 /\ 2 \in Nat
    BY <2>2, <2>3, IsSequence
  <2>7. PICK f : PackedBy(f, s, 2)
    BY <2>6, PackedIs
  <2>8. /\ f \in [0 .. Len(s) -> Int] /\ Packed(s, 2) = f[Len(s)]
        /\ \A k \in 1 .. Len(s) : f[k] = f[k - 1] * 2 + s[k]
    BY <2>7 DEF PackedBy
  <2>9. f \in [0 .. 8 -> Int] /\ Packed(s, 2) = f[8]
        /\ \A k \in 1 .. 8 : f[k] = f[k - 1] * 2 + s[k]
    BY <2>6, <2>8
  <2>10. /\ 6 \in 0 .. 8 /\ 7 \in 1 .. 8 /\ 8 \in 1 .. 8 /\ 7 - 1 = 6 /\ 8 - 1 = 7
    OBVIOUS
  <2>11. f[6] \in Int /\ f[7] = f[6] * 2 + s[7] /\ f[8] = f[7] * 2 + s[8]
    BY <2>9, <2>10
  <2>12. PICK e \in Int, v \in 0 .. 1, w \in 0 .. 1 :
           e = f[6] /\ v = s[7] /\ w = s[8] /\ f[8] = (e * 2 + v) * 2 + w
    BY <2>3, <2>10, <2>11
  <2>13. (((e * 2 + v) * 2 + w) \div 2) % 2 = v
    OBVIOUS
  <2>14. QED
    BY <2>4, <2>5, <2>9, <2>12, <2>13
<1>2. 54 \in 0 .. 255 /\ 92 \in 0 .. 255 /\ 7 \in 1 .. 8
  OBVIOUS
<1>3. (54 \div 2) % 2 = 1 /\ (92 \div 2) % 2 = 0
  OBVIOUS
<1>4. BitOf(54, 7) = 1 /\ BitOf(92, 7) = 0
  BY <1>2, <1>3, BitIs
<1>5. PICK v \in 0 .. 1 : v = BitOf(x, 7)
  BY <1>2, BitIs
<1>6. (v + 1) % 2 # (v + 0) % 2
  OBVIOUS
<1>7. (Xor(x, 54) \div 2) % 2 # (Xor(x, 92) \div 2) % 2
  BY <1>1, <1>2, <1>4, <1>5, <1>6
<1>8. QED
  BY <1>7

(* What is asked of OpenSSL: a digest is DigestLength bytes.                *)
DigestsAreBytes ==
  \A m \in String : Digest(m) \in String /\ Len(Digest(m)) = DigestLength

(* A key that is not too long, filled up, is a block.                       *)
LEMMA FilledUp ==
  ASSUME NEW key \in String, Len(key) <= BlockLength
  PROVE  /\ FillUp(key) \in String /\ Len(FillUp(key)) = BlockLength
         /\ \A i \in 1 .. BlockLength :
              FillUp(key)[i] = IF i <= Len(key) THEN key[i] ELSE NUL
<1>1. PICK n \in Nat, l \in Nat : n = BlockLength /\ l = Len(key) /\ l <= n
  BY StringFacts, DigestAssumption
<1>2. PICK d \in Nat : d = n - l
  BY <1>1
<1> DEFINE fill == [i \in 1 .. d |-> NUL]
<1>3. fill \in String /\ Len(fill) = d /\ \A i \in 1 .. d : fill[i] = NUL
  <2>1. /\ fill \in [1 .. d -> 0 .. 255]
        /\ \A i \in 1 .. d : fill[i] = NUL
    BY DEF NUL
  <2> HIDE DEF fill
  <2>2. fill \in Seq(0 .. 255) /\ Len(fill) = d
    BY <2>1, IsSequence
  <2>3. QED
    BY <2>1, <2>2 DEF String
<1> HIDE DEF fill
<1>4. FillUp(key) = key \o fill
  BY <1>1, <1>2, Zenon DEF FillUp, fill
<1>5. /\ FillUp(key) \in String /\ Len(FillUp(key)) = l + d
      /\ \A i \in 1 .. l : FillUp(key)[i] = key[i]
      /\ \A i \in 1 .. d : FillUp(key)[l + i] = fill[i]
  <2>1. /\ key \o fill \in String /\ Len(key \o fill) = Len(key) + Len(fill)
        /\ \A i \in 1 .. Len(key) : (key \o fill)[i] = key[i]
        /\ \A i \in 1 .. Len(fill) : (key \o fill)[Len(key) + i] = fill[i]
    BY <1>3, JoinedIs
  <2>2. QED
    BY <1>1, <1>3, <1>4, <2>1, Zenon
<1>6. l + d = n
  BY <1>1, <1>2
<1>7. ASSUME NEW i \in 1 .. n PROVE FillUp(key)[i] = IF i <= l THEN key[i] ELSE NUL
  <2>1. CASE i <= l
    <3>1. i \in 1 .. l
      BY <2>1
    <3>2. QED
      BY <1>5, <2>1, <3>1
  <2>2. CASE ~(i <= l)
    <3>1. i - l \in 1 .. d /\ l + (i - l) = i
      BY <1>6, <2>2
    <3>2. FillUp(key)[i] = fill[i - l]
      BY <1>5, <3>1
    <3>3. QED
      BY <1>3, <2>2, <3>1, <3>2
  <2>3. QED
    BY <2>1, <2>2
<1>8. QED
  BY <1>1, <1>5, <1>6, <1>7

(* hash.cc:309-338, as RFC 2104 has it: a key that is too long stands for   *)
(* its digest and one that is too short for itself with zeros behind it;    *)
(* the two pads keep the inner and the outer key apart; and a digest can be *)
(* read back from its hexadecimal form.                                     *)
LEMMA KeysAreAlwaysNormalised ==
  ASSUME DigestsAreBytes, NEW t \in String, NEW key \in String
  PROVE  KeysAreNormalised(t, key)
<1>1. PICK n \in Nat, l \in Nat, d \in Nat :
        n = BlockLength /\ l = Len(key) /\ d = DigestLength /\ d <= n
  BY StringFacts, DigestAssumption
<1> DEFINE used == IF l > n THEN Digest(key) ELSE key
<1>2. \A m \in String : Update(<<>>, m) = m
  BY ShortStrings DEF Update
<1>3. \A m \in String : Digest(m) \in String /\ Len(Digest(m)) = d
  BY <1>1 DEF DigestsAreBytes
<1>4. KeyLocal(key) = FillUp(used)
  BY <1>1, <1>2 DEF KeyLocal
<1>5. used \in String /\ Len(used) <= n
  <2>1. CASE l > n
    BY <1>1, <1>3, <2>1
  <2>2. CASE ~(l > n)
    BY <1>1, <2>2
  <2>3. QED
    BY <2>1, <2>2
<1>6. KeyLocal(key) \in String /\ Len(KeyLocal(key)) = n
  BY <1>1, <1>4, <1>5, FilledUp
<1>7. ASSUME NEW other \in String, KeyLocal(key) = KeyLocal(other)
      PROVE  hmac(t, key) = hmac(t, other)
  BY <1>7 DEF hmac
<1>8. ASSUME l > n PROVE hmac(t, key) = hmac(t, Digest(key))
  <2>1. Digest(key) \in String /\ Len(Digest(key)) = d /\ ~(d > n)
    BY <1>1, <1>3
  <2>2. KeyLocal(Digest(key)) = FillUp(Digest(key))
    BY <1>1, <2>1 DEF KeyLocal
  <2>3. QED
    BY <1>4, <1>7, <1>8, <2>1, <2>2
<1>9. ASSUME l < n PROVE hmac(t, key) = hmac(t, Append(key, NUL))
  <2> DEFINE longer == Append(key, NUL)
  <2>1. NUL \in 0 .. 255
    BY DEF NUL
  <2>2. /\ longer \in String /\ Len(longer) = l + 1
        /\ \A i \in 1 .. l + 1 : longer[i] = IF i <= l THEN key[i] ELSE NUL
    <3>1. key \in Seq(0 .. 255)
      BY DEF String
    <3>2. /\ longer \in Seq(0 .. 255) /\ Len(longer) = Len(key) + 1
          /\ \A i \in 1 .. Len(key) : longer[i] = key[i]
          /\ longer[Len(key) + 1] = NUL
      BY <2>1, <3>1, AppendProperties
    <3>3. \A i \in 1 .. l + 1 : (i <= l => i \in 1 .. l) /\ (~(i <= l) => i = l + 1)
      OBVIOUS
    <3> HIDE DEF longer
    <3>4. longer \in String /\ Len(longer) = l + 1
      BY <1>1, <3>2 DEF String
    <3>5. \A i \in 1 .. l : longer[i] = key[i]
      BY <1>1, <3>2
    <3>6. longer[l + 1] = NUL
      BY <1>1, <3>2, Zenon
    <3>7. QED
      BY <3>3, <3>4, <3>5, <3>6
  <2> HIDE DEF longer
  <2>3. l <= n /\ l + 1 <= n /\ ~(l > n) /\ ~(l + 1 > n)
    BY <1>9
  <2>4. /\ FillUp(key) \in String /\ Len(FillUp(key)) = n
        /\ \A i \in 1 .. n : FillUp(key)[i] = IF i <= l THEN key[i] ELSE NUL
    BY <1>1, <2>3, FilledUp
  <2>5. /\ FillUp(longer) \in String /\ Len(FillUp(longer)) = n
        /\ \A i \in 1 .. n : FillUp(longer)[i] = IF i <= l + 1 THEN longer[i] ELSE NUL
    BY <1>1, <2>2, <2>3, FilledUp
  <2>6. ASSUME NEW i \in 1 .. n PROVE FillUp(key)[i] = FillUp(longer)[i]
    <3>1. CASE i <= l + 1
      <4>1. i \in 1 .. l + 1
        BY <3>1
      <4>2. QED
        BY <2>2, <2>4, <2>5, <3>1, <4>1
    <3>2. CASE ~(i <= l + 1)
      <4>1. ~(i <= l)
        BY <3>2
      <4>2. QED
        BY <2>4, <2>5, <3>2, <4>1
    <3>3. QED
      BY <3>1, <3>2
  <2>7. FillUp(key) = FillUp(longer)
    BY <2>4, <2>5, <2>6, SameString
  <2>8. KeyLocal(key) = FillUp(key) /\ KeyLocal(longer) = FillUp(longer)
    BY <1>1, <2>2, <2>3 DEF KeyLocal
  <2>9. QED
    BY <1>7, <2>2, <2>7, <2>8 DEF longer
<1>10. ASSUME NEW i \in 1 .. n
       PROVE  XorWith(KeyLocal(key), 54)[i] # XorWith(KeyLocal(key), 92)[i]
  <2>1. KeyLocal(key)[i] \in 0 .. 255 /\ i \in DOMAIN KeyLocal(key)
    BY <1>6, StringFacts
  <2>2. ASSUME NEW v PROVE XorWith(KeyLocal(key), v)[i] = Xor(KeyLocal(key)[i], v)
    BY <2>1, Zenon DEF XorWith, MapSeq
  <2>3. QED
    BY <2>1, <2>2, PadsDiffer
<1>11. data_from_hexstring(HexSum(t)) = Digest(t)
  <2>1. sum(t) = Digest(t) /\ Digest(t) \in String /\ Len(Digest(t)) = d
    BY <1>2, <1>3 DEF sum
  <2>2. SubSeq(sum(t), 1, DigestLength) = Digest(t)
    <3>1. Cut(Digest(t), 0, d) = Digest(t)
      BY <2>1, CutEnds
    <3>2. SubSeq(Digest(t), 0 + 1, d) = Digest(t)
      BY <3>1 DEF Cut
    <3>3. QED
      BY <1>1, <2>1, <3>2
  <2>3. HexSum(t) = hexstring_from_data(Digest(t))
    BY <2>2 DEF HexSum
  <2>4. QED
    BY <2>1, <2>3, HexAlwaysReadsBack, Zenon DEF HexReadsBack
<1>12. QED
  BY <1>1, <1>6, <1>8, <1>9, <1>10, <1>11 DEF KeysAreNormalised

(* utils/encoding.*, hash.cc: what is encoded can be decoded, and every     *)
(* byte enters murmur3_hash(), Hash() and hmac(), however long the inputs;  *)
(* of OpenSSL's digests only their length is asked.  Of quick_hash() with a *)
(* size and of the overloads for string_view it says which bytes they miss. *)
THEOREM BytesAreAlwaysKept ==
  ASSUME DigestsAreBytes
  PROVE  TextSpec => []BytesAreKept
<1>1. ASSUME TextInv PROVE BytesAreKept
  <2>1. text \in String /\ arg \in String
    BY <1>1, InputsAre
  <2>2. text \o text \in String /\ text \o arg \in String
    BY <2>1, JoinedIs
  <2>3. CodecsReadBack(text) /\ CodecsReadBack(text \o text)
    BY <2>1, <2>2, CodecsAlwaysReadBack
  <2>4. EveryByteCounts(text, arg) /\ EveryByteCounts(text, text \o arg)
    BY <2>1, <2>2, EveryByteAlwaysCounts
  <2>7. SomeHashesMissBytes(text, arg) /\ SomeHashesMissBytes(text, text \o arg)
    BY <2>1, <2>2, SomeHashesAlwaysMissBytes
  <2>5. KeysAreNormalised(arg, text)
    BY <2>1, KeysAreAlwaysNormalised
  <2>6. QED
    BY <2>3, <2>4, <2>5, <2>7 DEF BytesAreKept
<1>2. QED
  BY <1>1, TextInvHolds, PTL
=============================================================================
