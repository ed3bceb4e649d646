---------------------------- MODULE TextsProofs ----------------------------
(***************************************************************************)
(* Proofs about Texts, for all strings and words: searching, comparing and *)
(* cutting views is exact, what the functions on strings take apart can be *)
(* put together again, and what words do at their edges is known.          *)
(*                                                                         *)
(* First the views: what a search finds is the least or greatest of a set  *)
(* of positions.  Then recursion over data, on which the rest stands: that *)
(* a recursive function is defined (RecursionIsDefined), and that it has   *)
(* the value it should, because something wrong at one point would be      *)
(* wrong at a point nearer to the end as well, without an end              *)
(* (NoLeastWrong).  On it: FlattenSeq, hence Join; split(), replace() and  *)
(* JsonUtil::Escape(), each of which puts a string in the place of every   *)
(* character (Spread).  Last the words: powers of two, borrow and carry,   *)
(* and the digits of a number.                                             *)
(***************************************************************************)
EXTENDS Texts, SequenceTheorems, WellFoundedInduction, TLAPS

(* A set of naturals that is not empty has a least one.                     *)
LEMMA LeastNatural ==
  ASSUME NEW S \in SUBSET Nat, S # {}
  PROVE  \E k \in S : \A j \in S : k <= j
<1> DEFINE Below == OpToRel(<, Nat)
<1>1. PICK k \in S : \A j \in S : ~(<<j, k>> \in Below)
  <2>1. IsWellFoundedOn(Below, Nat)
    BY NatLessThanWellFounded, Zenon
  <2> HIDE DEF Below
  <2>2. QED
    BY <2>1, WFMin
<1>2. ASSUME NEW j \in S, j < k PROVE FALSE
  <2>1. <<j, k>> \in Below
    BY <1>2 DEF OpToRel
  <2>2. QED
    BY <1>1, <2>1, Zenon
<1>3. QED
  BY <1>2

(* A set of positions has a least one, and Min says which.                  *)
LEMMA LeastPosition ==
  ASSUME NEW S \in SUBSET Nat, S # {}
  PROVE  Min(S) \in S /\ \A x \in S : Min(S) <= x
<1>1. PICK m \in S : \A x \in S : m <= x
  BY LeastNatural
<1>2. QED
  BY <1>1 DEF Min

(* Which number Min is.                                                     *)
LEMMA LeastIs ==
  ASSUME NEW S \in SUBSET Nat, NEW m \in S, \A x \in S : m <= x
  PROVE  Min(S) = m
<1>1. Min(S) \in S /\ \A x \in S : Min(S) <= x
  BY LeastPosition
<1>2. Min(S) \in Nat /\ m \in Nat /\ Min(S) <= m /\ m <= Min(S)
  BY <1>1
<1>3. QED
  BY <1>2

(* Which number Max is.                                                     *)
LEMMA GreatestIs ==
  ASSUME NEW S \in SUBSET Nat, NEW m \in S, \A x \in S : x <= m
  PROVE  Max(S) = m
<1>1. Max(S) \in S /\ \A x \in S : Max(S) >= x
  BY DEF Max
<1>2. Max(S) \in Nat /\ m \in Nat /\ Max(S) <= m /\ m <= Max(S)
  BY <1>1
<1>3. QED
  BY <1>2

(* A bounded set of positions has a greatest one, and Max says which.       *)
LEMMA GreatestPosition ==
  ASSUME NEW n \in Nat, NEW S \in SUBSET (0 .. n), S # {}
  PROVE  Max(S) \in S /\ \A x \in S : x <= Max(S)
<1> DEFINE R == {k \in 0 .. n : n - k \in S}
<1>1. R # {}
  <2>1. PICK x \in S : TRUE
    OBVIOUS
  <2>2. n - x \in 0 .. n /\ n - (n - x) = x
    BY <2>1
  <2>3. QED
    BY <2>1, <2>2
<1>2. R \in SUBSET Nat
  OBVIOUS
<1>3. PICK k \in R : \A j \in R : k <= j
  BY <1>1, <1>2, LeastNatural
<1>4. n - k \in S /\ k \in 0 .. n
  BY <1>3
<1>5. ASSUME NEW x \in S PROVE x <= n - k
  <2>1. x \in 0 .. n /\ n - x \in 0 .. n /\ n - (n - x) = x
    BY <1>5
  <2>2. n - x \in R
    BY <2>1
  <2>3. k <= n - x
    BY <1>3, <2>2
  <2>4. QED
    BY <1>4, <2>1, <2>3
<1>6. S \in SUBSET Nat
  OBVIOUS
<1>7. Max(S) = n - k
  BY <1>4, <1>5, <1>6, GreatestIs
<1>8. QED
  BY <1>4, <1>5, <1>7

(* Turned round, the least position is the greatest one.                    *)
LEMMA GreatestIsMirrored ==
  ASSUME NEW n \in Nat, NEW H \in SUBSET (0 .. n), NEW K \in SUBSET (0 .. n), n < npos,
         \A i \in 0 .. n : i \in H <=> n - i \in K
  PROVE  (IF H = {} THEN npos ELSE Max(H))
           = (LET i == IF K = {} THEN npos ELSE Min(K) IN IF i = npos THEN npos ELSE n - i)
<1>1. CASE H = {}
  <2>1. ASSUME NEW i \in K PROVE FALSE
    <3>1. n - i \in 0 .. n /\ n - (n - i) = i
      OBVIOUS
    <3>2. QED
      BY <1>1, <2>1, <3>1
  <2>2. K = {}
    BY <2>1
  <2>3. QED
    BY <1>1, <2>2
<1>2. CASE H # {}
  <2>1. K # {}
    BY <1>2
  <2>2. Min(K) \in K /\ \A x \in K : Min(K) <= x
    BY <2>1, LeastPosition
  <2>3. Min(K) \in 0 .. n /\ Min(K) # npos /\ n - Min(K) \in 0 .. n
    <3>1. PICK m \in 0 .. n : Min(K) = m
      BY <2>2
    <3>2. m # npos /\ n - m \in 0 .. n
      BY NposAssumption
    <3>3. QED
      BY <3>1, <3>2
  <2>4. n - Min(K) \in H
    <3>1. n - (n - Min(K)) = Min(K)
      BY <2>3
    <3>2. QED
      BY <2>2, <2>3, <3>1
  <2>5. \A i \in H : i <= n - Min(K)
    BY <2>2, <2>3
  <2>6. Max(H) = n - Min(K)
    BY <2>4, <2>5, <2>3, GreatestIs
  <2>7. QED
    BY <1>2, <2>1, <2>3, <2>6
<1>3. QED
  BY <1>1, <1>2

-----------------------------------------------------------------------------
(* A string is a sequence of character codes.                               *)
String == Seq(0 .. 255)

(* A function on the first naturals is a sequence.                          *)
LEMMA IsSequence ==
  ASSUME NEW S, NEW n \in Nat, NEW f \in [1 .. n -> S]
  PROVE  f \in Seq(S) /\ Len(f) = n
OBVIOUS

(* What a string is to the provers.                                         *)
LEMMA StringFacts ==
  ASSUME NEW t \in String
  PROVE  /\ Len(t) \in Nat /\ DOMAIN t = 1 .. Len(t)
         /\ \A i \in 1 .. Len(t) : t[i] \in 0 .. 255
<1>1. t \in Seq(0 .. 255)
  BY DEF String
<1>2. QED
  BY <1>1, LenProperties, ElementOfSeq

(* A view of a whole string shows that string.                              *)
LEMMA WholeView ==
  ASSUME NEW t \in String
  PROVE  /\ size(FromString(t)) = Len(t) /\ as_string(FromString(t)) = t
         /\ FromString(t).buffer = t /\ (empty(FromString(t)) <=> Len(t) = 0)
         /\ \A i \in Int : At(FromString(t), i) = t[i + 1]
<1>1. FromString(t).buffer = t /\ FromString(t).ptr = 0 /\ FromString(t).length = Len(t)
  BY DEF FromString, Piece
<1>2. Len(t) \in Nat
  BY DEF String
<1>3. SubSeq(t, 1, Len(t)) = t
  BY SubSeqFull DEF String
<1>4. as_string(FromString(t)) = t
  BY <1>1, <1>2, <1>3 DEF as_string
<1>5. QED
  BY <1>1, <1>2, <1>4 DEF size, empty, At

(* The string turned round.                                                 *)
LEMMA Reversed ==
  ASSUME NEW t \in String
  PROVE  /\ Backwards(FromString(t)) = FromString(Reverse(t))
         /\ Reverse(t) \in String /\ Len(Reverse(t)) = Len(t)
         /\ \A i \in 1 .. Len(t) : Reverse(t)[i] = t[Len(t) - i + 1]
<1>1. Backwards(FromString(t)) = FromString(Reverse(t))
  BY WholeView DEF Backwards
<1>2. Len(t) \in Nat /\ \A i \in 1 .. Len(t) : t[i] \in 0 .. 255
  BY StringFacts
<1>3. \A i \in 1 .. Len(t) : (Len(t) - i) + 1 \in 1 .. Len(t)
  BY <1>2
<1>4. Reverse(t) = [i \in 1 .. Len(t) |-> t[(Len(t) - i) + 1]]
  BY DEF Reverse
<1>5. Reverse(t) \in [1 .. Len(t) -> 0 .. 255]
  BY <1>2, <1>3, <1>4
<1>6. Reverse(t) \in Seq(0 .. 255) /\ Len(Reverse(t)) = Len(t)
  <2>1. PICK n \in Nat : n = Len(t)
    BY <1>2
  <2>2. Reverse(t) \in [1 .. n -> 0 .. 255]
    BY <1>5, <2>1
  <2>3. Reverse(t) \in Seq(0 .. 255) /\ Len(Reverse(t)) = n
    BY <2>2, IsSequence
  <2>4. QED
    BY <2>1, <2>3
<1>7. QED
  BY <1>1, <1>4, <1>6 DEF String

(* Where the needle s stands in t, and where it does turned round.          *)
Stands(t, s, i) == \A k \in 1 .. Len(s) : t[i + k] = s[k]

(* std::search() and std::find_end() look for the places where it stands.   *)
LEMMA MatchesAre ==
  ASSUME NEW t \in String, NEW s \in String, NEW from \in Nat, NEW to \in Int
  PROVE  Matches(FromString(t), from, to, FromString(s))
           = {i \in from .. to - Len(s) : Stands(t, s, i)}
<1>1. Len(s) \in Nat
  BY DEF String
<1>2. ASSUME NEW i \in from .. to - Len(s)
      PROVE  (\A k \in 0 .. Len(s) - 1 : At(FromString(t), i + k) = At(FromString(s), k))
               <=> Stands(t, s, i)
  <2>1. \A k \in 0 .. Len(s) - 1 :
          At(FromString(t), i + k) = t[(i + k) + 1] /\ At(FromString(s), k) = s[k + 1]
    <3>1. ASSUME NEW k \in 0 .. Len(s) - 1 PROVE i + k \in Int /\ k \in Int
      BY <1>1
    <3>2. QED
      BY <3>1, WholeView
  <2>2. ASSUME NEW k \in 1 .. Len(s) PROVE k - 1 \in 0 .. Len(s) - 1 /\ k = (k - 1) + 1
                                           /\ i + k = (i + (k - 1)) + 1
    BY <1>1
  <2>3. ASSUME NEW k \in 0 .. Len(s) - 1 PROVE k + 1 \in 1 .. Len(s) /\ i + (k + 1) = (i + k) + 1
    BY <1>1
  <2>4. ASSUME Stands(t, s, i), NEW k \in 0 .. Len(s) - 1
        PROVE  At(FromString(t), i + k) = At(FromString(s), k)
    <3>1. k + 1 \in 1 .. Len(s) /\ i + (k + 1) = (i + k) + 1
      BY <2>3
    <3>2. t[i + (k + 1)] = s[k + 1]
      BY <2>4, <3>1 DEF Stands
    <3>3. QED
      BY <2>1, <3>1, <3>2
  <2>5. ASSUME \A k \in 0 .. Len(s) - 1 : At(FromString(t), i + k) = At(FromString(s), k),
               NEW k \in 1 .. Len(s)
        PROVE  t[i + k] = s[k]
    <3> DEFINE j == k - 1
    <3>1. j \in 0 .. Len(s) - 1 /\ k = j + 1 /\ i + k = (i + j) + 1
      BY <2>2
    <3> HIDE DEF j
    <3>2. At(FromString(t), i + j) = At(FromString(s), j)
      BY <2>5, <3>1
    <3>3. At(FromString(t), i + j) = t[(i + j) + 1] /\ At(FromString(s), j) = s[j + 1]
      BY <2>1, <3>1
    <3>4. QED
      BY <3>1, <3>2, <3>3
  <2>6. QED
    BY <2>4, <2>5 DEF Stands
<1>3. size(FromString(s)) = Len(s)
  BY WholeView
<1>4. QED
  BY <1>2, <1>3 DEF Matches

(* Turned round, the needle stands as far from the other end.               *)
LEMMA MirroredPlaces ==
  ASSUME NEW t \in String, NEW s \in String, NEW i \in 0 .. Len(t) - Len(s)
  PROVE  Stands(t, s, i) <=> Stands(Reverse(t), Reverse(s), Len(t) - Len(s) - i)
<1> DEFINE j == Len(t) - Len(s) - i
<1>1. Len(t) \in Nat /\ Len(s) \in Nat
  BY DEF String
<1>2. ASSUME NEW k \in 1 .. Len(s)
      PROVE  /\ (Len(s) - k) + 1 \in 1 .. Len(s)
             /\ Reverse(s)[k] = s[(Len(s) - k) + 1]
             /\ Reverse(t)[j + k] = t[i + ((Len(s) - k) + 1)]
  <2>1. j + k \in 1 .. Len(t) /\ (Len(s) - k) + 1 \in 1 .. Len(s)
    BY <1>1
  <2>2. Len(t) - (j + k) + 1 = i + ((Len(s) - k) + 1)
    BY <1>1
  <2>3. QED
    BY <2>1, <2>2, Reversed
<1>3. ASSUME NEW k \in 1 .. Len(s)
      PROVE  k = (Len(s) - ((Len(s) - k) + 1)) + 1
  BY <1>1
<1>4. Len(Reverse(s)) = Len(s)
  BY Reversed
<1>5. ASSUME Stands(t, s, i), NEW k \in 1 .. Len(s) PROVE Reverse(t)[j + k] = Reverse(s)[k]
  BY <1>2, <1>5 DEF Stands
<1>6. ASSUME \A k \in 1 .. Len(s) : Reverse(t)[j + k] = Reverse(s)[k], NEW k \in 1 .. Len(s)
      PROVE  t[i + k] = s[k]
  <2>1. PICK m \in 1 .. Len(s) : m = (Len(s) - k) + 1
    BY <1>2
  <2>2. k = (Len(s) - m) + 1
    BY <1>3, <2>1
  <2>3. QED
    BY <1>2, <1>6, <2>2
<1>7. QED
  BY <1>4, <1>5, <1>6 DEF Stands

(* Where s stands in t, of the places it has room at.                       *)
Places(t, s, from, last) == {i \in from .. last : Stands(t, s, i)}

(* find(): the first of the places.                                         *)
LEMMA FindIs ==
  ASSUME NEW t \in String, NEW s \in String, NEW pos \in 0 .. Len(t)
  PROVE  LET P == Places(t, s, pos, Len(t) - Len(s))
         IN  find(FromString(t), FromString(s), pos) = IF P = {} THEN npos ELSE Min(P)
<1> DEFINE P == Places(t, s, pos, Len(t) - Len(s))
           n == Len(t)
           m == Len(s)
<1>1. n \in Nat /\ m \in Nat /\ size(FromString(t)) = n /\ size(FromString(s)) = m
  BY StringFacts, WholeView
<1>2. pos \in Nat /\ ~(pos > n)
  BY <1>1
<1>3. Matches(FromString(t), pos, n, FromString(s)) = P
  BY <1>1, <1>2, MatchesAre DEF Places
<1>4. search(FromString(t), pos, n, FromString(s)) = IF P = {} THEN n ELSE Min(P)
  BY <1>3 DEF search
<1>5. find(FromString(t), FromString(s), pos)
        = LET x == IF P = {} THEN n ELSE Min(P) IN IF x + m <= n THEN x ELSE npos
  BY <1>1, <1>2, <1>4 DEF find
<1>6. CASE P = {}
  <2>1. m # 0
    <3>1. ASSUME m = 0 PROVE FALSE
      <4>1. n \in pos .. n - m /\ \A k \in 1 .. m : FALSE
        BY <1>1, <3>1
      <4>2. n \in P
        BY <4>1 DEF Places, Stands
      <4>3. QED
        BY <1>6, <4>2
    <3>2. QED
      BY <3>1
  <2>2. ~(n + m <= n)
    BY <1>1, <2>1
  <2>3. QED
    BY <1>5, <1>6, <2>2
<1>7. CASE P # {}
  <2>1. P \in SUBSET (pos .. n - m)
    BY DEF Places
  <2>2. P \in SUBSET Nat
    BY <1>1, <2>1
  <2>3. Min(P) \in P
    BY <1>7, <2>2, LeastPosition
  <2>4. PICK x \in pos .. n - m : x = Min(P)
    BY <2>1, <2>3
  <2>5. x + m <= n
    BY <1>1
  <2>6. QED
    BY <1>5, <1>7, <2>4, <2>5
<1>8. QED
  BY <1>6, <1>7

(* What a search from the end finds that begins at "last".                  *)
RFound(t, s, last) ==
  LET P == Places(t, s, 0, last)
  IN  IF s = <<>> THEN last ELSE IF P = {} THEN npos ELSE Max(P)
(* rfind(): the last of the places that are not behind the position; an     *)
(* empty string stands everywhere.                                          *)
LEMMA RFindIs ==
  ASSUME NEW t \in String, NEW s \in String, NEW pos \in Nat, Len(s) <= Len(t)
  PROVE  /\ Lesser(Len(t) - Len(s), pos) \in 0 .. Len(t) - Len(s)
         /\ rfind(FromString(t), FromString(s), pos)
              = RFound(t, s, Lesser(Len(t) - Len(s), pos))
<1> DEFINE n == Len(t)
           m == Len(s)
           last == Lesser(n - m, pos)
           P == Places(t, s, 0, last)
<1>0. SUFFICES /\ last \in 0 .. n - m
               /\ rfind(FromString(t), FromString(s), pos)
                    = IF s = <<>> THEN last ELSE IF P = {} THEN npos ELSE Max(P)
  BY DEF RFound
<1>1. /\ n \in Nat /\ m \in Nat /\ size(FromString(t)) = n /\ size(FromString(s)) = m
      /\ (empty(FromString(s)) <=> m = 0) /\ (s = <<>> <=> m = 0)
  <2>1. s \in Seq(0 .. 255)
    BY DEF String
  <2>2. s = <<>> <=> m = 0
    BY <2>1, EmptySeq
  <2>3. QED
    BY <2>2, StringFacts, WholeView
<1>2. last \in 0 .. n - m
  BY <1>1 DEF Lesser
<1>3. CASE m = 0
  <2>1. rfind(FromString(t), FromString(s), pos) = Lesser(n, pos)
    BY <1>1, <1>3 DEF rfind
  <2>2. last = Lesser(n, pos)
    BY <1>1, <1>3
  <2>3. QED
    BY <1>1, <1>2, <1>3, <2>1, <2>2
<1>4. CASE m # 0
  <2>1. LastStart(FromString(t), FromString(s), pos) = last
    BY <1>1 DEF LastStart
  <2>2. Matches(FromString(t), 0, last + m, FromString(s)) = P
    <3>1. last + m \in Int /\ (last + m) - m = last
      BY <1>1, <1>2
    <3>2. QED
      BY <3>1, MatchesAre DEF Places
  <2>3. find_end(FromString(t), 0, last + m, FromString(s)) = IF P = {} THEN last + m ELSE Max(P)
    BY <2>2 DEF find_end
  <2>4. rfind(FromString(t), FromString(s), pos)
          = LET r == IF P = {} THEN last + m ELSE Max(P) IN IF r # last + m THEN r ELSE npos
    BY <1>1, <1>4, <2>1, <2>3 DEF rfind
  <2>5. CASE P = {}
    BY <1>1, <1>2, <1>4, <2>4, <2>5
  <2>6. CASE P # {}
    <3>1. P \in SUBSET (0 .. last)
      BY DEF Places
    <3>2. Max(P) \in P
      <4>1. last \in Nat
        BY <1>1, <1>2
      <4> HIDE DEF last, P
      <4>2. QED
        BY <2>6, <3>1, <4>1, GreatestPosition
    <3>3. PICK x \in 0 .. last : x = Max(P)
      BY <3>1, <3>2
    <3>4. x # last + m
      BY <1>1, <1>2, <1>4
    <3>5. QED
      BY <1>1, <1>2, <1>4, <2>4, <2>6, <3>3, <3>4
  <2>7. QED
    BY <2>5, <2>6
<1>5. QED
  BY <1>3, <1>4

(* The scan of a view for a character, or for any other, up or down.        *)
ScanUpResult(S) == IF S = {} THEN npos ELSE Min(S)
ScanDownResult(S) == IF S = {} THEN npos ELSE Max(S)
HitsUp(t, c, pos, B) == {i \in pos .. Len(t) - 1 : (t[i + 1] = c) = B}
HitsDown(t, c, pos, B) == {i \in 0 .. Lesser(pos, Len(t) - 1) : (t[i + 1] = c) = B}
(* What the four scans find.                                                *)
LEMMA ScansAre ==
  ASSUME NEW t \in String, NEW c, NEW pos \in Nat
  PROVE  /\ find_char(FromString(t), c, pos) = ScanUpResult(HitsUp(t, c, pos, TRUE))
         /\ find_first_not_of(FromString(t), c, pos) = ScanUpResult(HitsUp(t, c, pos, FALSE))
         /\ rfind_char(FromString(t), c, pos) = ScanDownResult(HitsDown(t, c, pos, TRUE))
         /\ find_last_not_of(FromString(t), c, pos) = ScanDownResult(HitsDown(t, c, pos, FALSE))
<1> DEFINE v == FromString(t)
           up == pos .. Len(t) - 1
           down == 0 .. Lesser(pos, Len(t) - 1)
<1>1. size(v) = Len(t) /\ Len(t) \in Nat
  BY WholeView, StringFacts
<1>2. \A i \in up \cup down : At(v, i) = t[i + 1]
  <2>1. \A i \in up \cup down : i \in Int
    BY <1>1
  <2>2. QED
    BY <2>1, WholeView
<1>3. /\ {i \in up : At(v, i) = c} = HitsUp(t, c, pos, TRUE)
      /\ {i \in up : At(v, i) # c} = HitsUp(t, c, pos, FALSE)
      /\ {i \in down : At(v, i) = c} = HitsDown(t, c, pos, TRUE)
      /\ {i \in down : At(v, i) # c} = HitsDown(t, c, pos, FALSE)
  BY <1>2 DEF HitsUp, HitsDown
<1>4. find_char(v, c, pos) = ScanUpResult({i \in up : At(v, i) = c})
  BY <1>1 DEF find_char, ScanUp, ScanUpResult
<1>5. find_first_not_of(v, c, pos) = ScanUpResult({i \in up : At(v, i) # c})
  BY <1>1 DEF find_first_not_of, ScanUp, ScanUpResult
<1>6. rfind_char(v, c, pos) = ScanDownResult({i \in down : At(v, i) = c})
  BY <1>1 DEF rfind_char, ScanDown, ScanDownResult
<1>7. find_last_not_of(v, c, pos) = ScanDownResult({i \in down : At(v, i) # c})
  BY <1>1 DEF find_last_not_of, ScanDown, ScanDownResult
<1>8. QED
  BY <1>3, <1>4, <1>5, <1>6, <1>7

(* string_piece.cc:59-134: each search is the mirror of the other.          *)
LEMMA SearchesAlwaysMirror ==
  ASSUME NEW t \in String, NEW s \in String, Len(t) + 1 < npos
  PROVE  SearchesMirror(FromString(t), FromString(s))
<1> DEFINE n == Len(t)
           m == Len(s)
           rt == Reverse(t)
           rs == Reverse(s)
           Mirror(i, k) == IF i = npos THEN npos ELSE n - k - i
<1>1. /\ n \in Nat /\ m \in Nat /\ npos \in Nat /\ (s = <<>> <=> m = 0)
  <2>1. s \in Seq(0 .. 255)
    BY DEF String
  <2>2. s = <<>> <=> m = 0
    BY <2>1, EmptySeq
  <2>3. QED
    BY <2>2, StringFacts, NposAssumption
<1>2. /\ size(FromString(t)) = n /\ size(FromString(s)) = m /\ FromString(t).buffer = t
      /\ Backwards(FromString(t)) = FromString(rt) /\ Backwards(FromString(s)) = FromString(rs)
      /\ rt \in String /\ rs \in String /\ Len(rt) = n /\ Len(rs) = m
      /\ (empty(FromString(t)) <=> n = 0)
  BY WholeView, Reversed
<1>3. ASSUME NEW pos \in 0 .. n - m
      PROVE  rfind(FromString(t), FromString(s), pos)
               = Mirror(find(FromString(rt), FromString(rs), n - m - pos), m)
  <2> DEFINE P == Places(t, s, 0, pos)
             R == Places(rt, rs, n - m - pos, n - m)
  <2>1. pos \in Nat /\ m <= n /\ Lesser(n - m, pos) = pos /\ n - m - pos \in 0 .. n
        /\ n - m \in Nat /\ n - m < npos /\ n < npos
    BY <1>1 DEF Lesser
  <2>2. rfind(FromString(t), FromString(s), pos)
          = IF s = <<>> THEN pos ELSE IF P = {} THEN npos ELSE Max(P)
    <3>1. pos \in Nat /\ Len(s) <= Len(t) /\ Lesser(Len(t) - Len(s), pos) = pos
      BY <2>1
    <3>2. rfind(FromString(t), FromString(s), pos) = RFound(t, s, pos)
      BY <3>1, RFindIs
    <3>3. QED
      BY <3>2 DEF RFound
  <2>3. find(FromString(rt), FromString(rs), n - m - pos) = IF R = {} THEN npos ELSE Min(R)
    BY <1>2, <2>1, FindIs
  <2>4. ASSUME NEW i \in 0 .. n - m PROVE i \in P <=> n - m - i \in R
    <3>1. i \in P <=> i <= pos /\ Stands(t, s, i)
      BY <1>1, <2>1 DEF Places
    <3>2. n - m - i \in R <=> i <= pos /\ Stands(rt, rs, n - m - i)
      BY <1>1, <2>1 DEF Places
    <3>3. QED
      BY <3>1, <3>2, MirroredPlaces
  <2>5. P \in SUBSET (0 .. n - m) /\ R \in SUBSET (0 .. n - m)
    BY <1>1, <2>1 DEF Places
  <2>6. (IF P = {} THEN npos ELSE Max(P)) = Mirror(IF R = {} THEN npos ELSE Min(R), m)
    <3> DEFINE N == n - m
    <3>1. N \in Nat /\ N < npos /\ \A i \in 0 .. N : i \in P <=> N - i \in R
      BY <2>1, <2>4
    <3>2. P \in SUBSET (0 .. N) /\ R \in SUBSET (0 .. N)
      BY <2>5
    <3> HIDE DEF P, R, N
    <3>3. (IF P = {} THEN npos ELSE Max(P))
            = (LET i == IF R = {} THEN npos ELSE Min(R) IN IF i = npos THEN npos ELSE N - i)
      BY <3>1, <3>2, GreatestIsMirrored
    <3>4. QED
      BY <3>3 DEF N
  <2>7. CASE s = <<>>
    <3>1. m = 0 /\ \A i \in 0 .. n : Stands(rt, rs, i)
      BY <1>1, <1>2, <2>7 DEF Stands
    <3>2. R = n - pos .. n
      BY <1>1, <2>1, <3>1 DEF Places
    <3>3. R \in SUBSET Nat /\ n - pos \in R /\ \A x \in R : n - pos <= x
      BY <1>1, <2>1, <3>1, <3>2
    <3> HIDE DEF R
    <3>4. Min(R) = n - pos
      BY <3>3, LeastIs
    <3>5. find(FromString(rt), FromString(rs), n - m - pos) = n - pos
      BY <2>3, <3>3, <3>4
    <3>6. Mirror(n - pos, m) = pos
      BY <1>1, <2>1, <3>1
    <3>7. QED
      BY <2>2, <2>7, <3>5, <3>6
  <2>8. CASE s # <<>>
    BY <2>2, <2>3, <2>6, <2>8
  <2>9. QED
    BY <2>7, <2>8
<1>4. ASSUME NEW pos \in n - m + 1 .. n + 1, m <= n
      PROVE  rfind(FromString(t), FromString(s), pos) = rfind(FromString(t), FromString(s), npos)
  <2>1. pos \in Nat /\ Lesser(n - m, pos) = n - m /\ Lesser(n - m, npos) = n - m
    BY <1>1, <1>4 DEF Lesser
  <2>2. rfind(FromString(t), FromString(s), pos)
          = IF s = <<>> THEN n - m
            ELSE IF Places(t, s, 0, n - m) = {} THEN npos ELSE Max(Places(t, s, 0, n - m))
    <3>1. rfind(FromString(t), FromString(s), pos) = RFound(t, s, n - m)
      BY <1>4, <2>1, RFindIs
    <3>2. QED
      BY <3>1 DEF RFound
  <2>3. rfind(FromString(t), FromString(s), npos)
          = IF s = <<>> THEN n - m
            ELSE IF Places(t, s, 0, n - m) = {} THEN npos ELSE Max(Places(t, s, 0, n - m))
    <3>1. npos \in Nat /\ Len(s) <= Len(t)
      BY <1>1, <1>4
    <3>2. rfind(FromString(t), FromString(s), npos) = RFound(t, s, n - m)
      BY <2>1, <3>1, RFindIs
    <3>3. QED
      BY <3>2 DEF RFound
  <2>4. QED
    BY <2>2, <2>3
<1>5. ASSUME n # 0, NEW c, NEW pos \in 0 .. n - 1
      PROVE  /\ rfind_char(FromString(t), c, pos)
                  = Mirror(find_char(FromString(rt), c, n - 1 - pos), 1)
             /\ find_last_not_of(FromString(t), c, pos)
                  = Mirror(find_first_not_of(FromString(rt), c, n - 1 - pos), 1)
  <2> DEFINE N == n - 1
             D(B) == HitsDown(t, c, pos, B)
             V(B) == HitsUp(rt, c, N - pos, B)
  <2>1. pos \in Nat /\ Lesser(pos, n - 1) = pos /\ N - pos \in Nat /\ N \in Nat /\ N < npos
    BY <1>1, <1>5 DEF Lesser
  <2>2. /\ rfind_char(FromString(t), c, pos) = ScanDownResult(D(TRUE))
        /\ find_last_not_of(FromString(t), c, pos) = ScanDownResult(D(FALSE))
    BY <2>1, ScansAre
  <2>3. /\ find_char(FromString(rt), c, N - pos) = ScanUpResult(V(TRUE))
        /\ find_first_not_of(FromString(rt), c, N - pos) = ScanUpResult(V(FALSE))
    BY <1>2, <2>1, ScansAre
  <2>4. ASSUME NEW B \in BOOLEAN
        PROVE  ScanDownResult(D(B)) = Mirror(ScanUpResult(V(B)), 1)
    <3>1. ASSUME NEW i \in 0 .. N PROVE i \in D(B) <=> N - i \in V(B)
      <4>1. (N - i) + 1 \in 1 .. n /\ n - ((N - i) + 1) + 1 = i + 1 /\ N - i \in 0 .. N
        BY <1>1, <2>1
      <4>2. rt[(N - i) + 1] = t[i + 1]
        BY <4>1, Reversed
      <4>3. N - i \in N - pos .. N <=> i \in 0 .. pos
        BY <1>1, <2>1
      <4>4. QED
        BY <1>2, <2>1, <4>1, <4>2, <4>3 DEF HitsUp, HitsDown
    <3>2. D(B) \in SUBSET (0 .. N) /\ V(B) \in SUBSET (0 .. N)
      BY <1>1, <1>2, <2>1 DEF HitsUp, HitsDown
    <3>3. n - 1 = N
      OBVIOUS
    <3> HIDE DEF D, V, N
    <3>4. (IF D(B) = {} THEN npos ELSE Max(D(B)))
            = (LET i == IF V(B) = {} THEN npos ELSE Min(V(B)) IN IF i = npos THEN npos ELSE N - i)
      BY <2>1, <3>1, <3>2, GreatestIsMirrored
    <3>5. QED
      BY <3>3, <3>4 DEF ScanDownResult, ScanUpResult
  <2>5. QED
    BY <2>2, <2>3, <2>4
<1>6. QED
  BY <1>2, <1>3, <1>4, <1>5 DEF SearchesMirror

-----------------------------------------------------------------------------
(* wordmemcmp(): zero for equal characters, and the sign turns with the     *)
(* arguments.                                                               *)
LEMMA ComparisonIs ==
  ASSUME NEW p \in String, NEW p2 \in String, NEW n \in 0 .. Lesser(Len(p), Len(p2))
  PROVE  /\ wordmemcmp(p, p2, n) \in {-1, 0, 1}
         /\ wordmemcmp(p, p2, n) = 0 <=> \A i \in 1 .. n : p[i] = p2[i]
         /\ wordmemcmp(p, p2, n) = -wordmemcmp(p2, p, n)
<1> DEFINE D == {i \in 1 .. n : p[i] # p2[i]}
           E == {i \in 1 .. n : p2[i] # p[i]}
<1>1. Len(p) \in Nat /\ Len(p2) \in Nat /\ n \in Nat /\ n <= Len(p) /\ n <= Len(p2)
  BY StringFacts DEF Lesser
<1>2. ASSUME NEW i \in 1 .. n PROVE p[i] \in Nat /\ p2[i] \in Nat
  <2>1. i \in 1 .. Len(p) /\ i \in 1 .. Len(p2)
    BY <1>1
  <2>2. p[i] \in 0 .. 255 /\ p2[i] \in 0 .. 255
    BY <2>1, StringFacts
  <2>3. 0 .. 255 \subseteq Nat
    OBVIOUS
  <2>4. QED
    BY <2>2, <2>3
<1>3. D = E /\ D \in SUBSET Nat
  BY <1>1
<1>4. /\ wordmemcmp(p, p2, n)
           = IF D = {} THEN 0 ELSE IF p[Min(D)] < p2[Min(D)] THEN -1 ELSE 1
      /\ wordmemcmp(p2, p, n)
           = IF E = {} THEN 0 ELSE IF p2[Min(E)] < p[Min(E)] THEN -1 ELSE 1
  BY DEF wordmemcmp
<1>5. D # {} => /\ Min(D) \in 1 .. n /\ p[Min(D)] # p2[Min(D)]
  <2>1. D # {} => Min(D) \in D
    BY <1>3, LeastPosition
  <2>2. QED
    BY <2>1
<1>6. D = {} <=> \A i \in 1 .. n : p[i] = p2[i]
  OBVIOUS
<1> HIDE DEF D, E
<1>7. CASE D = {}
  <2>1. wordmemcmp(p, p2, n) = 0 /\ wordmemcmp(p2, p, n) = 0
    BY <1>3, <1>4, <1>7
  <2>2. 0 = -wordmemcmp(p2, p, n)
    <3>1. PICK z \in Int : z = wordmemcmp(p2, p, n) /\ z = 0
      BY <2>1
    <3>2. -z = 0 - z
      OBVIOUS
    <3>3. 0 - z = 0
      BY <3>1
    <3>4. QED
      BY <3>1, <3>2, <3>3
  <2>3. QED
    BY <1>6, <1>7, <2>1, <2>2
<1>8. CASE D # {}
  <2>1. PICK a \in Nat, b \in Nat : a = p[Min(D)] /\ b = p2[Min(D)] /\ a # b
    BY <1>2, <1>5, <1>8
  <2>2. /\ wordmemcmp(p, p2, n) = IF a < b THEN -1 ELSE 1
        /\ wordmemcmp(p2, p, n) = IF b < a THEN -1 ELSE 1
    BY <1>3, <1>4, <1>8, <2>1
  <2>3. QED
    BY <1>6, <1>8, <2>1, <2>2
<1>9. QED
  BY <1>7, <1>8

(* Two strings with the same characters are the same.                       *)
LEMMA SameCharacters ==
  ASSUME NEW p \in String, NEW p2 \in String, Len(p) = Len(p2),
         \A i \in 1 .. Len(p) : p[i] = p2[i]
  PROVE  p = p2
BY SeqEqual DEF String

(* substr() to the end, of a whole string.                                  *)
LEMMA TailView ==
  ASSUME NEW t \in String, NEW i \in 0 .. Len(t), Len(t) < npos
  PROVE  LET v == substr(FromString(t), i, npos)
         IN  /\ v = Piece(t, i, Len(t) - i) /\ size(v) = Len(t) - i
             /\ as_string(v) = SubSeq(t, i + 1, Len(t)) /\ as_string(v) \in String
             /\ Len(as_string(v)) = Len(t) - i
             /\ \A k \in 1 .. Len(t) - i : as_string(v)[k] = t[i + k]
<1> DEFINE n == Len(t)
           v == Piece(t, i, n - i)
<1>1. n \in Nat /\ npos \in Nat
  BY StringFacts, NposAssumption
<1>2. FromString(t).ptr = 0 /\ FromString(t).buffer = t /\ size(FromString(t)) = n
  BY WholeView DEF FromString, Piece
<1>3. Lesser(i, n) = i /\ Lesser(npos, n - i) = n - i
  BY <1>1 DEF Lesser
<1>4. substr(FromString(t), i, npos) = Piece(t, 0 + i, n - i)
  BY <1>2, <1>3 DEF substr
<1>5. substr(FromString(t), i, npos) = v
  BY <1>1, <1>4
<1>6. v.buffer = t /\ v.ptr = i /\ v.length = n - i
  BY DEF Piece
<1>7. as_string(v) = SubSeq(t, i + 1, i + (n - i))
  BY <1>6 DEF as_string
<1>8. i + (n - i) = n
  BY <1>1
<1>9. as_string(v) = SubSeq(t, i + 1, n)
  BY <1>7, <1>8
<1>10. \A j \in i + 1 .. n : t[j] \in 0 .. 255
  BY <1>1, StringFacts
<1>11. /\ SubSeq(t, i + 1, n) \in Seq(0 .. 255)
       /\ Len(SubSeq(t, i + 1, n)) = IF i + 1 <= n THEN n - (i + 1) + 1 ELSE 0
       /\ \A k \in 1 .. n - (i + 1) + 1 : SubSeq(t, i + 1, n)[k] = t[i + 1 + k - 1]
  <2>1. i + 1 \in Int /\ n \in Int
    BY <1>1
  <2> HIDE DEF n
  <2>2. QED
    BY <1>10, <2>1, SubSeqProperties
<1>12. n - (i + 1) + 1 = n - i /\ (IF i + 1 <= n THEN n - (i + 1) + 1 ELSE 0) = n - i
  BY <1>1
<1>13. \A k \in 1 .. n - i : i + 1 + k - 1 = i + k
  BY <1>1
<1>14. size(v) = n - i
  BY <1>6 DEF size
<1>15. QED
  BY <1>5, <1>9, <1>11, <1>12, <1>13, <1>14 DEF String

(* starts_with() on the rest of a string asks whether the needle stands     *)
(* there.                                                                   *)
LEMMA StartsThere ==
  ASSUME NEW t \in String, NEW s \in String, Len(t) < npos, NEW i \in 0 .. Len(t)
  PROVE  starts_with(substr(FromString(t), i, npos), FromString(s))
           <=> i <= Len(t) - Len(s) /\ Stands(t, s, i)
<1> DEFINE v == substr(FromString(t), i, npos)
           w == as_string(v)
           m == Len(s)
<1>1. /\ size(v) = Len(t) - i /\ w \in String /\ Len(w) = Len(t) - i
      /\ \A k \in 1 .. Len(t) - i : w[k] = t[i + k]
  BY TailView
<1>2. Len(t) \in Nat /\ m \in Nat /\ size(FromString(s)) = m /\ as_string(FromString(s)) = s
  BY StringFacts, WholeView
<1> HIDE DEF v, w
<1>3. CASE Len(t) - i >= m
  <2>1. m \in 0 .. Lesser(Len(w), Len(s))
    BY <1>1, <1>2, <1>3 DEF Lesser
  <2>2. wordmemcmp(w, s, m) = 0 <=> \A k \in 1 .. m : w[k] = s[k]
    BY <1>1, <2>1, ComparisonIs
  <2>3. \A k \in 1 .. m : w[k] = t[i + k]
    BY <1>1, <1>2, <1>3
  <2>4. starts_with(v, FromString(s)) <=> wordmemcmp(w, s, m) = 0
    BY <1>1, <1>2, <1>3 DEF starts_with, w
  <2>5. QED
    BY <1>2, <1>3, <2>2, <2>3, <2>4 DEF Stands, v
<1>4. CASE ~(Len(t) - i >= m)
  <2>1. ~starts_with(v, FromString(s))
    BY <1>1, <1>2, <1>4 DEF starts_with
  <2>2. QED
    BY <1>2, <1>4, <2>1 DEF v
<1>5. QED
  BY <1>3, <1>4

(* string_piece.cc:59-70: find() misses no occurrence and invents none.     *)
LEMMA HitsAreAlwaysAll ==
  ASSUME NEW t \in String, NEW s \in String, Len(t) + 1 < npos
  PROVE  HitsAreAll(FromString(t), FromString(s))
<1> DEFINE n == Len(t)
<1>1. n \in Nat /\ Len(s) \in Nat /\ npos \in Nat /\ n < npos /\ size(FromString(t)) = n
  BY StringFacts, NposAssumption, WholeView
<1>2. ASSUME NEW i \in 0 .. n
      PROVE  find(FromString(t), FromString(s), i) = i
               <=> starts_with(substr(FromString(t), i, npos), FromString(s))
  <2> DEFINE P == Places(t, s, i, n - Len(s))
  <2>1. find(FromString(t), FromString(s), i) = IF P = {} THEN npos ELSE Min(P)
    BY <1>1, FindIs
  <2>2. P \in SUBSET Nat /\ \A x \in P : i <= x
    BY <1>1 DEF Places
  <2>3. i \in P <=> i <= n - Len(s) /\ Stands(t, s, i)
    BY <1>1 DEF Places
  <2>4. i # npos
    BY <1>1
  <2> HIDE DEF P
  <2>5. CASE i \in P
    <3>1. Min(P) = i
      BY <2>2, <2>5, LeastIs
    <3>2. QED
      BY <1>1, <2>1, <2>3, <2>5, <3>1, StartsThere
  <2>6. CASE i \notin P
    <3>1. P # {} => Min(P) \in P
      BY <2>2, LeastPosition
    <3>2. QED
      BY <1>1, <2>1, <2>3, <2>4, <2>6, <3>1, StartsThere
  <2>7. QED
    BY <2>5, <2>6
<1>3. QED
  BY <1>1, <1>2 DEF HitsAreAll

(* string_piece.h:179-187, 331-353: the ways of comparing agree.            *)
LEMMA OrderIsAlwaysConsistent ==
  ASSUME NEW t \in String, NEW s \in String
  PROVE  OrderIsConsistent(FromString(t), FromString(s))
<1> DEFINE x == FromString(t)
           y == FromString(s)
           n == Len(t)
           m == Len(s)
           r == wordmemcmp(t, s, Lesser(n, m))
           q == wordmemcmp(s, t, Lesser(m, n))
<1>1. /\ size(x) = n /\ size(y) = m /\ as_string(x) = t /\ as_string(y) = s
      /\ n \in Nat /\ m \in Nat
  BY WholeView, StringFacts
<1>2. Lesser(n, m) = Lesser(m, n) /\ Lesser(n, m) \in 0 .. Lesser(n, m)
  BY <1>1 DEF Lesser
<1>3. /\ r \in {-1, 0, 1} /\ r = -q /\ q \in {-1, 0, 1}
      /\ (r = 0 <=> \A i \in 1 .. Lesser(n, m) : t[i] = s[i])
  BY <1>2, ComparisonIs
<1>4. /\ compare(x, y) = IF r # 0 THEN r ELSE IF n < m THEN -1 ELSE IF n > m THEN 1 ELSE 0
      /\ compare(y, x) = IF q # 0 THEN q ELSE IF m < n THEN -1 ELSE IF m > n THEN 1 ELSE 0
      /\ (Less(x, y) <=> (r < 0 \/ (r = 0 /\ n < m)))
      /\ (Less(y, x) <=> (q < 0 \/ (q = 0 /\ m < n)))
      /\ (Equal(x, y) <=> (n = m /\ wordmemcmp(t, s, n) = 0))
      /\ (starts_with(x, y) <=> (n >= m /\ wordmemcmp(t, s, m) = 0))
  BY <1>1 DEF compare, Less, Equal, starts_with
<1>5. n = m => Lesser(n, m) = n
  BY <1>1 DEF Lesser
<1>6. n >= m => Lesser(n, m) = m
  BY <1>1 DEF Lesser
<1>7. Equal(x, y) <=> n = m /\ r = 0
  BY <1>4, <1>5
<1>8. starts_with(x, y) <=> n >= m /\ r = 0
  BY <1>4, <1>6
<1>9. Equal(x, y) => HashRounds(x) = HashRounds(y)
  <2>1. SUFFICES ASSUME n = m, r = 0 PROVE HashRounds(x) = HashRounds(y)
    BY <1>7
  <2>2. \A i \in 1 .. n : t[i] = s[i]
    BY <1>3, <1>5, <2>1
  <2>3. t = s
    BY <2>1, <2>2, SameCharacters
  <2>4. QED
    BY <2>3
<1>10. PICK a \in {-1, 0, 1}, b \in {-1, 0, 1} : a = r /\ b = q /\ a = -b
  BY <1>3
<1> HIDE DEF x, y, n, m, r, q
<1>11. Less(x, y) <=> compare(x, y) < 0
  BY <1>1, <1>4, <1>10
<1>12. Equal(x, y) <=> compare(x, y) = 0
  BY <1>1, <1>4, <1>7, <1>10
<1>13. compare(x, y) = -compare(y, x)
  <2>1. PICK c \in {-1, 0, 1}, d \in {-1, 0, 1} :
          /\ c = IF a # 0 THEN a ELSE IF n < m THEN -1 ELSE IF n > m THEN 1 ELSE 0
          /\ d = IF b # 0 THEN b ELSE IF m < n THEN -1 ELSE IF m > n THEN 1 ELSE 0
    OBVIOUS
  <2>2. c = -d
    BY <1>1, <1>10, <2>1
  <2>3. QED
    BY <1>4, <1>10, <2>1, <2>2
<1>14. starts_with(x, y) => AtMost(y, x)
  BY <1>1, <1>4, <1>8, <1>10 DEF AtMost
<1>15. QED
  BY <1>9, <1>11, <1>12, <1>13, <1>14 DEF OrderIsConsistent, x, y

(* A view of a part of what the piece (b, p, n) shows.                      *)
IsPart(v, b, p, n) == \E l, j \in Nat : l + j <= n /\ v = Piece(b, p + l, j)
(* What substr() makes of a view is a part of it.                           *)
LEMMA SubstrCuts ==
  ASSUME NEW b \in String, NEW p \in Nat, NEW n \in Nat, NEW pos \in Nat, NEW k \in Nat
  PROVE  IsPart(substr(Piece(b, p, n), pos, k), b, p, n)
<1> DEFINE self == Piece(b, p, n)
           l == Lesser(pos, n)
<1>1. self.buffer = b /\ self.ptr = p /\ size(self) = n
  BY DEF Piece, size
<1>2. substr(self, pos, k) = Piece(b, p + l, Lesser(k, n - l))
  BY <1>1 DEF substr
<1>3. l \in Nat /\ Lesser(k, n - l) \in Nat /\ l + Lesser(k, n - l) <= n
  BY DEF Lesser
<1> HIDE DEF l
<1>4. QED
  BY <1>2, <1>3 DEF IsPart

(* And so is what assign() makes of it.                                     *)
LEMMA AssignCuts ==
  ASSUME NEW b \in String, NEW p \in Nat, NEW n \in Nat, NEW pos \in 0 .. n, NEW k \in Nat
  PROVE  IsPart(assign(Piece(b, p, n), pos, k), b, p, n)
<1> DEFINE self == Piece(b, p, n)
           j == Lesser(k, n - pos)
<1>1. self.buffer = b /\ self.ptr = p /\ self.length = n
  BY DEF Piece
<1>2. assign(self, pos, k) = Piece(b, p + pos, j)
  BY <1>1 DEF assign, FromPiece
<1>3. j \in Nat /\ pos + j <= n
  BY DEF Lesser
<1> HIDE DEF j
<1>4. QED
  BY <1>2, <1>3 DEF IsPart

(* A part is inside.                                                        *)
LEMMA PartsAreInside ==
  ASSUME NEW b, NEW p \in Nat, NEW n \in Nat, NEW v, IsPart(v, b, p, n)
  PROVE  Within(v, Piece(b, p, n))
BY DEF IsPart, Within, Piece

(* copy() copies what substr() shows.                                       *)
LEMMA CopyIsSubstr ==
  ASSUME NEW b \in String, NEW p \in Nat, NEW n \in Nat, p + n <= Len(b),
         NEW pos \in 0 .. n, NEW k \in Nat
  PROVE  copy(Piece(b, p, n), k, pos) = as_string(substr(Piece(b, p, n), pos, k))
<1> DEFINE self == Piece(b, p, n)
           j == Lesser(k, n - pos)
           w == SubSeq(b, p + 1, p + n)
<1>1. self.buffer = b /\ self.ptr = p /\ self.length = n /\ size(self) = n
  BY DEF Piece, size
<1>2. j \in 0 .. n - pos /\ j = Lesser(n - pos, k) /\ Lesser(pos, n) = pos
  BY DEF Lesser
<1>3. copy(self, k, pos) = SubSeq(w, pos + 1, pos + j)
  BY <1>1, <1>2 DEF copy, as_string
<1>4. as_string(substr(self, pos, k)) = SubSeq(b, p + pos + 1, p + pos + j)
  <2>1. substr(self, pos, k) = Piece(b, p + pos, j)
    BY <1>1, <1>2 DEF substr
  <2> HIDE DEF j, self
  <2>2. as_string(Piece(b, p + pos, j)) = SubSeq(b, p + pos + 1, p + pos + j)
    BY DEF as_string, Piece
  <2>3. QED
    BY <2>1, <2>2
<1>5. Len(b) \in Nat /\ j \in Nat /\ pos + j <= n
  BY <1>2, StringFacts
<1>6. SubSeq(w, pos + 1, pos + j) = SubSeq(b, p + pos + 1, p + pos + j)
  <2> HIDE DEF j
  <2>1. CASE j = 0
    <3>1. SubSeq(w, pos + 1, pos + j) = <<>>
      BY <1>5, <2>1, SubSeqEmpty
    <3>2. p + pos + j < p + pos + 1 /\ p + pos + 1 \in Int /\ p + pos + j \in Int
      BY <1>5, <2>1
    <3>3. SubSeq(b, p + pos + 1, p + pos + j) = <<>>
      BY <3>2, SubSeqEmpty
    <3>4. QED
      BY <3>1, <3>3
  <2>2. CASE j # 0
    <3>1. /\ p + 1 \in 1 .. Len(b) /\ p + n \in 1 .. Len(b)
          /\ pos + 1 \in 1 .. (p + n) - (p + 1) + 1 /\ pos + j \in 1 .. (p + n) - (p + 1) + 1
      BY <1>5, <2>2
    <3>2. b \in Seq(0 .. 255)
      BY DEF String
    <3>3. SubSeq(w, pos + 1, pos + j)
            = SubSeq(b, (p + 1) + (pos + 1) - 1, (p + 1) + (pos + j) - 1)
      BY <3>1, <3>2, SubSeqOfSubSeq
    <3>4. /\ (p + 1) + (pos + 1) - 1 = p + pos + 1
          /\ (p + 1) + (pos + j) - 1 = p + pos + j
      BY <1>5
    <3>5. QED
      BY <3>3, <3>4
  <2>3. QED
    BY <2>1, <2>2
<1>7. QED
  BY <1>3, <1>4, <1>6

(* The loops of trim_spaces() stop at the end of the view.                  *)
LEMMA SpacesInside ==
  ASSUME NEW n \in Nat, NEW S \in SUBSET (0 .. n), n \in S
  PROVE  Min(S) \in 0 .. n
<1>1. S \in SUBSET Nat
  OBVIOUS
<1>2. Min(S) \in S
  BY <1>1, LeastPosition
<1>3. QED
  BY <1>2

(* string_piece.h:117-177: a view never leaves the view it was cut from.    *)
LEMMA ViewsAlwaysStayInside ==
  ASSUME NEW b \in String, NEW p \in Nat, NEW n \in Nat, p + n <= Len(b), n < npos
  PROVE  ViewsStayInside(Piece(b, p, n))
<1> DEFINE self == Piece(b, p, n)
           S == {k \in 0 .. n : k = n \/ ~isspace(At(self, k))}
           front == remove_prefix(self, Min(S))
           T == {k \in 0 .. size(front) :
                   k = size(front) \/ ~isspace(At(front, size(front) - 1 - k))}
<1>1. self.buffer = b /\ self.ptr = p /\ self.length = n /\ size(self) = n
  BY DEF Piece, size
<1>2. Within(trim_spaces(self), self)
  <2>1. Min(S) \in 0 .. n
    <3>1. S \in SUBSET (0 .. n) /\ n \in S
      OBVIOUS
    <3> HIDE DEF S
    <3>2. QED
      BY <3>1, SpacesInside
  <2>2. trim_spaces(self) = remove_suffix(front, Min(T))
    BY <1>1 DEF trim_spaces, Spaces
  <2>3. PICK d \in 0 .. n : d = Min(S)
    BY <2>1
  <2>4. front.ptr = p + d /\ front.length = n - d /\ size(front) = n - d
    BY <1>1, <2>3 DEF remove_prefix, Piece, size
  <2>5. Min(T) \in 0 .. n - d
    <3>1. T \in SUBSET (0 .. n - d) /\ n - d \in T /\ n - d \in Nat
      <4>1. PICK m \in Nat : m = n - d
        OBVIOUS
      <4>2. size(front) = m
        BY <2>4, <4>1
      <4> HIDE DEF front
      <4>3. T \in SUBSET (0 .. m) /\ m \in T
        BY <4>2
      <4>4. QED
        BY <4>1, <4>3
    <3> HIDE DEF T
    <3>2. QED
      BY <3>1, SpacesInside
  <2>6. PICK e \in 0 .. n - d : e = Min(T)
    BY <2>5
  <2>7. /\ trim_spaces(self).ptr = p + d /\ trim_spaces(self).length = n - d - e
    <3> HIDE DEF T
    <3>1. trim_spaces(self) = remove_suffix(front, e)
      BY <2>2, <2>6
    <3>2. "length" \in DOMAIN front /\ "ptr" \in DOMAIN front
      BY DEF remove_prefix, Piece
    <3> HIDE DEF front
    <3>3. remove_suffix(front, e).ptr = front.ptr /\ remove_suffix(front, e).length = front.length - e
      BY <3>2 DEF remove_suffix
    <3>4. QED
      BY <2>4, <3>1, <3>3
  <2>8. QED
    BY <1>1, <2>7 DEF Within
<1>3. ASSUME NEW pos \in 0 .. size(self) + 1, NEW k \in Nat PROVE Within(substr(self, pos, k), self)
  <2>1. pos \in Nat
    BY <1>1
  <2>2. IsPart(substr(self, pos, k), b, p, n)
    BY <2>1, SubstrCuts
  <2>3. QED
    BY <2>2, PartsAreInside
<1>4. ASSUME NEW pos \in 0 .. size(self), NEW k \in Nat
      PROVE  Within(assign(self, pos, k), self) /\ copy(self, k, pos) = as_string(substr(self, pos, k))
  <2>1. pos \in Nat /\ pos <= n /\ pos \in 0 .. n
    BY <1>1
  <2>2. IsPart(assign(self, pos, k), b, p, n)
    BY <2>1, AssignCuts
  <2>3. Within(assign(self, pos, k), self)
    BY <2>2, PartsAreInside
  <2>4. copy(self, k, pos) = as_string(substr(self, pos, k))
    BY <2>1, CopyIsSubstr
  <2>5. QED
    BY <2>3, <2>4
<1>5. npos \in Nat /\ 0 .. size(self) + 1 \subseteq Nat
  BY <1>1, NposAssumption
<1>6. QED
  BY <1>2, <1>3, <1>4, <1>5 DEF ViewsStayInside

-----------------------------------------------------------------------------
(* The inputs are strings that are short enough.                            *)
TextInv == /\ text \in Seq(Chars) /\ Len(text) <= MaxText
           /\ arg \in Seq(Chars) /\ Len(arg) <= MaxArg

(* They are, whatever grows.                                                *)
LEMMA TextInvHolds == TextSpec => []TextInv
<1>1. TextInit => TextInv
  <2>1. <<>> \in Seq(Chars) /\ Len(<<>>) = 0
    OBVIOUS
  <2>2. QED
    BY <2>1, TextAssumption DEF TextInit, TextInv
<1>2. TextInv /\ [TextNext]_textVars => TextInv'
  <2> SUFFICES ASSUME TextInv, [TextNext]_textVars PROVE TextInv'
    OBVIOUS
  <2>1. CASE GrowText
    BY <2>1, AppendProperties, TextAssumption DEF GrowText, TextInv
  <2>2. CASE GrowArg
    BY <2>2, AppendProperties, TextAssumption DEF GrowArg, TextInv
  <2>3. CASE UNCHANGED textVars
    BY <2>3 DEF textVars, TextInv
  <2>4. QED
    BY <2>1, <2>2, <2>3 DEF TextNext
<1>3. QED
  BY <1>1, <1>2, PTL DEF TextSpec

(* What follows of the inputs.                                              *)
LEMMA InputsAre ==
  ASSUME TextInv
  PROVE  text \in String /\ Len(text) + 1 < npos /\ arg \in String /\ Len(arg) + 1 < npos
<1>1. Len(text) \in Nat /\ Len(arg) \in Nat
  BY DEF TextInv
<1>2. text \in Seq(0 .. 255) /\ arg \in Seq(0 .. 255)
  <2>1. ASSUME NEW s \in Seq(Chars) PROVE s \in Seq(0 .. 255)
    <3>1. Chars \subseteq 0 .. 255
      BY TextAssumption DEF Byte
    <3> DEFINE T == 0 .. 255
    <3>2. Chars \subseteq T
      BY <3>1
    <3> HIDE DEF T
    <3>3. s \in Seq(T)
      BY <3>2, SeqMonotonic
    <3>4. QED
      BY <3>3 DEF T
  <2>2. QED
    BY <2>1 DEF TextInv
<1>3. QED
  BY <1>1, <1>2, TextAssumption, NposAssumption DEF TextInv, String

(* ds/string_piece.*: searching, comparing and cutting views is exact,      *)
(* whatever the characters and however long the texts.                      *)
THEOREM ViewsAreAlwaysExact == TextSpec => []ViewsAreExact
<1>1. ASSUME TextInv PROVE ViewsAreExact
  <2>1. text \in String /\ Len(text) + 1 < npos /\ arg \in String
    BY <1>1, InputsAre
  <2> DEFINE n == Len(text)
             d == Lesser(1, n)
  <2>2. n \in Nat /\ npos \in Nat /\ d \in 0 .. n /\ n < npos
    BY <2>1, StringFacts, NposAssumption DEF Lesser
  <2>3. FromPiece(FromString(text), d, npos) = Piece(text, d, n - d)
    <3> HIDE DEF d
    <3>1. Lesser(npos, n - d) = n - d /\ 0 + d = d
      BY <2>2 DEF Lesser
    <3>2. QED
      BY <3>1 DEF FromPiece, FromString, Piece
  <2>4. ViewsStayInside(Piece(text, d, n - d))
    <3>1. d \in Nat /\ n - d \in Nat /\ d + (n - d) <= n /\ n - d < npos
      BY <2>2
    <3> HIDE DEF d
    <3>2. QED
      BY <2>1, <3>1, ViewsAlwaysStayInside
  <2>5. QED
    BY <2>1, <2>3, <2>4, SearchesAlwaysMirror, HitsAreAlwaysAll, OrderIsAlwaysConsistent
       DEF ViewsAreExact
<1>2. QED
  BY <1>1, TextInvHolds, PTL

-----------------------------------------------------------------------------
(* The part of a string from position i up to, and without, position j.     *)
Cut(t, i, j) == SubSeq(t, i + 1, j)
(* What a part is.                                                          *)
LEMMA CutIs ==
  ASSUME NEW t \in String, NEW j \in 0 .. Len(t), NEW i \in 0 .. j
  PROVE  /\ Cut(t, i, j) \in String /\ Len(Cut(t, i, j)) = j - i
         /\ \A k \in 1 .. j - i : Cut(t, i, j)[k] = t[i + k]
<1>1. i + 1 \in Int /\ j \in Int /\ \A k \in i + 1 .. j : t[k] \in 0 .. 255
  <2>1. Len(t) \in Nat
    BY StringFacts
  <2>2. ASSUME NEW k \in i + 1 .. j PROVE k \in 1 .. Len(t)
    BY <2>1
  <2>3. QED
    BY <2>1, <2>2, StringFacts
<1> DEFINE w == SubSeq(t, i + 1, j)
<1>2. /\ w \in Seq(0 .. 255)
      /\ Len(w) = IF i + 1 <= j THEN j - (i + 1) + 1 ELSE 0
      /\ \A k \in 1 .. j - (i + 1) + 1 : w[k] = t[i + 1 + k - 1]
  BY <1>1, SubSeqProperties
<1> HIDE DEF w
<1>3. j - (i + 1) + 1 = j - i /\ (IF i + 1 <= j THEN j - (i + 1) + 1 ELSE 0) = j - i
  OBVIOUS
<1>4. \A k \in 1 .. j - i : i + 1 + k - 1 = i + k
  OBVIOUS
<1>5. QED
  BY <1>2, <1>3, <1>4 DEF Cut, w, String

(* What a string of two parts is.                                           *)
LEMMA JoinedIs ==
  ASSUME NEW p \in String, NEW q \in String
  PROVE  /\ p \o q \in String /\ Len(p \o q) = Len(p) + Len(q)
         /\ \A i \in 1 .. Len(p) : (p \o q)[i] = p[i]
         /\ \A i \in 1 .. Len(q) : (p \o q)[Len(p) + i] = q[i]
<1>1. Len(p) \in Nat /\ Len(q) \in Nat
  BY StringFacts
<1>2. /\ p \o q \in Seq(0 .. 255) /\ Len(p \o q) = Len(p) + Len(q)
      /\ \A i \in 1 .. Len(p) + Len(q) :
           (p \o q)[i] = IF i <= Len(p) THEN p[i] ELSE q[i - Len(p)]
  BY ConcatProperties DEF String
<1>3. ASSUME NEW i \in 1 .. Len(p) PROVE (p \o q)[i] = p[i]
  BY <1>1, <1>2
<1>4. ASSUME NEW i \in 1 .. Len(q) PROVE (p \o q)[Len(p) + i] = q[i]
  <2>1. Len(p) + i \in 1 .. Len(p) + Len(q) /\ ~(Len(p) + i <= Len(p)) /\ (Len(p) + i) - Len(p) = i
    BY <1>1
  <2>2. QED
    BY <1>2, <2>1
<1>5. QED
  BY <1>2, <1>3, <1>4 DEF String

(* A string cut in two is the string.                                       *)
LEMMA CutsJoin ==
  ASSUME NEW t \in String, NEW k \in 0 .. Len(t), NEW j \in 0 .. k, NEW i \in 0 .. j
  PROVE  Cut(t, i, j) \o Cut(t, j, k) = Cut(t, i, k)
<1>1. Len(t) \in Nat /\ t \in Seq(0 .. 255)
  BY StringFacts DEF String
<1>2. i + 1 \in 1 .. Len(t) + 1 /\ j \in (i + 1) - 1 .. Len(t) /\ k \in j .. Len(t)
  BY <1>1
<1>3. SubSeq(t, i + 1, j) \o SubSeq(t, j + 1, k) = SubSeq(t, i + 1, k)
  BY <1>1, <1>2, ConcatAdjacentSubSeq
<1>4. QED
  BY <1>3 DEF Cut

(* All of a string, none of it, and one character.                          *)
LEMMA CutEnds ==
  ASSUME NEW t \in String
  PROVE  /\ Cut(t, 0, Len(t)) = t
         /\ \A i \in 0 .. Len(t) : Cut(t, i, i) = <<>>
         /\ \A i \in 1 .. Len(t) : Cut(t, i - 1, i) = <<t[i]>>
<1>1. Len(t) \in Nat /\ t \in Seq(0 .. 255)
  BY StringFacts DEF String
<1>2. Cut(t, 0, Len(t)) = t
  BY <1>1, SubSeqFull DEF Cut
<1>3. ASSUME NEW i \in 0 .. Len(t) PROVE Cut(t, i, i) = <<>>
  BY <1>1, SubSeqEmpty DEF Cut
<1>4. ASSUME NEW i \in 1 .. Len(t) PROVE Cut(t, i - 1, i) = <<t[i]>>
  <2>1. (i - 1) + 1 = i /\ i \in Nat
    BY <1>1
  <2>2. Cut(t, i - 1, i) = SubSeq(t, i, i)
    BY <2>1 DEF Cut
  <2>3. QED
    BY <1>1, <2>2
<1>5. QED
  BY <1>2, <1>3, <1>4

(* std::string::substr(), inside the string and beyond its end.             *)
LEMMA SubStrIs ==
  ASSUME NEW t \in String, Len(t) < npos
  PROVE  /\ \A j \in 0 .. Len(t) : \A i \in 0 .. j : SubStr(t, i, j - i) = Cut(t, i, j)
         /\ \A i \in 0 .. Len(t) : From(t, i) = Cut(t, i, Len(t))
         /\ \A i \in Nat : i > Len(t) => From(t, i) = <<>> /\ SubStr(t, 0, i) = t
<1> DEFINE n == Len(t)
<1>1. n \in Nat /\ npos \in Nat
  BY StringFacts, NposAssumption
<1>2. ASSUME NEW i \in Nat, NEW k \in Nat
      PROVE  SubStr(t, i, k) = Cut(t, Lesser(i, n), Lesser(i, n) + Lesser(k, n - Lesser(i, n)))
  <2>1. FromString(t).ptr = 0 /\ FromString(t).buffer = t /\ size(FromString(t)) = n
    BY WholeView DEF FromString, Piece
  <2>2. substr(FromString(t), i, k) = Piece(t, 0 + Lesser(i, n), Lesser(k, n - Lesser(i, n)))
    BY <2>1 DEF substr
  <2>3. Lesser(i, n) \in Nat
    BY <1>1 DEF Lesser
  <2>4. 0 + Lesser(i, n) = Lesser(i, n)
    BY <2>3
  <2>5. \A p, k2 : as_string(Piece(t, p, k2)) = SubSeq(t, p + 1, p + k2)
    BY DEF as_string, Piece
  <2> HIDE DEF n
  <2>6. QED
    BY <2>2, <2>4, <2>5 DEF SubStr, Cut
<1>3. ASSUME NEW j \in 0 .. n, NEW i \in 0 .. j PROVE SubStr(t, i, j - i) = Cut(t, i, j)
  <2>1. /\ i \in Nat /\ j - i \in Nat /\ Lesser(i, n) = i /\ Lesser(j - i, n - i) = j - i
        /\ i + (j - i) = j
    BY <1>1 DEF Lesser
  <2> HIDE DEF n
  <2>2. QED
    BY <1>2, <2>1
<1>4. ASSUME NEW i \in 0 .. n PROVE From(t, i) = Cut(t, i, n)
  <2>1. i \in Nat /\ Lesser(i, n) = i /\ Lesser(npos, n - i) = n - i /\ i + (n - i) = n
    BY <1>1 DEF Lesser
  <2> HIDE DEF n
  <2>2. QED
    BY <1>1, <1>2, <2>1 DEF From
<1>5. ASSUME NEW i \in Nat, i > n PROVE From(t, i) = <<>> /\ SubStr(t, 0, i) = t
  <2>1. Lesser(i, n) = n /\ Lesser(npos, n - n) = 0 /\ n + 0 = n
    BY <1>1, <1>5 DEF Lesser
  <2>2. Lesser(0, n) = 0 /\ Lesser(i, n - 0) = n /\ 0 + n = n
    BY <1>1, <1>5 DEF Lesser
  <2>3. From(t, i) = Cut(t, n, n) /\ SubStr(t, 0, i) = Cut(t, 0, n)
    <3> HIDE DEF n
    <3>1. QED
      BY <1>1, <1>2, <2>1, <2>2 DEF From
  <2>4. QED
    BY <1>1, <2>3, CutEnds
<1>6. QED
  BY <1>3, <1>4, <1>5

(* find_first_of() at the very beginning.                                   *)
LEMMA PrefixIs ==
  ASSUME NEW t \in String, NEW s \in String, Len(t) + 1 < npos
  PROVE  StartWithPrefix(t, s) <=> Len(t) > 0 /\ \E k \in 1 .. Len(s) : t[1] = s[k]
<1> DEFINE v == FromString(t)
           H == {i \in 0 .. size(v) - 1 : At(v, i) \in ToSet(s)}
<1>1. size(v) = Len(t) /\ Len(t) \in Nat /\ Len(s) \in Nat /\ npos \in Nat /\ npos # 0
  BY WholeView, StringFacts, NposAssumption
<1>2. find_first_of(t, s, 0) = IF H = {} THEN npos ELSE Min(H)
  BY DEF find_first_of, ScanUp
<1>3. H \in SUBSET Nat
  BY <1>1
<1>4. ToSet(s) = {s[k] : k \in 1 .. Len(s)}
  BY StringFacts DEF ToSet
<1>5. At(v, 0) = t[1]
  <2>1. At(v, 0) = t[0 + 1]
    BY WholeView
  <2>2. QED
    BY <2>1
<1>6. 0 \in H <=> Len(t) > 0 /\ \E k \in 1 .. Len(s) : t[1] = s[k]
  BY <1>1, <1>4, <1>5
<1> HIDE DEF H
<1>7. 0 \in H => Min(H) = 0
  BY <1>3, LeastIs
<1>8. H # {} => Min(H) \in H
  BY <1>3, LeastPosition
<1>9. find_first_of(t, s, 0) = 0 <=> 0 \in H
  BY <1>1, <1>2, <1>7, <1>8
<1>10. QED
  BY <1>6, <1>9 DEF StartWithPrefix

(* rfind() from the end.                                                    *)
LEMMA SuffixIs ==
  ASSUME NEW t \in String, NEW s \in String, Len(t) + 1 < npos
  PROVE  EndWithSuffix(t, s) <=> Len(s) <= Len(t) /\ Stands(t, s, Len(t) - Len(s))
<1>1. Len(t) \in Nat /\ Len(s) \in Nat /\ npos \in Nat
  BY StringFacts, NposAssumption
<1>2. CASE Len(s) > Len(t)
  BY <1>1, <1>2 DEF EndWithSuffix
<1>3. CASE Len(s) <= Len(t)
  <2> DEFINE last == Len(t) - Len(s)
             P == Places(t, s, 0, last)
             r == rfind(FromString(t), FromString(s), npos)
  <2>1. last \in Nat /\ Lesser(last, npos) = last /\ last # npos
    BY <1>1, <1>3 DEF Lesser
  <2>2. r = IF s = <<>> THEN last ELSE IF P = {} THEN npos ELSE Max(P)
    <3>1. npos \in Nat /\ Len(s) <= Len(t) /\ Lesser(Len(t) - Len(s), npos) = last
      BY <1>1, <1>3, <2>1
    <3>2. r = RFound(t, s, last)
      BY <3>1, RFindIs
    <3>3. QED
      BY <3>2 DEF RFound
  <2>3. EndWithSuffix(t, s) <=> r = last
    BY <1>3, <2>1 DEF EndWithSuffix
  <2>4. last \in P <=> Stands(t, s, last)
    BY <2>1 DEF Places
  <2>5. P \in SUBSET (0 .. last)
    BY DEF Places
  <2>6. s = <<>> => Stands(t, s, last)
    <3>1. Len(<<>>) = 0 /\ 1 .. 0 = {}
      OBVIOUS
    <3>2. QED
      BY <3>1 DEF Stands
  <2> HIDE DEF last, P, r
  <2>7. P # {} => Max(P) \in P /\ \A x \in P : x <= Max(P)
    BY <2>1, <2>5, GreatestPosition
  <2>8. last \in P => Max(P) = last
    <3>1. P \in SUBSET Nat /\ \A x \in P : x <= last
      BY <2>1, <2>5
    <3>2. QED
      BY <3>1, GreatestIs
  <2>9. r = last <=> Stands(t, s, last)
    BY <2>1, <2>2, <2>4, <2>6, <2>7, <2>8
  <2>10. QED
    BY <1>3, <2>3, <2>9 DEF last
<1>4. QED
  BY <1>1, <1>2, <1>3

(* str_utils.cc:111-143: prefixes and suffixes are recognised, and can be   *)
(* taken off and put on again.                                              *)
LEMMA AffixesAlwaysAgree ==
  ASSUME NEW t \in String, NEW s \in String, Len(t) + 1 < npos
  PROVE  AffixesAgree(t, s)
<1> DEFINE n == Len(t)
           m == Len(s)
<1>1. n \in Nat /\ m \in Nat /\ npos \in Nat /\ n < npos /\ (s = <<>> <=> m = 0)
  <2>1. s \in Seq(0 .. 255)
    BY DEF String
  <2>2. s = <<>> <=> m = 0
    BY <2>1, EmptySeq
  <2>3. QED
    BY <2>2, StringFacts, NposAssumption
<1>2. EndWithSuffix(t, s) <=> ends_with(FromString(t), FromString(s))
  <2> DEFINE v == remove_prefix(FromString(t), n - m)
             w == as_string(v)
  <2>1. ends_with(FromString(t), FromString(s)) <=> n >= m /\ wordmemcmp(w, s, m) = 0
    BY WholeView DEF ends_with
  <2>2. ASSUME n >= m PROVE wordmemcmp(w, s, m) = 0 <=> Stands(t, s, n - m)
    <3>1. v.buffer = t /\ v.ptr = 0 + (n - m) /\ v.length = n - (n - m)
      BY DEF remove_prefix, FromString, Piece
    <3>2. 0 + (n - m) = n - m /\ (n - m) + (n - (n - m)) = n /\ n - (n - m) = m
      BY <1>1, <2>2
    <3>3. w = SubSeq(t, (n - m) + 1, n)
      BY <3>1, <3>2 DEF as_string
    <3>4. w = Cut(t, n - m, n)
      BY <3>3 DEF Cut
    <3>5. n - m \in 0 .. n /\ n \in 0 .. n
      BY <1>1, <2>2
    <3> HIDE DEF w
    <3>6. w \in String /\ Len(w) = m /\ \A k \in 1 .. m : w[k] = t[(n - m) + k]
      BY <3>2, <3>4, <3>5, CutIs
    <3>7. m \in 0 .. Lesser(Len(w), Len(s))
      BY <1>1, <3>6 DEF Lesser
    <3>8. wordmemcmp(w, s, m) = 0 <=> \A k \in 1 .. m : w[k] = s[k]
      BY <3>6, <3>7, ComparisonIs
    <3>9. QED
      BY <3>6, <3>8 DEF Stands
  <2> HIDE DEF w
  <2>3. QED
    BY <1>1, <2>1, <2>2, SuffixIs
<1>3. ASSUME EndWithSuffix(t, s) PROVE RemoveSuffix(t, s) \o s = t
  <2>1. m <= n /\ Stands(t, s, n - m)
    BY <1>3, SuffixIs
  <2>2. n - m \in 0 .. n /\ 0 \in 0 .. n - m /\ (n - m) - 0 = n - m /\ n \in 0 .. n
    BY <1>1, <2>1
  <2>3. RemoveSuffix(t, s) = Cut(t, 0, n - m)
    <3>1. SubStr(t, 0, n - m) = Cut(t, 0, n - m)
      BY <1>1, <2>2, SubStrIs
    <3>2. QED
      BY <1>3, <3>1 DEF RemoveSuffix
  <2>4. s = Cut(t, n - m, n)
    <3> DEFINE c == Cut(t, n - m, n)
    <3>1. c \in String /\ Len(c) = n - (n - m) /\ \A k \in 1 .. n - (n - m) : c[k] = t[(n - m) + k]
      BY <2>2, CutIs
    <3>2. n - (n - m) = m
      BY <1>1
    <3>3. \A k \in 1 .. m : c[k] = s[k]
      BY <2>1, <3>1, <3>2 DEF Stands
    <3> HIDE DEF c
    <3>4. c = s
      BY <3>1, <3>2, <3>3, SameCharacters
    <3>5. QED
      BY <3>4 DEF c
  <2>5. Cut(t, 0, n - m) \o Cut(t, n - m, n) = Cut(t, 0, n)
    BY <2>2, CutsJoin
  <2>6. QED
    BY <2>3, <2>4, <2>5, CutEnds
<1>4. starts_with(FromString(t), FromString(s)) <=> m <= n /\ Stands(t, s, 0)
  <2>1. substr(FromString(t), 0, npos) = FromString(t)
    <3>1. substr(FromString(t), 0, npos) = Piece(t, 0, n - 0)
      BY <1>1, TailView
    <3>2. n - 0 = n
      BY <1>1
    <3>3. QED
      BY <3>1, <3>2 DEF FromString
  <2>2. starts_with(substr(FromString(t), 0, npos), FromString(s)) <=> 0 <= n - m /\ Stands(t, s, 0)
    BY <1>1, StartsThere
  <2>3. QED
    BY <1>1, <2>1, <2>2
<1>5. ASSUME m = 1
      PROVE  StartWithPrefix(t, s) <=> starts_with(FromString(t), FromString(s))
  <2>1. StartWithPrefix(t, s) <=> n > 0 /\ t[1] = s[1]
    <3>1. 1 .. Len(s) = {1}
      BY <1>5
    <3>2. StartWithPrefix(t, s) <=> Len(t) > 0 /\ \E k \in 1 .. Len(s) : t[1] = s[k]
      BY PrefixIs
    <3>3. QED
      BY <3>1, <3>2
  <2>2. Stands(t, s, 0) <=> t[0 + 1] = s[1]
    BY <1>5 DEF Stands
  <2>3. QED
    BY <1>1, <1>4, <1>5, <2>1, <2>2
<1>6. ASSUME s # <<>>, starts_with(FromString(t), FromString(s))
      PROVE  StartWithPrefix(t, s) /\ s \o RemovePrefix(t, s) = t
  <2>1. m <= n /\ Stands(t, s, 0) /\ 1 \in 1 .. m
    BY <1>1, <1>4, <1>6
  <2>2. t[0 + 1] = s[1]
    BY <2>1 DEF Stands
  <2>3. StartWithPrefix(t, s)
    BY <1>1, <2>1, <2>2, PrefixIs
  <2>4. m \in 0 .. n /\ 0 \in 0 .. m /\ n \in 0 .. n /\ ~(m > n) /\ m - 0 = m
    BY <1>1, <2>1
  <2>5. RemovePrefix(t, s) = Cut(t, m, n)
    BY <1>1, <2>3, <2>4, SubStrIs DEF RemovePrefix
  <2>6. s = Cut(t, 0, m)
    <3> DEFINE c == Cut(t, 0, m)
    <3>1. c \in String /\ Len(c) = m /\ \A k \in 1 .. m : c[k] = t[0 + k]
      BY <2>4, CutIs
    <3>2. \A k \in 1 .. m : c[k] = s[k]
      BY <2>1, <3>1 DEF Stands
    <3> HIDE DEF c
    <3>3. c = s
      BY <3>1, <3>2, SameCharacters
    <3>4. QED
      BY <3>3 DEF c
  <2>7. Cut(t, 0, m) \o Cut(t, m, n) = Cut(t, 0, n)
    BY <2>4, CutsJoin
  <2>8. QED
    BY <2>3, <2>5, <2>6, <2>7, CutEnds
<1>7. QED
  BY <1>2, <1>3, <1>5, <1>6 DEF AffixesAgree

(* Ascii's table, class by class, as far as letters go.                     *)
ClassFacts(c) ==
  /\ IncludesAny(c, {"Upper"}) <=> c \in 65 .. 90
  /\ IncludesAny(c, {"Lower"}) <=> c \in 97 .. 122
  /\ IncludesAny(c, {"Graph"}) <=> c \in 33 .. 126
  /\ IncludesAny(c, {"Upper", "Lower", "Digit", "Punct"}) <=> c \in 33 .. 126
  /\ ClassTable[c] \cap {"Control", "Print"} # {} <=> c < 128
(* It is so for every character.                                            *)
LEMMA ClassesAre ==
  ASSUME NEW c \in 0 .. 255
  PROVE  ClassFacts(c)
<1> DEFINE S == ClassTable[c]
<1>1. /\ "Upper" \in S <=> c \in 65 .. 90
      /\ "Lower" \in S <=> c \in 97 .. 122
      /\ "Digit" \in S <=> c \in 48 .. 57
      /\ "Punct" \in S <=> c \in 33 .. 47 \cup 58 .. 64 \cup 91 .. 96 \cup 123 .. 126
      /\ "Graph" \in S <=> c \in 33 .. 126
      /\ "Control" \in S <=> c \in 0 .. 31 \cup {127}
      /\ "Print" \in S <=> c \in 32 .. 126
  <2> DEFINE In(name, B) == IF c \in B THEN {name} ELSE {}
  <2>1. S = In("Upper", 65 .. 90) \cup In("Lower", 97 .. 122) \cup In("Digit", 48 .. 57) \cup
            In("HexDigit", 48 .. 57 \cup 65 .. 70 \cup 97 .. 102) \cup In("Blank", {9, 32}) \cup
            In("Space", 9 .. 13 \cup {32}) \cup In("Control", 0 .. 31 \cup {127}) \cup
            In("Punct", 33 .. 47 \cup 58 .. 64 \cup 91 .. 96 \cup 123 .. 126) \cup
            In("Print", 32 .. 126) \cup In("Graph", 33 .. 126)
    BY DEF ClassTable
  <2>2. \A x, name, B : x \in In(name, B) <=> x = name /\ c \in B
    OBVIOUS
  <2> HIDE DEF S, In
  <2>3. QED
    BY <2>1, <2>2
<1> HIDE DEF S
<1>2. /\ S \cap {"Upper"} # {} <=> "Upper" \in S
      /\ S \cap {"Lower"} # {} <=> "Lower" \in S
      /\ S \cap {"Graph"} # {} <=> "Graph" \in S
      /\ S \cap {"Upper", "Lower", "Digit", "Punct"} # {}
           <=> "Upper" \in S \/ "Lower" \in S \/ "Digit" \in S \/ "Punct" \in S
      /\ S \cap {"Control", "Print"} # {} <=> "Control" \in S \/ "Print" \in S
  OBVIOUS
<1>3. QED
  BY <1>1, <1>2 DEF IncludesAny, S, ClassFacts

(* The two conversions, by the codes of the letters.                        *)
CaseFacts(c) ==
  /\ (c \in 65 .. 90 => ToLower(c) = c + 32) /\ (c \notin 65 .. 90 => ToLower(c) = c)
  /\ (c \in 97 .. 122 => ToUpper(c) = c - 32) /\ (c \notin 97 .. 122 => ToUpper(c) = c)
(* It is so for every character.                                            *)
LEMMA CasesAre ==
  ASSUME NEW c \in 0 .. 255
  PROVE  CaseFacts(c)
<1>1. ClassFacts(c)
  BY ClassesAre
<1>2. IncludesAny(c, {"Upper"}) <=> c \in 65 .. 90
  BY <1>1 DEF ClassFacts
<1>3. IncludesAny(c, {"Lower"}) <=> c \in 97 .. 122
  BY <1>1 DEF ClassFacts
<1>4. (c \in 65 .. 90 => ToLower(c) = c + 32) /\ (c \notin 65 .. 90 => ToLower(c) = c)
  BY <1>2 DEF ToLower
<1>5. (c \in 97 .. 122 => ToUpper(c) = c - 32) /\ (c \notin 97 .. 122 => ToUpper(c) = c)
  BY <1>3 DEF ToUpper
<1>6. QED
  BY <1>4, <1>5 DEF CaseFacts

(* ascii.cc, str_utils.cc:84-108: the table and the two conversions agree.  *)
LEMMA CaseIsAlwaysStable ==
  ASSUME NEW t \in String
  PROVE  CaseIsStable(t)
<1>1. DOMAIN t = 1 .. Len(t) /\ \A i \in 1 .. Len(t) : t[i] \in 0 .. 255
  BY StringFacts
<1>2. ASSUME NEW c \in 0 .. 255
      PROVE  /\ ToLower(ToUpper(ToLower(c))) = ToLower(c)
             /\ ToLower(c) # c => ToUpper(ToLower(c)) = c
  <2> DEFINE l == ToLower(c)
             u == ToUpper(l)
  <2>1. CaseFacts(c)
    BY CasesAre
  <2>2. (c \in 65 .. 90 => l = c + 32) /\ (c \notin 65 .. 90 => l = c)
    BY <2>1 DEF CaseFacts
  <2> HIDE DEF l
  <2>3. l \in 0 .. 255
    BY <2>2
  <2>4. CaseFacts(l)
    BY <2>3, CasesAre
  <2>5. (l \in 97 .. 122 => u = l - 32) /\ (l \notin 97 .. 122 => u = l)
    BY <2>4 DEF CaseFacts
  <2> HIDE DEF u
  <2>6. u \in 0 .. 255
    BY <2>3, <2>5
  <2>7. CaseFacts(u)
    BY <2>6, CasesAre
  <2>8. (u \in 65 .. 90 => ToLower(u) = u + 32) /\ (u \notin 65 .. 90 => ToLower(u) = u)
    BY <2>7 DEF CaseFacts
  <2>9. ToLower(u) = l /\ (l # c => u = c)
    BY <2>2, <2>3, <2>5, <2>8
  <2>10. QED
    BY <2>9 DEF l, u
<1>3. /\ toLower(t) = [i \in 1 .. Len(t) |-> ToLower(t[i])]
      /\ toUpper(toLower(t)) = [i \in 1 .. Len(t) |-> ToUpper(ToLower(t[i]))]
      /\ toLower(toUpper(toLower(t))) = [i \in 1 .. Len(t) |-> ToLower(ToUpper(ToLower(t[i])))]
  BY <1>1 DEF toLower, toUpper
<1>4. toLower(toUpper(toLower(t))) = toLower(t)
  BY <1>1, <1>2, <1>3
<1>5. ASSUME NEW i \in 1 .. Len(t)
      PROVE  /\ IncludesAny(t[i], {"Graph"})
                  <=> IncludesAny(t[i], {"Upper", "Lower", "Digit", "Punct"})
             /\ ClassTable[t[i]] \cap {"Control", "Print"} # {} <=> t[i] < 128
             /\ toLower(t)[i] # t[i] => toUpper(toLower(t))[i] = t[i]
  <2>1. /\ IncludesAny(t[i], {"Graph"})
             <=> IncludesAny(t[i], {"Upper", "Lower", "Digit", "Punct"})
        /\ ClassTable[t[i]] \cap {"Control", "Print"} # {} <=> t[i] < 128
    <3>1. PICK c \in 0 .. 255 : c = t[i]
      BY <1>1
    <3>2. ClassFacts(c)
      BY ClassesAre
    <3>3. QED
      BY <3>1, <3>2 DEF ClassFacts
  <2>2. toLower(t)[i] = ToLower(t[i]) /\ toUpper(toLower(t))[i] = ToUpper(ToLower(t[i]))
    BY <1>3
  <2>3. QED
    BY <1>1, <1>2, <2>1, <2>2
<1>6. QED
  BY <1>1, <1>4, <1>5 DEF CaseIsStable

-----------------------------------------------------------------------------
(* Recursion.  A set of points at each of which something is wrong, and     *)
(* with each of them the next, of a smaller measure, is empty.              *)
GoesOn(S, m, next, Wrong) ==
  /\ m \in [S -> Nat] /\ Wrong \subseteq S
  /\ \A x \in Wrong : next[x] \in Wrong /\ m[next[x]] < m[x]
(* For there is no end to it.                                               *)
LEMMA NoLeastWrong ==
  ASSUME NEW S, NEW m, NEW next, NEW Wrong, GoesOn(S, m, next, Wrong)
  PROVE  Wrong = {}
<1>0. /\ m \in [S -> Nat] /\ Wrong \subseteq S
      /\ \A x \in Wrong : next[x] \in Wrong /\ m[next[x]] < m[x]
  BY DEF GoesOn
<1>1. SUFFICES ASSUME Wrong # {} PROVE FALSE
  OBVIOUS
<1> DEFINE M == {m[x] : x \in Wrong}
<1>2. M \in SUBSET Nat /\ M # {}
  BY <1>0, <1>1
<1>3. PICK k \in M : \A j \in M : k <= j
  BY <1>2, LeastNatural
<1>4. PICK x \in Wrong : k = m[x]
  BY <1>3
<1> DEFINE y == next[x]
<1>5. y \in Wrong /\ m[y] < m[x]
  BY <1>0, <1>4
<1>6. m[y] \in M /\ m[y] \in Nat /\ m[x] \in Nat
  BY <1>0, <1>4, <1>5
<1>7. QED
  BY <1>3, <1>4, <1>5, <1>6

(* What a recursive function says: at the points of Stop it has a value of  *)
(* its own, everywhere else it makes its value of that at the next point.   *)
Recurs(f, x, Stop, base, step, next) ==
  f[x] = IF x \in Stop THEN base[x] ELSE step[x][f[next[x]]]

(* If the next point is always nearer to the end, there is such a function. *)
Recursion(S, V, Stop, m, base, step, next) ==
  /\ m \in [S -> Nat] /\ next \in [S -> S] /\ base \in [S -> V] /\ step \in [S -> [V -> V]]
  /\ \A x \in S \ Stop : m[next[x]] < m[x]
(* It is built point by point, from the end.                                *)
LEMMA RecursionIsDefined ==
  ASSUME NEW S, NEW V, NEW Stop, NEW m, NEW base, NEW step, NEW next,
         Recursion(S, V, Stop, m, base, step, next)
  PROVE  \E f \in [S -> V] : \A x \in S : Recurs(f, x, Stop, base, step, next)
<1>0. /\ m \in [S -> Nat] /\ next \in [S -> S] /\ base \in [S -> V] /\ step \in [S -> [V -> V]]
      /\ \A x \in S \ Stop : m[next[x]] < m[x]
  BY DEF Recursion
<1> DEFINE Good(f, n) == \A x \in S : m[x] <= n => Recurs(f, x, Stop, base, step, next)
           Bad == {n \in Nat : ~\E f \in [S -> V] : Good(f, n)}
           Body(f) == [x \in S |-> IF x \in Stop THEN base[x] ELSE step[x][f[next[x]]]]
\* what is right as far as n is made right a step further
<1>1. ASSUME NEW f \in [S -> V] PROVE Body(f) \in [S -> V]
  BY <1>0
<1>2. ASSUME NEW f \in [S -> V], NEW n \in Nat,
             \A k \in Nat : k < n => Good(f, k)
      PROVE  Good(Body(f), n)
  <2>1. SUFFICES ASSUME NEW x \in S, m[x] <= n
                 PROVE  Recurs(Body(f), x, Stop, base, step, next)
    OBVIOUS
  <2>2. Body(f)[x] = IF x \in Stop THEN base[x] ELSE step[x][f[next[x]]]
    OBVIOUS
  <2>3. CASE x \in Stop
    BY <2>2, <2>3 DEF Recurs
  <2>4. CASE x \notin Stop
    <3> DEFINE y == next[x]
    <3>1. y \in S /\ m[y] < m[x] /\ m[y] \in Nat /\ m[x] \in Nat
      BY <1>0, <2>4
    <3>2. m[y] < n
      BY <2>1, <3>1
    <3>3. Recurs(f, y, Stop, base, step, next)
      BY <1>2, <3>1, <3>2
    <3>4. Body(f)[y] = f[y]
      BY <3>1, <3>3 DEF Recurs
    <3>5. QED
      BY <2>2, <3>4, Zenon DEF Recurs
  <2>5. QED
    BY <2>3, <2>4
<1>3. Bad = {}
  <2>1. SUFFICES ASSUME Bad # {} PROVE FALSE
    OBVIOUS
  <2>2. Bad \in SUBSET Nat
    OBVIOUS
  <2>3. PICK n \in Bad : \A k \in Bad : n <= k
    BY <2>1, <2>2, LeastNatural
  <2>4. n \in Nat /\ ~\E f \in [S -> V] : Good(f, n)
    BY <2>3
  <2>5. CASE n = 0
    <3>1. \A k \in Nat : k < 0 => Good(base, k)
      OBVIOUS
    <3>2. base \in [S -> V] /\ 0 \in Nat
      BY <1>0
    <3> HIDE DEF Good, Body
    <3>3. Good(Body(base), 0) /\ Body(base) \in [S -> V]
      BY <1>1, <1>2, <3>1, <3>2
    <3>4. QED
      BY <2>4, <2>5, <3>3
  <2>6. CASE n # 0
    <3>1. n - 1 \in Nat /\ n - 1 < n
      BY <2>4, <2>6
    <3>2. n - 1 \notin Bad
      BY <2>3, <2>4, <3>1
    <3>3. PICK f \in [S -> V] : Good(f, n - 1)
      BY <3>1, <3>2
    <3>4. ASSUME NEW k \in Nat, k < n PROVE Good(f, k)
      <4>1. \A x \in S : m[x] \in Nat /\ (m[x] <= k => m[x] <= n - 1)
        BY <1>0, <2>4, <3>4
      <4>2. QED
        BY <3>3, <4>1
    <3> HIDE DEF Good, Body
    <3>5. Good(Body(f), n) /\ Body(f) \in [S -> V]
      BY <1>1, <1>2, <2>4, <3>4
    <3>6. QED
      BY <2>4, <3>5
  <2>7. QED
    BY <2>5, <2>6
\* what is right as far as n is the same there
<1>4. ASSUME NEW n \in Nat, NEW f \in [S -> V], Good(f, n), NEW g \in [S -> V], Good(g, n),
             NEW x \in S, m[x] <= n
      PROVE  f[x] = g[x]
  <2> DEFINE Wrong == {z \in S : m[z] <= n /\ f[z] # g[z]}
  <2>1. ASSUME NEW z \in Wrong PROVE next[z] \in Wrong /\ m[next[z]] < m[z]
    <3>1. /\ f[z] = IF z \in Stop THEN base[z] ELSE step[z][f[next[z]]]
          /\ g[z] = IF z \in Stop THEN base[z] ELSE step[z][g[next[z]]]
      BY <1>4, <2>1 DEF Recurs
    <3>2. z \notin Stop /\ f[next[z]] # g[next[z]]
      BY <2>1, <3>1
    <3>3. next[z] \in S /\ m[next[z]] < m[z] /\ m[next[z]] \in Nat /\ m[z] \in Nat /\ m[z] <= n
      BY <1>0, <2>1, <3>2
    <3>4. QED
      BY <3>2, <3>3
  <2>2. GoesOn(S, m, next, Wrong)
    BY <1>0, <2>1 DEF GoesOn
  <2> HIDE DEF Wrong
  <2>3. Wrong = {}
    BY <2>2, NoLeastWrong
  <2>4. QED
    BY <1>4, <2>3 DEF Wrong
<1> DEFINE Upto(n) == CHOOSE f \in [S -> V] : Good(f, n)
           h == [x \in S |-> Upto(m[x])[x]]
<1>5. ASSUME NEW n \in Nat PROVE Upto(n) \in [S -> V] /\ Good(Upto(n), n)
  <2>1. n \notin Bad
    BY <1>3
  <2>2. \E f \in [S -> V] : Good(f, n)
    BY <2>1
  <2> HIDE DEF Good
  <2>3. QED
    BY <2>2
<1>6. h \in [S -> V]
  <2>1. \A x \in S : m[x] \in Nat
    BY <1>0
  <2> HIDE DEF Upto
  <2>2. QED
    BY <1>5, <2>1
<1>7. ASSUME NEW x \in S PROVE Recurs(h, x, Stop, base, step, next)
  <2> DEFINE f == Upto(m[x])
             y == next[x]
  <2>1. m[x] \in Nat /\ f \in [S -> V] /\ Good(f, m[x]) /\ h[x] = f[x]
    BY <1>0, <1>5
  <2>2. f[x] = IF x \in Stop THEN base[x] ELSE step[x][f[y]]
    BY <2>1 DEF Recurs
  <2>3. CASE x \in Stop
    BY <2>1, <2>2, <2>3 DEF Recurs
  <2>4. CASE x \notin Stop
    <3>1. y \in S /\ m[y] \in Nat /\ m[y] < m[x]
      BY <1>0, <2>4
    <3>2. Good(f, m[y])
      <4>1. \A z \in S : m[z] \in Nat /\ (m[z] <= m[y] => m[z] <= m[x])
        BY <1>0, <2>1, <3>1
      <4> HIDE DEF f
      <4>2. QED
        BY <2>1, <4>1
    <3>3. Upto(m[y]) \in [S -> V] /\ Good(Upto(m[y]), m[y]) /\ h[y] = Upto(m[y])[y]
      BY <1>5, <3>1
    <3>4. m[y] <= m[y]
      BY <3>1
    <3>5. h[y] = f[y]
      <4> HIDE DEF Good, Upto, h, f, y
      <4>1. QED
        BY <1>4, <2>1, <3>1, <3>2, <3>3, <3>4
    <3>6. h[x] = IF x \in Stop THEN base[x] ELSE step[x][h[next[x]]]
      BY <2>1, <2>2, <2>4, <3>5
    <3> HIDE DEF h
    <3>7. QED
      BY <3>6 DEF Recurs
  <2>5. QED
    BY <2>3, <2>4
<1>8. QED
  BY <1>6, <1>7

(* Induction up to n, on the set of the numbers that something holds for.   *)
Climbs(n, Holds) == 0 \in Holds /\ \A k \in 0 .. n - 1 : k \in Holds => k + 1 \in Holds
(* It holds for all of them.                                                *)
LEMMA Climbing ==
  ASSUME NEW n \in Nat, NEW Holds, Climbs(n, Holds)
  PROVE  \A k \in 0 .. n : k \in Holds
<1> DEFINE Wrong == (0 .. n) \ Holds
<1>1. SUFFICES ASSUME Wrong # {} PROVE FALSE
  OBVIOUS
<1>2. Wrong \in SUBSET Nat
  OBVIOUS
<1>3. PICK k \in Wrong : \A j \in Wrong : k <= j
  BY <1>1, <1>2, LeastNatural
<1>4. k # 0 /\ k \in 0 .. n
  BY <1>3 DEF Climbs
<1>5. k - 1 \in 0 .. n - 1 /\ k - 1 \in 0 .. n /\ ~(k <= k - 1) /\ (k - 1) + 1 = k
  BY <1>4
<1>6. k - 1 \in Holds
  BY <1>3, <1>5
<1>7. k \in Holds
  BY <1>5, <1>6 DEF Climbs
<1>8. QED
  BY <1>3, <1>7

(* FlattenSeq(): what is flattened up to the i-th of n parts.               *)
Flattened(f, g, n) ==
  f \in [1 .. n -> String] /\ \A i \in 1 .. n : f[i] = IF i = 1 THEN g[i] ELSE f[i - 1] \o g[i]
(* It is there, and FlattenSeq is the last of it.                           *)
LEMMA FlattenIs ==
  ASSUME NEW g \in Seq(String), Len(g) # 0
  PROVE  \E f : Flattened(f, g, Len(g)) /\ FlattenSeq(g) = f[Len(g)]
<1> DEFINE n == Len(g)
           S == 1 .. n
           m == [i \in S |-> i]
           next == [i \in S |-> IF i = 1 THEN 1 ELSE i - 1]
           base == [i \in S |-> g[i]]
           step == [i \in S |-> [v \in String |-> v \o g[i]]]
           Body(f) == [i \in S |-> IF i = 1 THEN g[i] ELSE f[i - 1] \o g[i]]
           go[i \in 1 .. Len(g)] == IF i = 1 THEN g[i] ELSE go[i - 1] \o g[i]
<1>1. n \in Nat /\ n # 0 /\ \A i \in S : g[i] \in String
  <2>1. Len(g) \in Nat /\ \A i \in 1 .. Len(g) : g[i] \in String
    BY ElementOfSeq, LenProperties
  <2>2. QED
    BY <2>1
<1>2. Recursion(S, String, {1}, m, base, step, next)
  <2>1. ASSUME NEW i \in S PROVE i \in Nat /\ (i # 1 => i - 1 \in S)
    BY <1>1
  <2>2. m \in [S -> Nat]
    BY <2>1
  <2>3. next \in [S -> S]
    BY <2>1
  <2>4. base \in [S -> String]
    BY <1>1
  <2>5. step \in [S -> [String -> String]]
    <3>1. ASSUME NEW i \in S, NEW v \in String PROVE v \o g[i] \in String
      BY <1>1, JoinedIs
    <3> HIDE DEF n
    <3>2. QED
      BY <3>1
  <2>6. \A i \in S \ {1} : m[next[i]] < m[i]
    BY <2>1
  <2> HIDE DEF m, next, base, step
  <2>7. QED
    BY <2>2, <2>3, <2>4, <2>5, <2>6 DEF Recursion
<1>3. PICK f \in [S -> String] : \A x \in S : Recurs(f, x, {1}, base, step, next)
  <2> HIDE DEF S, m, next, base, step
  <2>1. QED
    BY <1>2, RecursionIsDefined
<1>4. ASSUME NEW i \in S PROVE f[i] = IF i = 1 THEN g[i] ELSE f[i - 1] \o g[i]
  <2>1. f[i] = IF i \in {1} THEN base[i] ELSE step[i][f[next[i]]]
    BY <1>3 DEF Recurs
  <2>2. CASE i = 1
    BY <2>1, <2>2
  <2>3. CASE i # 1
    <3>1. i - 1 \in S /\ next[i] = i - 1
      BY <1>1, <2>3
    <3>2. f[i - 1] \in String
      BY <3>1
    <3>3. step[i][f[i - 1]] = f[i - 1] \o g[i]
      BY <3>2
    <3>4. QED
      BY <2>1, <2>3, <3>1, <3>3
  <2>4. QED
    BY <2>2, <2>3
<1>5. f = Body(f)
  BY <1>4
<1>6. go = CHOOSE h : h = Body(h)
  OBVIOUS
<1>7. go = Body(go)
  <2> HIDE DEF go, Body
  <2>1. QED
    BY <1>5, <1>6
<1>8. \A i \in S : go[i] = IF i = 1 THEN g[i] ELSE go[i - 1] \o g[i]
  <2> HIDE DEF go
  <2>1. QED
    BY <1>7
<1>9. FlattenSeq(g) = go[n]
  BY DEF FlattenSeq
<1> HIDE DEF go
<1>10. ASSUME NEW i \in S PROVE go[i] = f[i]
  <2> DEFINE Holds == {k \in Nat : k + 1 \in S => go[k + 1] = f[k + 1]}
  <2>1. 0 \in Holds
    <3>1. 1 \in S
      BY <1>1
    <3>2. go[1] = f[1]
      BY <1>4, <1>8, <3>1
    <3>3. QED
      BY <3>2
  <2>2. ASSUME NEW k \in 0 .. n - 1, k \in Holds PROVE k + 1 \in Holds
    <3>1. SUFFICES ASSUME (k + 1) + 1 \in S PROVE go[(k + 1) + 1] = f[(k + 1) + 1]
      BY <1>1
    <3> DEFINE j == (k + 1) + 1
    <3>2. j \in S /\ j # 1 /\ j - 1 = k + 1 /\ k + 1 \in S
      BY <1>1, <3>1
    <3>3. go[j - 1] = f[j - 1]
      BY <2>2, <3>2
    <3> HIDE DEF j
    <3>4. go[j] = f[j]
      BY <1>4, <1>8, <3>2, <3>3
    <3>5. QED
      BY <3>4 DEF j
  <2>3. Climbs(n, Holds)
    BY <2>1, <2>2 DEF Climbs
  <2>4. i - 1 \in 0 .. n /\ (i - 1) + 1 = i
    BY <1>1
  <2> HIDE DEF Holds
  <2>5. i - 1 \in Holds
    BY <1>1, <2>3, <2>4, Climbing
  <2>6. QED
    BY <2>4, <2>5 DEF Holds
<1>11. Flattened(f, g, n)
  BY <1>4 DEF Flattened
<1>12. n \in S
  BY <1>1
<1>13. QED
  BY <1>9, <1>10, <1>11, <1>12

-----------------------------------------------------------------------------
(* Induction on sequences, on the set of those that something holds for.    *)
Grows(S, Holds) ==
  <<>> \in Holds /\ \A s \in Seq(S), e \in S : s \in Holds => s \o <<e>> \in Holds
(* It holds for all of them.                                                *)
LEMMA Growing ==
  ASSUME NEW S, NEW Holds, Grows(S, Holds)
  PROVE  \A s \in Seq(S) : s \in Holds
<1> DEFINE Long == {n \in Nat : \A s \in Seq(S) : Len(s) = n => s \in Holds}
<1>1. 0 \in Long
  <2>1. ASSUME NEW s \in Seq(S), Len(s) = 0 PROVE s = <<>>
    BY <2>1, EmptySeq
  <2>2. QED
    BY <2>1 DEF Grows
<1>2. ASSUME NEW n \in Nat, n \in Long PROVE n + 1 \in Long
  <2>1. SUFFICES ASSUME NEW s \in Seq(S), Len(s) = n + 1 PROVE s \in Holds
    OBVIOUS
  <2>2. s # <<>>
    BY <2>1, EmptySeq
  <2>3. PICK r \in Seq(S), e \in S : s = Append(r, e)
    BY <2>2, SequenceEmptyOrAppend
  <2>4. Len(r) \in Nat /\ Len(s) = Len(r) + 1
    BY <2>3, AppendProperties, LenProperties
  <2>5. Len(r) = n
    BY <2>1, <2>4
  <2>6. r \in Holds
    BY <1>2, <2>5
  <2>7. s = r \o <<e>>
    BY <2>3, AppendIsConcat
  <2>8. QED
    BY <2>6, <2>7 DEF Grows
<1>3. SUFFICES ASSUME NEW s \in Seq(S) PROVE s \in Holds
  OBVIOUS
<1>4. Len(s) \in Nat
  BY LenProperties
<1>5. Climbs(Len(s), Long)
  <2>1. \A k \in 0 .. Len(s) - 1 : k \in Nat
    BY <1>4
  <2> HIDE DEF Long
  <2>2. QED
    BY <1>1, <1>2, <2>1 DEF Climbs
<1>6. Len(s) \in 0 .. Len(s)
  BY <1>4
<1> HIDE DEF Long
<1>7. Len(s) \in Long
  BY <1>4, <1>5, <1>6, Climbing
<1>8. QED
  BY <1>7 DEF Long

(* The empty string, and a string of one character.                         *)
LEMMA ShortStrings ==
  /\ <<>> \in String /\ Len(<<>>) = 0
  /\ \A x \in 0 .. 255 : <<x>> \in String /\ Len(<<x>>) = 1 /\ <<x>>[1] = x
  /\ \A t \in String : t \o <<>> = t /\ <<>> \o t = t
<1>1. <<>> \in String /\ Len(<<>>) = 0
  BY EmptySeq DEF String
<1>2. ASSUME NEW x \in 0 .. 255 PROVE <<x>> \in String /\ Len(<<x>>) = 1 /\ <<x>>[1] = x
  BY DEF String
<1>3. ASSUME NEW t \in String PROVE t \o <<>> = t /\ <<>> \o t = t
  BY ConcatEmptySeq DEF String
<1>4. QED
  BY <1>1, <1>2, <1>3

(* Three strings, joined one way or the other.                              *)
LEMMA JoinedAnyWay ==
  ASSUME NEW p \in String, NEW q \in String, NEW r \in String
  PROVE  (p \o q) \o r = p \o (q \o r)
BY ConcatAssociative DEF String

(* FlattenSeq(), one part more.                                             *)
LEMMA FlattenGrows ==
  ASSUME NEW g \in Seq(String), NEW x \in String
  PROVE  FlattenSeq(g \o <<x>>) = FlattenSeq(g) \o x
<1> DEFINE h == g \o <<x>>
           n == Len(g)
<1>1. /\ n \in Nat /\ h \in Seq(String) /\ Len(h) = n + 1 /\ h[n + 1] = x
      /\ \A i \in 1 .. n : h[i] = g[i]
  <2>1. h = Append(g, x)
    BY AppendIsConcat
  <2> HIDE DEF h
  <2>2. QED
    BY <2>1, AppendProperties, LenProperties
<1> HIDE DEF h
<1>2. n + 1 # 0
  BY <1>1
<1>3. PICK f : Flattened(f, h, n + 1) /\ FlattenSeq(h) = f[n + 1]
  BY <1>1, <1>2, FlattenIs
<1>4. CASE n = 0
  <2>1. g = <<>>
    BY <1>4, EmptySeq
  <2>2. FlattenSeq(g) = <<>>
    BY <1>4, <2>1 DEF FlattenSeq
  <2>3. FlattenSeq(h) = x
    BY <1>1, <1>3, <1>4 DEF Flattened
  <2>4. QED
    BY <2>2, <2>3, ShortStrings DEF h
<1>5. CASE n # 0
  <2>1. PICK e : Flattened(e, g, n) /\ FlattenSeq(g) = e[n]
    BY <1>5, FlattenIs
  <2> DEFINE Holds == {k \in Nat : k \in 1 .. n => f[k] = e[k]}
  <2>2. 0 \in Holds
    BY <1>1
  <2>3. ASSUME NEW k \in 0 .. n - 1, k \in Holds PROVE k + 1 \in Holds
    <3>1. k + 1 \in 1 .. n /\ k + 1 \in 1 .. n + 1 /\ k + 1 \in Nat /\ (k + 1) - 1 = k
      BY <1>1
    <3>2. /\ f[k + 1] = IF k + 1 = 1 THEN h[k + 1] ELSE f[k] \o h[k + 1]
          /\ e[k + 1] = IF k + 1 = 1 THEN g[k + 1] ELSE e[k] \o g[k + 1]
      BY <1>3, <2>1, <3>1 DEF Flattened
    <3>3. h[k + 1] = g[k + 1]
      BY <1>1, <3>1
    <3>4. k + 1 # 1 => k \in 1 .. n
      BY <1>1
    <3>5. k + 1 # 1 => f[k] = e[k]
      BY <2>3, <3>4
    <3>6. f[k + 1] = e[k + 1]
      BY <3>2, <3>3, <3>5
    <3>7. QED
      BY <3>1, <3>6
  <2>4. Climbs(n, Holds)
    BY <2>2, <2>3 DEF Climbs
  <2>5. n \in 0 .. n /\ n \in 1 .. n
    BY <1>1, <1>5
  <2> HIDE DEF Holds
  <2>6. n \in Holds
    BY <1>1, <2>4, <2>5, Climbing
  <2>7. f[n] = e[n]
    BY <2>5, <2>6 DEF Holds
  <2>8. n + 1 \in 1 .. n + 1 /\ n + 1 # 1 /\ (n + 1) - 1 = n
    BY <1>1, <1>5
  <2>9. f[n + 1] = f[n] \o h[n + 1]
    BY <1>3, <2>8 DEF Flattened
  <2>10. QED
    BY <1>1, <1>3, <2>1, <2>7, <2>9 DEF h
<1>6. QED
  BY <1>4, <1>5

(* What it makes of no parts, of one, and of two sequences of parts.        *)
LEMMA FlattenFacts ==
  /\ FlattenSeq(<<>>) = <<>>
  /\ \A x \in String : FlattenSeq(<<x>>) = x
  /\ \A g \in Seq(String) : FlattenSeq(g) \in String
  /\ \A g, h \in Seq(String) : FlattenSeq(g \o h) = FlattenSeq(g) \o FlattenSeq(h)
<1>1. FlattenSeq(<<>>) = <<>> /\ <<>> \in Seq(String)
  BY EmptySeq DEF FlattenSeq
<1>2. ASSUME NEW x \in String PROVE FlattenSeq(<<x>>) = x
  <2>1. <<>> \o <<x>> = <<x>>
    <3>1. <<x>> \in Seq(String)
      OBVIOUS
    <3>2. QED
      BY <3>1, ConcatEmptySeq
  <2>2. FlattenSeq(<<>> \o <<x>>) = FlattenSeq(<<>>) \o x
    BY <1>1, FlattenGrows
  <2>3. QED
    BY <1>1, <2>1, <2>2, ShortStrings
<1>3. \A g \in Seq(String) : FlattenSeq(g) \in String
  <2> DEFINE Holds == {g \in Seq(String) : FlattenSeq(g) \in String}
  <2>1. <<>> \in Holds
    BY <1>1, ShortStrings
  <2>2. ASSUME NEW g \in Seq(String), NEW x \in String, g \in Holds PROVE g \o <<x>> \in Holds
    <3>1. FlattenSeq(g \o <<x>>) = FlattenSeq(g) \o x
      BY FlattenGrows
    <3>2. FlattenSeq(g) \o x \in String
      BY <2>2, JoinedIs
    <3>3. g \o <<x>> \in Seq(String)
      BY AppendProperties, AppendIsConcat
    <3>4. QED
      BY <3>1, <3>2, <3>3
  <2>3. Grows(String, Holds)
    BY <2>1, <2>2 DEF Grows
  <2> HIDE DEF Holds
  <2>4. \A g \in Seq(String) : g \in Holds
    BY <2>3, Growing
  <2>5. QED
    BY <2>4 DEF Holds
<1>4. ASSUME NEW g \in Seq(String)
      PROVE  \A h \in Seq(String) : FlattenSeq(g \o h) = FlattenSeq(g) \o FlattenSeq(h)
  <2> DEFINE Holds == {h \in Seq(String) : FlattenSeq(g \o h) = FlattenSeq(g) \o FlattenSeq(h)}
  <2>1. <<>> \in Holds
    <3>1. g \o <<>> = g
      BY ConcatEmptySeq
    <3>2. FlattenSeq(g) \o <<>> = FlattenSeq(g)
      BY <1>3, ShortStrings
    <3>3. QED
      BY <1>1, <3>1, <3>2
  <2>2. ASSUME NEW h \in Seq(String), NEW x \in String, h \in Holds PROVE h \o <<x>> \in Holds
    <3>1. FlattenSeq(h \o <<x>>) = FlattenSeq(h) \o x
      BY FlattenGrows
    <3>2. g \o h \in Seq(String) /\ <<x>> \in Seq(String)
      BY ConcatProperties
    <3>3. g \o (h \o <<x>>) = (g \o h) \o <<x>>
      BY <3>2, ConcatAssociative
    <3>4. FlattenSeq((g \o h) \o <<x>>) = FlattenSeq(g \o h) \o x
      BY <3>2, FlattenGrows
    <3>5. FlattenSeq(g) \in String /\ FlattenSeq(h) \in String
      BY <1>3
    <3>6. (FlattenSeq(g) \o FlattenSeq(h)) \o x = FlattenSeq(g) \o (FlattenSeq(h) \o x)
      BY <3>5, JoinedAnyWay
    <3>7. h \o <<x>> \in Seq(String)
      BY <3>2, ConcatProperties
    <3>8. FlattenSeq(g \o h) = FlattenSeq(g) \o FlattenSeq(h)
      BY <2>2
    <3>9. QED
      BY <3>1, <3>3, <3>4, <3>6, <3>7, <3>8
  <2>3. Grows(String, Holds)
    BY <2>1, <2>2, Zenon DEF Grows
  <2> HIDE DEF Holds
  <2>4. \A h \in Seq(String) : h \in Holds
    BY <2>3, Growing
  <2>5. QED
    BY <2>4 DEF Holds
<1>5. QED
  BY <1>1, <1>2, <1>3, <1>4

(* A string for every character of a string, and all of them together.      *)
Each(s, f) == [i \in DOMAIN s |-> f[s[i]]]
Spread(s, f) == FlattenSeq(Each(s, f))
(* It goes character by character.                                          *)
LEMMA EachIs ==
  ASSUME NEW f \in [0 .. 255 -> String]
  PROVE  /\ Each(<<>>, f) = <<>>
         /\ \A x \in 0 .. 255 : Each(<<x>>, f) = <<f[x]>>
         /\ \A s \in String : Each(s, f) \in Seq(String) /\ Len(Each(s, f)) = Len(s)
         /\ \A s, u \in String : Each(s \o u, f) = Each(s, f) \o Each(u, f)
<1>1. ASSUME NEW s \in String
      PROVE  /\ Each(s, f) \in Seq(String) /\ Len(Each(s, f)) = Len(s)
             /\ \A i \in 1 .. Len(s) : Each(s, f)[i] = f[s[i]]
  <2>1. Len(s) \in Nat /\ DOMAIN s = 1 .. Len(s) /\ \A i \in 1 .. Len(s) : s[i] \in 0 .. 255
    BY StringFacts
  <2>2. Each(s, f) = [i \in 1 .. Len(s) |-> f[s[i]]]
    BY <2>1 DEF Each
  <2>3. [i \in 1 .. Len(s) |-> f[s[i]]] \in [1 .. Len(s) -> String]
    BY <2>1
  <2>4. Each(s, f) \in [1 .. Len(s) -> String] /\ \A i \in 1 .. Len(s) : Each(s, f)[i] = f[s[i]]
    BY <2>2, <2>3
  <2>5. QED
    BY <2>1, <2>4, IsSequence
<1>2. Each(<<>>, f) = <<>>
  <2>1. Each(<<>>, f) \in Seq(String) /\ Len(Each(<<>>, f)) = 0
    BY <1>1, ShortStrings
  <2>2. QED
    BY <2>1, EmptySeq
<1>3. ASSUME NEW x \in 0 .. 255 PROVE Each(<<x>>, f) = <<f[x]>>
  <2>1. <<x>> \in String /\ Len(<<x>>) = 1 /\ <<x>>[1] = x
    BY ShortStrings
  <2>2. Each(<<x>>, f) \in Seq(String) /\ Len(Each(<<x>>, f)) = 1 /\ Each(<<x>>, f)[1] = f[x]
    <3>1. 1 \in 1 .. 1
      OBVIOUS
    <3>2. QED
      BY <1>1, <2>1, <3>1
  <2>3. f[x] \in String
    OBVIOUS
  <2>4. <<f[x]>> \in Seq(String) /\ Len(<<f[x]>>) = 1 /\ <<f[x]>>[1] = f[x]
    BY <2>3
  <2>5. \A i \in 1 .. 1 : i = 1
    OBVIOUS
  <2>6. QED
    BY <2>2, <2>4, <2>5, SeqEqual
<1>4. ASSUME NEW s \in String, NEW u \in String
      PROVE  Each(s \o u, f) = Each(s, f) \o Each(u, f)
  <2> DEFINE g == Each(s, f)
             h == Each(u, f)
             e == Each(s \o u, f)
  <2>1. Len(s) \in Nat /\ Len(u) \in Nat /\ s \o u \in String /\ Len(s \o u) = Len(s) + Len(u)
    BY JoinedIs, StringFacts
  <2>2. /\ e \in Seq(String) /\ Len(e) = Len(s) + Len(u)
        /\ \A i \in 1 .. Len(s) + Len(u) : e[i] = f[(s \o u)[i]]
    BY <1>1, <2>1
  <2>3. /\ g \in Seq(String) /\ Len(g) = Len(s) /\ \A i \in 1 .. Len(s) : g[i] = f[s[i]]
        /\ h \in Seq(String) /\ Len(h) = Len(u) /\ \A i \in 1 .. Len(u) : h[i] = f[u[i]]
    BY <1>1
  <2> HIDE DEF g, h, e
  <2>4. /\ g \o h \in Seq(String) /\ Len(g \o h) = Len(s) + Len(u)
        /\ \A i \in 1 .. Len(s) + Len(u) :
             (g \o h)[i] = IF i <= Len(s) THEN g[i] ELSE h[i - Len(s)]
    <3>1. g \in Seq(String) /\ h \in Seq(String)
      BY <2>3
    <3>2. /\ g \o h \in Seq(String) /\ Len(g \o h) = Len(g) + Len(h)
          /\ \A i \in 1 .. Len(g) + Len(h) :
               (g \o h)[i] = IF i <= Len(g) THEN g[i] ELSE h[i - Len(g)]
      BY <3>1, ConcatProperties
    <3>3. QED
      BY <2>3, <3>2
  <2>5. ASSUME NEW i \in 1 .. Len(s) + Len(u) PROVE e[i] = (g \o h)[i]
    <3>1. (s \o u)[i] = IF i <= Len(s) THEN s[i] ELSE u[i - Len(s)]
      BY ConcatProperties DEF String
    <3>2. i <= Len(s) => i \in 1 .. Len(s)
      BY <2>1
    <3>3. ~(i <= Len(s)) => i - Len(s) \in 1 .. Len(u)
      BY <2>1
    <3>4. e[i] = f[(s \o u)[i]]
      BY <2>2
    <3>5. (g \o h)[i] = IF i <= Len(s) THEN g[i] ELSE h[i - Len(s)]
      BY <2>4
    <3>6. CASE i <= Len(s)
      <4>1. g[i] = f[s[i]]
        BY <2>3, <3>2, <3>6
      <4>2. QED
        BY <3>1, <3>4, <3>5, <3>6, <4>1
    <3>7. CASE ~(i <= Len(s))
      <4>1. h[i - Len(s)] = f[u[i - Len(s)]]
        BY <2>3, <3>3, <3>7
      <4>2. QED
        BY <3>1, <3>4, <3>5, <3>7, <4>1
    <3>8. QED
      BY <3>6, <3>7
  <2>6. e = g \o h
    BY <2>2, <2>4, <2>5, SeqEqual
  <2>7. QED
    BY <2>6 DEF e, g, h
<1>5. QED
  BY <1>1, <1>2, <1>3, <1>4, Zenon

(* And so does the whole.                                                   *)
LEMMA SpreadIs ==
  ASSUME NEW f \in [0 .. 255 -> String]
  PROVE  /\ Spread(<<>>, f) = <<>>
         /\ \A x \in 0 .. 255 : Spread(<<x>>, f) = f[x]
         /\ \A s \in String : Spread(s, f) \in String
         /\ \A s, u \in String : Spread(s \o u, f) = Spread(s, f) \o Spread(u, f)
<1>1. Spread(<<>>, f) = <<>>
  BY EachIs, FlattenFacts DEF Spread
<1>2. ASSUME NEW x \in 0 .. 255 PROVE Spread(<<x>>, f) = f[x]
  <2>1. f[x] \in String
    OBVIOUS
  <2>2. QED
    BY <2>1, EachIs, FlattenFacts DEF Spread
<1>3. ASSUME NEW s \in String PROVE Spread(s, f) \in String
  BY EachIs, FlattenFacts DEF Spread
<1>4. ASSUME NEW s \in String, NEW u \in String
      PROVE  Spread(s \o u, f) = Spread(s, f) \o Spread(u, f)
  <2>1. Each(s, f) \in Seq(String) /\ Each(u, f) \in Seq(String)
        /\ Each(s \o u, f) = Each(s, f) \o Each(u, f)
    BY EachIs
  <2>2. QED
    BY <2>1, FlattenFacts DEF Spread
<1>5. QED
  BY <1>1, <1>2, <1>3, <1>4

(* Induction along a string: from one position to the next.                 *)
LEMMA NextCut ==
  ASSUME NEW t \in String, NEW k \in 0 .. Len(t) - 1
  PROVE  /\ k \in Nat /\ k <= Len(t) /\ k + 1 \in Nat
         /\ k + 1 \in 1 .. Len(t) /\ t[k + 1] \in 0 .. 255
         /\ Cut(t, 0, k) \in String /\ Cut(t, 0, k + 1) = Cut(t, 0, k) \o <<t[k + 1]>>
         /\ Cut(t, k + 1, Len(t)) \in String
         /\ Cut(t, k, Len(t)) = <<t[k + 1]>> \o Cut(t, k + 1, Len(t))
<1>1. /\ Len(t) \in Nat /\ k \in 0 .. Len(t) /\ k + 1 \in 0 .. Len(t) /\ k + 1 \in 1 .. Len(t)
      /\ 0 \in 0 .. k /\ 0 \in 0 .. Len(t) /\ k \in 0 .. k + 1 /\ k + 1 \in 0 .. Len(t)
      /\ Len(t) \in 0 .. Len(t) /\ (k + 1) - 1 = k
  BY StringFacts
<1>0. k \in Nat /\ k <= Len(t) /\ k + 1 \in Nat
  BY <1>1
<1>2. t[k + 1] \in 0 .. 255
  BY <1>1, StringFacts
<1>3. Cut(t, k, k + 1) = <<t[k + 1]>>
  BY <1>1, CutEnds
<1>4. Cut(t, 0, k) \in String /\ Cut(t, k + 1, Len(t)) \in String
  BY <1>1, CutIs
<1>5. Cut(t, 0, k) \o Cut(t, k, k + 1) = Cut(t, 0, k + 1)
  BY <1>1, CutsJoin
<1>6. Cut(t, k, k + 1) \o Cut(t, k + 1, Len(t)) = Cut(t, k, Len(t))
  BY <1>1, CutsJoin
<1>7. QED
  BY <1>0, <1>1, <1>2, <1>3, <1>4, <1>5, <1>6

(* Where every character becomes one character, so does the string.         *)
LEMMA SpreadOne ==
  ASSUME NEW f \in [0 .. 255 -> String], NEW s \in String, NEW h \in String,
         Len(h) = Len(s), \A i \in 1 .. Len(s) : f[s[i]] = <<h[i]>>
  PROVE  Spread(s, f) = h
<1> DEFINE n == Len(s)
           Holds == {k \in Nat : k <= n => Spread(Cut(s, 0, k), f) = Cut(h, 0, k)}
<1>1. n \in Nat /\ 0 \in 0 .. n
  BY StringFacts
<1>2. 0 \in Holds
  <2>1. Cut(s, 0, 0) = <<>> /\ Cut(h, 0, 0) = <<>>
    <3>1. 0 \in 0 .. Len(s) /\ 0 \in 0 .. Len(h)
      BY <1>1
    <3>2. QED
      BY <3>1, CutEnds
  <2>2. Spread(<<>>, f) = <<>>
    BY SpreadIs
  <2>3. QED
    BY <1>1, <2>1, <2>2
<1>3. ASSUME NEW k \in 0 .. n - 1, k \in Holds PROVE k + 1 \in Holds
  <2>0. k <= n /\ k + 1 \in Nat
    BY NextCut
  <2>1. /\ k + 1 \in 1 .. n /\ s[k + 1] \in 0 .. 255 /\ Cut(s, 0, k) \in String
        /\ Cut(s, 0, k + 1) = Cut(s, 0, k) \o <<s[k + 1]>>
    BY NextCut
  <2>2. Cut(h, 0, k + 1) = Cut(h, 0, k) \o <<h[k + 1]>>
    BY NextCut
  <2>3. Spread(Cut(s, 0, k), f) = Cut(h, 0, k)
    BY <1>3, <2>0
  <2>4. <<s[k + 1]>> \in String /\ Spread(<<s[k + 1]>>, f) = f[s[k + 1]]
    BY <2>1, ShortStrings, SpreadIs
  <2>5. Spread(Cut(s, 0, k) \o <<s[k + 1]>>, f)
          = Spread(Cut(s, 0, k), f) \o Spread(<<s[k + 1]>>, f)
    BY <2>1, <2>4, SpreadIs
  <2>6. f[s[k + 1]] = <<h[k + 1]>>
    BY <2>1
  <2>7. Spread(Cut(s, 0, k + 1), f) = Cut(h, 0, k + 1)
    <3>1. Spread(Cut(s, 0, k + 1), f) = Spread(Cut(s, 0, k) \o <<s[k + 1]>>, f)
      BY <2>1
    <3>2. QED
      BY <2>2, <2>3, <2>4, <2>5, <2>6, <3>1
  <2>8. QED
    BY <2>0, <2>7
<1>4. Climbs(n, Holds)
  BY <1>2, <1>3 DEF Climbs
<1>5. n \in 0 .. n
  BY <1>1
<1> HIDE DEF Holds
<1>6. n \in Holds
  BY <1>1, <1>4, <1>5, Climbing
<1>7. Spread(Cut(s, 0, n), f) = Cut(h, 0, n)
  BY <1>1, <1>6 DEF Holds
<1>8. QED
  BY <1>7, CutEnds

-----------------------------------------------------------------------------
(* Joining parts: there is one of them, or there is one more in front.      *)
LEMMA JoinFacts ==
  ASSUME NEW sep \in String, NEW x \in String
  PROVE  /\ Join(<<x>>, sep) = x
         /\ \A p \in Seq(String) : Len(p) # 0 =>
              /\ Join(p, sep) \in String
              /\ Join(<<x>> \o p, sep) = (x \o sep) \o Join(p, sep)
<1> DEFINE Rest(p) == [k \in 1 .. Len(p) - 1 |-> sep \o p[k + 1]]
<1>1. ASSUME NEW p \in Seq(String), Len(p) # 0
      PROVE  /\ Head(p) = p[1] /\ p[1] \in String /\ Len(p) - 1 \in Nat
             /\ Rest(p) \in Seq(String) /\ Len(Rest(p)) = Len(p) - 1
             /\ \A k \in 1 .. Len(p) - 1 : Rest(p)[k] = sep \o p[k + 1]
             /\ Join(p, sep) = p[1] \o FlattenSeq(Rest(p))
  <2>1. Len(p) \in Nat /\ \A k \in 1 .. Len(p) : p[k] \in String
    BY LenProperties, ElementOfSeq
  <2>2. Len(p) - 1 \in Nat /\ 1 \in 1 .. Len(p) /\ \A k \in 1 .. Len(p) - 1 : k + 1 \in 1 .. Len(p)
    BY <1>1, <2>1
  <2>3. p[1] \in String /\ \A k \in 1 .. Len(p) - 1 : sep \o p[k + 1] \in String
    BY <2>1, <2>2, JoinedIs
  <2>4. Rest(p) \in [1 .. Len(p) - 1 -> String]
    BY <2>3
  <2>5. \A k \in 1 .. Len(p) - 1 : Rest(p)[k] = sep \o p[k + 1]
    OBVIOUS
  <2>6. Head(p) = p[1]
    OBVIOUS
  <2>7. Join(p, sep) = p[1] \o FlattenSeq(Rest(p))
    BY <2>6 DEF Join
  <2> HIDE DEF Rest
  <2>8. Rest(p) \in Seq(String) /\ Len(Rest(p)) = Len(p) - 1
    BY <2>2, <2>4, IsSequence
  <2>9. QED
    BY <2>2, <2>3, <2>5, <2>6, <2>7, <2>8
<1>2. Join(<<x>>, sep) = x
  <2>1. <<x>> \in Seq(String) /\ Len(<<x>>) = 1 /\ <<x>>[1] = x /\ 1 - 1 = 0 /\ 1 # 0
    OBVIOUS
  <2> HIDE DEF Rest
  <2>2. /\ Rest(<<x>>) \in Seq(String) /\ Len(Rest(<<x>>)) = 0
        /\ Join(<<x>>, sep) = x \o FlattenSeq(Rest(<<x>>))
    BY <1>1, <2>1
  <2>3. Rest(<<x>>) = <<>>
    BY <2>2, EmptySeq
  <2>4. QED
    BY <2>2, <2>3, FlattenFacts, ShortStrings
<1>3. ASSUME NEW p \in Seq(String), Len(p) # 0
      PROVE  Join(p, sep) \in String /\ Join(<<x>> \o p, sep) = (x \o sep) \o Join(p, sep)
  <2> DEFINE q == <<x>> \o p
  <2>1. /\ q \in Seq(String) /\ Len(q) = Len(p) + 1 /\ q[1] = x
        /\ \A k \in 1 .. Len(p) : q[k + 1] = p[k]
    <3>1. <<x>> \in Seq(String) /\ Len(<<x>>) = 1 /\ <<x>>[1] = x /\ Len(p) \in Nat
      BY LenProperties
    <3>2. /\ q \in Seq(String) /\ Len(q) = 1 + Len(p)
          /\ \A i \in 1 .. 1 + Len(p) : q[i] = IF i <= 1 THEN <<x>>[i] ELSE p[i - 1]
      BY <3>1, ConcatProperties
    <3> HIDE DEF q
    <3>3. \A k \in 1 .. Len(p) : k + 1 \in 1 .. 1 + Len(p) /\ ~(k + 1 <= 1) /\ (k + 1) - 1 = k
      BY <3>1
    <3>4. 1 \in 1 .. 1 + Len(p)
      BY <3>1
    <3>5. QED
      BY <3>1, <3>2, <3>3, <3>4
  <2> HIDE DEF q
  <2>2. Len(p) \in Nat /\ Len(q) # 0 /\ Len(q) - 1 = Len(p)
    BY <1>3, <2>1, LenProperties
  <2> HIDE DEF Rest
  <2>3. /\ p[1] \in String /\ Len(p) - 1 \in Nat
        /\ Rest(p) \in Seq(String) /\ Len(Rest(p)) = Len(p) - 1
        /\ \A k \in 1 .. Len(p) - 1 : Rest(p)[k] = sep \o p[k + 1]
        /\ Join(p, sep) = p[1] \o FlattenSeq(Rest(p))
    BY <1>1, <1>3
  <2>4. /\ Rest(q) \in Seq(String) /\ Len(Rest(q)) = Len(p)
        /\ \A k \in 1 .. Len(p) : Rest(q)[k] = sep \o q[k + 1]
        /\ Join(q, sep) = x \o FlattenSeq(Rest(q))
    BY <1>1, <2>1, <2>2
  <2>5. Rest(q) = <<sep \o p[1]>> \o Rest(p)
    <3> DEFINE y == sep \o p[1]
               r == <<y>> \o Rest(p)
    <3>1. y \in String
      BY <2>3, JoinedIs
    <3> HIDE DEF y
    <3>2. <<y>> \in Seq(String) /\ Len(<<y>>) = 1 /\ <<y>>[1] = y
      BY <3>1
    <3>3. /\ r \in Seq(String) /\ Len(r) = 1 + Len(Rest(p))
          /\ \A i \in 1 .. 1 + Len(Rest(p)) : r[i] = IF i <= 1 THEN <<y>>[i] ELSE Rest(p)[i - 1]
      BY <2>3, <3>2, ConcatProperties
    <3> HIDE DEF r
    <3>4. 1 + Len(Rest(p)) = Len(p)
      BY <2>2, <2>3
    <3>5. ASSUME NEW i \in 1 .. Len(p) PROVE Rest(q)[i] = r[i]
      <4>1. CASE i = 1
        <5>1. r[i] = y /\ Rest(q)[i] = sep \o q[i + 1] /\ q[i + 1] = p[i]
          BY <2>1, <2>4, <3>2, <3>3, <3>4, <4>1
        <5>2. QED
          BY <4>1, <5>1 DEF y
      <4>2. CASE i # 1
        <5>1. i - 1 \in 1 .. Len(p) - 1 /\ ~(i <= 1) /\ (i - 1) + 1 = i
          BY <2>2, <4>2
        <5>2. r[i] = sep \o p[i]
          BY <2>3, <3>3, <3>4, <5>1
        <5>3. Rest(q)[i] = sep \o p[i]
          BY <2>1, <2>4
        <5>4. QED
          BY <5>2, <5>3
      <4>3. QED
        BY <4>1, <4>2
    <3>6. Rest(q) = r
      BY <2>4, <3>3, <3>4, <3>5, SeqEqual
    <3>7. QED
      BY <3>6 DEF r, y
  <2>6. /\ sep \o p[1] \in String /\ FlattenSeq(Rest(p)) \in String
        /\ <<sep \o p[1]>> \in Seq(String) /\ FlattenSeq(<<sep \o p[1]>>) = sep \o p[1]
    <3>1. sep \o p[1] \in String
      BY <2>3, JoinedIs
    <3>2. \A y \in String : <<y>> \in Seq(String)
      OBVIOUS
    <3>3. QED
      BY <2>3, <3>1, <3>2, FlattenFacts
  <2>7. FlattenSeq(Rest(q)) = (sep \o p[1]) \o FlattenSeq(Rest(p))
    BY <2>3, <2>5, <2>6, FlattenFacts
  <2>8. (sep \o p[1]) \o FlattenSeq(Rest(p)) = sep \o Join(p, sep)
    <3>1. (sep \o p[1]) \o FlattenSeq(Rest(p)) = sep \o (p[1] \o FlattenSeq(Rest(p)))
      BY <2>3, <2>6, JoinedAnyWay
    <3>2. QED
      BY <2>3, <3>1
  <2>9. Join(p, sep) \in String
    BY <2>3, <2>6, JoinedIs
  <2>10. x \o (sep \o Join(p, sep)) = (x \o sep) \o Join(p, sep)
    BY <2>9, JoinedAnyWay
  <2>11. QED
    BY <2>4, <2>7, <2>8, <2>9, <2>10 DEF q
<1>4. QED
  BY <1>2, <1>3

(* No c behind position i, up to position j.                                *)
FreeOf(t, c, i, j) == \A k \in i + 1 .. j : t[k] # c
(* The first c from "last" on, and what a search for it says.               *)
HitAt(t, c, last, pos) ==
  pos \in last .. Len(t) - 1 /\ t[pos + 1] = c /\ FreeOf(t, c, last, pos)
FirstAt(t, c, last, pos) ==
  \/ pos = npos /\ FreeOf(t, c, last, Len(t))
  \/ pos # npos /\ HitAt(t, c, last, pos)
(* The least of the places of c is what is searched for.                    *)
LEMMA LeastHit ==
  ASSUME NEW t \in String, NEW c \in 0 .. 255, NEW last \in Nat, NEW r,
         LET H == {i \in last .. Len(t) - 1 : t[i + 1] = c}
         IN  r = IF H = {} THEN npos ELSE Min(H)
  PROVE  /\ r = npos \/ HitAt(t, c, last, r)
         /\ Len(t) + 1 < npos => FirstAt(t, c, last, r)
<1> DEFINE n == Len(t)
           H == {i \in last .. n - 1 : t[i + 1] = c}
<1>1. n \in Nat /\ npos \in Nat /\ H \in SUBSET Nat
  BY StringFacts, NposAssumption
<1>2. \A i : i \in H <=> i \in last .. n - 1 /\ t[i + 1] = c
  OBVIOUS
<1>3. r = IF H = {} THEN npos ELSE Min(H)
  OBVIOUS
<1> HIDE DEF H
<1>4. CASE H = {}
  <2>1. ASSUME NEW k \in last + 1 .. n PROVE t[k] # c
    <3>1. k - 1 \in last .. n - 1 /\ (k - 1) + 1 = k
      BY <1>1
    <3>2. QED
      BY <1>2, <1>4, <3>1
  <2>2. QED
    BY <1>3, <1>4, <2>1 DEF FirstAt, FreeOf
<1>5. CASE H # {}
  <2> DEFINE p == Min(H)
  <2>1. p \in H /\ \A i \in H : p <= i
    BY <1>1, <1>5, LeastPosition
  <2> HIDE DEF p
  <2>2. p \in last .. n - 1 /\ t[p + 1] = c
    BY <1>2, <2>1
  <2>3. ASSUME NEW k \in last + 1 .. p PROVE t[k] # c
    <3>1. k - 1 \in last .. n - 1 /\ (k - 1) + 1 = k /\ ~(p <= k - 1)
      BY <1>1, <2>2
    <3>2. QED
      BY <1>2, <2>1, <3>1
  <2>4. r = p
    BY <1>3, <1>5 DEF p
  <2>5. HitAt(t, c, last, r)
    BY <2>2, <2>3, <2>4 DEF HitAt, FreeOf
  <2>6. n + 1 < npos => p # npos
    BY <1>1, <2>2
  <2>7. QED
    BY <2>4, <2>5, <2>6 DEF FirstAt
<1>6. QED
  BY <1>4, <1>5

(* find_first_of() with one character, and find() with a string of one.     *)
LEMMA FirstOfIs ==
  ASSUME NEW t \in String, NEW c \in 0 .. 255, NEW last \in Nat
  PROVE  /\ find_first_of(t, <<c>>, last) = npos
             \/ HitAt(t, c, last, find_first_of(t, <<c>>, last))
         /\ Len(t) + 1 < npos => FirstAt(t, c, last, find_first_of(t, <<c>>, last))
         /\ FindIn(t, <<c>>, last) = find_first_of(t, <<c>>, last)
<1> DEFINE v == FromString(t)
           G == {i \in last .. size(v) - 1 : At(v, i) \in ToSet(<<c>>)}
           n == Len(t)
           H == {i \in last .. n - 1 : t[i + 1] = c}
<1>1. size(v) = n /\ n \in Nat /\ npos \in Nat
  BY WholeView, StringFacts, NposAssumption
<1>2. find_first_of(t, <<c>>, last) = IF G = {} THEN npos ELSE Min(G)
  BY DEF find_first_of, ScanUp
<1>3. ToSet(<<c>>) = {c}
  BY DEF ToSet
<1>4. \A i \in Int : At(v, i) = t[i + 1]
  BY WholeView
<1>5. G = H
  <2> HIDE DEF v, n
  <2>1. last .. size(v) - 1 = last .. n - 1 /\ \A i \in last .. n - 1 : i \in Int
    BY <1>1
  <2>2. QED
    BY <1>3, <1>4, <2>1
<1> HIDE DEF v, G
<1>6. find_first_of(t, <<c>>, last) = IF H = {} THEN npos ELSE Min(H)
  BY <1>2, <1>5
<1>7. FindIn(t, <<c>>, last) = IF H = {} THEN npos ELSE Min(H)
  <2>1. <<c>> \in String /\ Len(<<c>>) = 1 /\ <<c>>[1] = c
    BY ShortStrings
  <2>2. CASE last > n
    <3>1. FindIn(t, <<c>>, last) = npos
      BY <1>1, <2>2 DEF FindIn, find, v
    <3>2. H = {}
      BY <1>1, <2>2
    <3>3. QED
      BY <3>1, <3>2
  <2>3. CASE ~(last > n)
    <3> DEFINE P == Places(t, <<c>>, last, n - Len(<<c>>))
    <3>1. last \in 0 .. Len(t)
      BY <1>1, <2>3
    <3>2. FindIn(t, <<c>>, last) = IF P = {} THEN npos ELSE Min(P)
      BY <2>1, <3>1, FindIs DEF FindIn
    <3>3. \A i : Stands(t, <<c>>, i) <=> t[i + 1] = c
      <4>1. ASSUME NEW i PROVE Stands(t, <<c>>, i) <=> t[i + 1] = <<c>>[1]
        <5>1. 1 .. 1 = {1}
          OBVIOUS
        <5>2. QED
          BY <2>1, <5>1 DEF Stands
      <4>2. QED
        BY <2>1, <4>1
    <3>4. P = H
      BY <2>1, <3>3, Zenon DEF Places
    <3>5. QED
      BY <3>2, <3>4
  <2>4. QED
    BY <2>2, <2>3
<1>8. QED
  BY <1>6, <1>7, LeastHit

(* Every c replaced by sep.                                                 *)
Swap(c, sep) == [x \in 0 .. 255 |-> IF x = c THEN sep ELSE <<x>>]
Spares(F, c) ==
  F \in [0 .. 255 -> String] /\ \A x \in 0 .. 255 : x # c => F[x] = <<x>>
(* What the characters become.                                              *)
LEMMA SwapIs ==
  ASSUME NEW c \in 0 .. 255, NEW sep \in String
  PROVE  Spares(Swap(c, sep), c) /\ Swap(c, sep)[c] = sep
<1>1. \A x \in 0 .. 255 : <<x>> \in String
  BY ShortStrings
<1>2. QED
  BY <1>1 DEF Swap, Spares

FreeCut(t, c, i, j) == j \in 0 .. Len(t) /\ i \in 0 .. j /\ FreeOf(t, c, i, j)
(* A part without c stays as it is.                                         *)
LEMMA FreePart ==
  ASSUME NEW t \in String, NEW c \in 0 .. 255, NEW F, Spares(F, c),
         NEW i, NEW j, FreeCut(t, c, i, j)
  PROVE  c \notin ToSet(Cut(t, i, j)) /\ Spread(Cut(t, i, j), F) = Cut(t, i, j)
<1> DEFINE p == Cut(t, i, j)
<1>0. j \in 0 .. Len(t) /\ i \in 0 .. j /\ FreeOf(t, c, i, j)
  BY DEF FreeCut
<1>1. /\ p \in String /\ Len(p) = j - i /\ \A k \in 1 .. j - i : p[k] = t[i + k]
  BY <1>0, CutIs
<1>2. Len(t) \in Nat
  BY StringFacts
<1>3. \A k \in 1 .. j - i : i + k \in i + 1 .. j /\ i + k \in 1 .. Len(t)
  BY <1>0, <1>2
<1> HIDE DEF p
<1>4. \A k \in 1 .. Len(p) : p[k] # c /\ p[k] \in 0 .. 255
  <2>1. ASSUME NEW k \in 1 .. Len(p) PROVE p[k] # c
    BY <1>0, <1>1, <1>3 DEF FreeOf
  <2>2. QED
    BY <1>1, <2>1, StringFacts
<1>5. DOMAIN p = 1 .. Len(p)
  BY <1>1, StringFacts
<1>6. c \notin ToSet(p)
  BY <1>4, <1>5 DEF ToSet
<1>7. \A k \in 1 .. Len(p) : F[p[k]] = <<p[k]>>
  BY <1>4 DEF Spares
<1>8. F \in [0 .. 255 -> String]
  BY DEF Spares
<1>9. Spread(p, F) = p
  BY <1>1, <1>7, <1>8, SpreadOne
<1>10. QED
  BY <1>6, <1>9 DEF p

(* The parts of what stands behind "last": joined they are it again, and    *)
(* all but the last are without c.                                          *)
Kept(p, t, c, last) ==
  /\ p \in Seq(String) /\ Len(p) \in 1 .. Len(t) - last + 1
  /\ Join(p, <<c>>) = Cut(t, last, Len(t))
  /\ \A i \in 1 .. Len(p) - 1 : c \notin ToSet(p[i])
(* They are all of the parts: the last, too, is without c.                  *)
Whole(p, t, c, sep, last) ==
  /\ c \notin ToSet(p[Len(p)])
  /\ Join(p, sep) = Spread(Cut(t, last, Len(t)), Swap(c, sep))

(* The rest of the string is one part.                                      *)
LEMMA KeptAtEnd ==
  ASSUME NEW t \in String, NEW c \in 0 .. 255, NEW sep \in String, NEW last \in 0 .. Len(t)
  PROVE  /\ Kept(<<Cut(t, last, Len(t))>>, t, c, last) /\ Len(<<Cut(t, last, Len(t))>>) = 1
         /\ (FreeOf(t, c, last, Len(t))) =>
              Whole(<<Cut(t, last, Len(t))>>, t, c, sep, last)
<1> DEFINE n == Len(t)
           s == Cut(t, last, n)
<1>1. n \in Nat /\ n \in 0 .. n
  BY StringFacts
<1>2. s \in String
  BY <1>1, CutIs
<1> HIDE DEF s
<1>3. <<s>> \in Seq(String) /\ Len(<<s>>) = 1 /\ <<s>>[1] = s
  BY <1>2
<1>4. <<c>> \in String
  BY ShortStrings
<1>5. Join(<<s>>, <<c>>) = s /\ Join(<<s>>, sep) = s
  BY <1>2, <1>4, JoinFacts
<1>6. 1 \in 1 .. n - last + 1 /\ \A i \in 1 .. 1 - 1 : FALSE
  BY <1>1
<1>7. Kept(<<s>>, t, c, last)
  BY <1>3, <1>5, <1>6 DEF Kept, s
<1>8. ASSUME FreeOf(t, c, last, n) PROVE Whole(<<s>>, t, c, sep, last)
  <2> DEFINE F == Swap(c, sep)
  <2>1. Spares(F, c)
    BY SwapIs
  <2> HIDE DEF F
  <2>2. FreeCut(t, c, last, n)
    BY <1>1, <1>8 DEF FreeCut
  <2>3. c \notin ToSet(s) /\ Spread(s, F) = s
    BY <2>1, <2>2, FreePart DEF s
  <2>4. QED
    BY <1>3, <1>5, <2>3 DEF Whole, s, F
<1>9. QED
  BY <1>3, <1>7, <1>8 DEF s

(* One part more, in front of a c.                                          *)
LEMMA KeptInFront ==
  ASSUME NEW t \in String, NEW c \in 0 .. 255, NEW sep \in String,
         NEW last \in 0 .. Len(t), NEW pos, HitAt(t, c, last, pos), NEW p, Kept(p, t, c, pos + 1)
  PROVE  LET q == <<Cut(t, last, pos)>> \o p
         IN  /\ Kept(q, t, c, last) /\ Len(q) = Len(p) + 1
             /\ Whole(p, t, c, sep, pos + 1) => Whole(q, t, c, sep, last)
<1> DEFINE n == Len(t)
           x == Cut(t, last, pos)
           q == <<x>> \o p
           r == Cut(t, pos + 1, n)
           m == Len(p)
           F == Swap(c, sep)
<1>00. Spares(F, c)
  BY SwapIs
<1>0. F \in [0 .. 255 -> String] /\ F[c] = sep
  <2>1. Swap(c, sep)[c] = sep
    BY SwapIs
  <2>2. F[c] = sep
    BY <2>1
  <2> HIDE DEF F
  <2>3. F \in [0 .. 255 -> String]
    BY <1>00 DEF Spares
  <2>4. QED
    BY <2>2, <2>3
<1> HIDE DEF F
<1>1. /\ n \in Nat /\ pos \in 0 .. n - 1 /\ pos \in 0 .. n /\ last \in 0 .. pos
      /\ n - (pos + 1) + 1 \in Nat /\ m \in 1 .. n - (pos + 1) + 1 /\ last \in Nat
  <2>1. n \in Nat /\ m \in 1 .. n - (pos + 1) + 1 /\ pos \in last .. n - 1
    BY StringFacts DEF Kept, HitAt
  <2> HIDE DEF m, n
  <2>2. QED
    BY <2>1 DEF n
<1>2. p \in Seq(String) /\ m \in Nat /\ m # 0
  <2>1. p \in Seq(String)
    BY DEF Kept
  <2> HIDE DEF m, n
  <2>2. QED
    BY <1>1, <2>1
<1>3. x \in String
  BY <1>1, CutIs
<1>4. r \in String /\ Cut(t, pos, n) = <<c>> \o r
  BY <1>1, NextCut DEF HitAt
<1>5. Cut(t, last, n) = (x \o <<c>>) \o r
  <2>1. n \in 0 .. n /\ pos \in 0 .. n
    BY <1>1
  <2>2. Cut(t, last, pos) \o Cut(t, pos, n) = Cut(t, last, n)
    BY <1>1, <2>1, CutsJoin
  <2>3. <<c>> \in String
    BY ShortStrings
  <2> HIDE DEF x, r
  <2>4. x \o (<<c>> \o r) = (x \o <<c>>) \o r
    BY <1>3, <1>4, <2>3, JoinedAnyWay
  <2>5. QED
    BY <1>4, <2>2, <2>4 DEF x
<1>6. c \notin ToSet(x) /\ Spread(x, F) = x
  <2>1. pos \in 0 .. Len(t) /\ last \in 0 .. pos
    BY <1>1
  <2>2. FreeCut(t, c, last, pos)
    BY <2>1 DEF HitAt, FreeCut
  <2>3. QED
    BY <1>00, <2>2, FreePart
<1> HIDE DEF x, r, m, n
<1>7. /\ q \in Seq(String) /\ Len(q) = m + 1 /\ q[1] = x
      /\ \A k \in 1 .. m : q[k + 1] = p[k]
  <2>1. <<x>> \in Seq(String) /\ Len(<<x>>) = 1 /\ <<x>>[1] = x
    BY <1>3
  <2>2. /\ q \in Seq(String) /\ Len(q) = 1 + m
        /\ \A i \in 1 .. 1 + m : q[i] = IF i <= 1 THEN <<x>>[i] ELSE p[i - 1]
    BY <1>2, <2>1, ConcatProperties DEF m
  <2> HIDE DEF q
  <2>3. \A k \in 1 .. m : k + 1 \in 1 .. 1 + m /\ ~(k + 1 <= 1) /\ (k + 1) - 1 = k
    BY <1>2
  <2>4. 1 \in 1 .. 1 + m
    BY <1>2
  <2>5. QED
    BY <1>2, <2>1, <2>2, <2>3, <2>4
<1>8. \A w \in String : Join(q, w) = (x \o w) \o Join(p, w)
  <2>1. ASSUME NEW w \in String PROVE Join(<<x>> \o p, w) = (x \o w) \o Join(p, w)
    BY <1>2, <1>3, JoinFacts DEF m
  <2>2. QED
    BY <2>1
<1> HIDE DEF q
<1>9. Kept(q, t, c, last)
  <2>1. Len(q) \in 1 .. Len(t) - last + 1
    BY <1>1, <1>7 DEF n
  <2>2. <<c>> \in String
    BY ShortStrings
  <2>3. Join(p, <<c>>) = r
    BY DEF Kept, r, n
  <2>4. Join(q, <<c>>) = Cut(t, last, Len(t))
    BY <1>5, <1>8, <2>2, <2>3 DEF n
  <2>5. ASSUME NEW i \in 1 .. Len(q) - 1 PROVE c \notin ToSet(q[i])
    <3>1. CASE i = 1
      BY <1>6, <1>7, <3>1
    <3>2. CASE i # 1
      <4>1. i - 1 \in 1 .. m - 1 /\ i - 1 \in 1 .. m /\ (i - 1) + 1 = i
        BY <1>2, <1>7, <3>2
      <4>2. c \notin ToSet(p[i - 1])
        BY <4>1 DEF Kept, m
      <4>3. q[i] = p[i - 1]
        BY <1>7, <4>1
      <4>4. QED
        BY <4>2, <4>3
    <3>3. QED
      BY <3>1, <3>2
  <2>6. QED
    BY <1>7, <2>1, <2>4, <2>5 DEF Kept
<1>10. ASSUME Whole(p, t, c, sep, pos + 1) PROVE Whole(q, t, c, sep, last)
  <2>1. c \notin ToSet(p[m]) /\ Join(p, sep) = Spread(r, F)
    BY <1>10 DEF Whole, m, n, r, F
  <2>2. m \in 1 .. m
    BY <1>2
  <2>3. q[Len(q)] = p[m]
    BY <1>7, <2>2
  <2>4. <<c>> \in String
    BY ShortStrings
  <2>5. x \o <<c>> \in String
    BY <1>3, <2>4, JoinedIs
  <2>8. Spread((x \o <<c>>) \o r, F) = Spread(x \o <<c>>, F) \o Spread(r, F)
    BY <1>0, <1>4, <2>5, SpreadIs
  <2>9. Spread(x \o <<c>>, F) = Spread(x, F) \o Spread(<<c>>, F)
    BY <1>0, <1>3, <2>4, SpreadIs
  <2>10. Spread(<<c>>, F) = sep
    BY <1>0, SpreadIs
  <2>11. Join(q, sep) = (x \o sep) \o Join(p, sep)
    BY <1>8
  <2>12. Join(q, sep) = Spread(Cut(t, last, n), F)
    BY <1>5, <1>6, <2>1, <2>8, <2>9, <2>10, <2>11
  <2>13. QED
    BY <2>1, <2>3, <2>12 DEF Whole, F, n
<1>11. QED
  BY <1>7, <1>9, <1>10 DEF q, x, m

(* The right parts, with "left" counting down.                              *)
PartsRight(p, t, c, sep, last, left) ==
  /\ Kept(p, t, c, last)
  /\ left >= 2 => Len(p) <= left
  /\ Len(p) < left \/ left < 2 => Whole(p, t, c, sep, last)

(* split() with one delimiter.                                              *)
LEMMA SplitIs ==
  ASSUME NEW t \in String, Len(t) + 1 < npos, t # <<>>, NEW c \in 0 .. 255,
         NEW sep \in String, NEW max \in 0 .. npos
  PROVE  PartsRight(split(t, <<c>>, max), t, c, sep, 0, max)
<1> DEFINE n == Len(t)
           S == [last : 0 .. Len(t), left : 0 .. npos]
           Pos(at) == find_first_of(t, <<c>>, at.last)
           Count(at) == IF at.left = 0 THEN npos ELSE at.left - 1
           Part(at) == IF Pos(at) = npos THEN From(t, at.last)
                       ELSE SubStr(t, at.last, Pos(at) - at.last)
           Rest(at) == From(t, Pos(at) + 1)
           Onward(at) == [last |-> Pos(at) + 1, left |-> Count(at)]
           Stop == {at \in S : Pos(at) = npos \/ Count(at) = 1}
           m == [at \in S |-> n - at.last]
           base == [at \in S |-> IF Pos(at) = npos THEN <<Part(at)>> ELSE <<Part(at)>> \o <<Rest(at)>>]
           step == [at \in S |-> [v \in Seq(String) |-> <<Part(at)>> \o v]]
           next == [at \in S |-> IF at \in Stop THEN at ELSE Onward(at)]
           Parts[at \in [last : 0 .. Len(t), left : 0 .. npos]] ==
             LET pos == find_first_of(t, <<c>>, at.last)
                 rest == From(t, pos + 1)
                 next_1 == IF at.left = 0 THEN npos ELSE at.left - 1
             IN  IF pos = npos THEN <<From(t, at.last)>>
                 ELSE <<SubStr(t, at.last, pos - at.last)>>
                        \o (IF next_1 = 1 THEN <<rest>> ELSE Parts[[last |-> pos + 1, left |-> next_1]])
           Body(f) == [at \in S |->
             IF Pos(at) = npos THEN <<From(t, at.last)>>
             ELSE <<SubStr(t, at.last, Pos(at) - at.last)>>
                    \o (IF Count(at) = 1 THEN <<Rest(at)>> ELSE f[Onward(at)])]
<1>1. n \in Nat /\ npos \in Nat /\ n + 1 < npos /\ npos >= 3 /\ n # 0 /\ n < npos
  <2>1. n \in Nat /\ n # 0
    BY EmptySeq, StringFacts DEF String
  <2>2. QED
    BY <2>1, NposAssumption
\* what a point of the loop is, and where it leads
<1>2. ASSUME NEW at \in S
      PROVE  /\ at.last \in 0 .. n /\ at.left \in 0 .. npos
             /\ FirstAt(t, c, at.last, Pos(at)) /\ Count(at) \in 0 .. npos
  <2>1. at.last \in 0 .. n /\ at.left \in 0 .. npos
    OBVIOUS
  <2>2. at.last \in Nat
    BY <1>1, <2>1
  <2>3. FirstAt(t, c, at.last, Pos(at))
    BY <1>1, <2>2, FirstOfIs
  <2> HIDE DEF Pos, n
  <2>4. Count(at) \in 0 .. npos
    BY <1>1, <2>1
  <2>5. QED
    BY <2>1, <2>3, <2>4
<1>3. ASSUME NEW at \in S, Pos(at) # npos
      PROVE  /\ HitAt(t, c, at.last, Pos(at)) /\ Pos(at) \in at.last .. n - 1
             /\ Onward(at) \in S /\ Onward(at).last = Pos(at) + 1 /\ Onward(at).left = Count(at)
             /\ SubStr(t, at.last, Pos(at) - at.last) = Cut(t, at.last, Pos(at))
             /\ Rest(at) = Cut(t, Pos(at) + 1, n)
  <2>1. HitAt(t, c, at.last, Pos(at))
    BY <1>2, <1>3 DEF FirstAt
  <2>2. Pos(at) \in at.last .. n - 1
    BY <2>1 DEF HitAt
  <2>3. at.last \in 0 .. n /\ Count(at) \in 0 .. npos
    BY <1>2
  <2> HIDE DEF Pos, Count
  <2>4. Pos(at) + 1 \in 0 .. n /\ Pos(at) \in 0 .. n /\ at.last \in 0 .. Pos(at)
    BY <1>1, <2>2, <2>3
  <2>5. Onward(at) \in S
    BY <2>3, <2>4
  <2>6. SubStr(t, at.last, Pos(at) - at.last) = Cut(t, at.last, Pos(at))
    BY <1>1, <2>4, SubStrIs
  <2>7. Rest(at) = Cut(t, Pos(at) + 1, n)
    BY <1>1, <2>4, SubStrIs
  <2>8. QED
    BY <2>1, <2>2, <2>5, <2>6, <2>7
<1>4. ASSUME NEW at \in S, Pos(at) = npos
      PROVE  FreeOf(t, c, at.last, n) /\ From(t, at.last) = Cut(t, at.last, n)
  <2>1. FreeOf(t, c, at.last, n)
    BY <1>1, <1>2, <1>4 DEF FirstAt, HitAt
  <2>2. From(t, at.last) = Cut(t, at.last, n)
    BY <1>1, <1>2, SubStrIs
  <2>3. QED
    BY <2>1, <2>2
<1> HIDE DEF Pos, Count, Part, Rest
\* the parts it makes are strings
<1>5. ASSUME NEW at \in S
      PROVE  /\ Part(at) \in String /\ (Pos(at) # npos => Rest(at) \in String)
             /\ (Pos(at) = npos => Part(at) = From(t, at.last))
             /\ (Pos(at) # npos => Part(at) = SubStr(t, at.last, Pos(at) - at.last))
  <2>1. Pos(at) = npos => Part(at) = From(t, at.last)
    BY DEF Part
  <2>2. Pos(at) # npos => Part(at) = SubStr(t, at.last, Pos(at) - at.last)
    BY DEF Part
  <2>3. CASE Pos(at) = npos
    <3>1. at.last \in 0 .. n /\ n \in 0 .. n /\ Part(at) = Cut(t, at.last, n)
      BY <1>1, <1>2, <1>4, <2>1, <2>3
    <3>2. n \in 0 .. Len(t) /\ at.last \in 0 .. n
      BY <3>1
    <3>3. Cut(t, at.last, n) \in String
      BY <3>2, CutIs
    <3>4. QED
      BY <2>1, <2>2, <2>3, <3>1, <3>3
  <2>4. CASE Pos(at) # npos
    <3>1. /\ Pos(at) \in at.last .. n - 1 /\ at.last \in 0 .. n /\ Rest(at) = Cut(t, Pos(at) + 1, n)
          /\ Part(at) = Cut(t, at.last, Pos(at))
      BY <1>2, <1>3, <2>2, <2>4
    <3>2. Pos(at) \in 0 .. n /\ at.last \in 0 .. Pos(at) /\ Pos(at) + 1 \in 0 .. n /\ n \in 0 .. n
      BY <1>1, <3>1
    <3>3. Part(at) \in String /\ Rest(at) \in String
      BY <3>1, <3>2, CutIs
    <3>4. QED
      BY <2>1, <2>2, <2>4, <3>3
  <2>5. QED
    BY <2>3, <2>4
<1>6. Recursion(S, Seq(String), Stop, m, base, step, next)
  <2>1. m \in [S -> Nat]
    <3>1. \A at \in S : n - at.last \in Nat
      BY <1>1, <1>2
    <3> HIDE DEF S, n
    <3>2. QED
      BY <3>1
  <2>2. next \in [S -> S]
    <3>1. ASSUME NEW at \in S PROVE (IF at \in Stop THEN at ELSE Onward(at)) \in S
      <4>1. at \notin Stop => Pos(at) # npos
        OBVIOUS
      <4> HIDE DEF S, Stop, Onward
      <4>2. QED
        BY <1>3, <4>1
    <3> HIDE DEF S, Stop, Onward
    <3>2. QED
      BY <3>1
  <2>3. base \in [S -> Seq(String)]
    <3>1. ASSUME NEW at \in S
          PROVE  (IF Pos(at) = npos THEN <<Part(at)>> ELSE <<Part(at)>> \o <<Rest(at)>>) \in Seq(String)
      <4>1. \A x \in String : <<x>> \in Seq(String)
        OBVIOUS
      <4>2. \A x, y \in Seq(String) : x \o y \in Seq(String)
        BY ConcatProperties
      <4> HIDE DEF S
      <4>3. QED
        BY <1>5, <4>1, <4>2
    <3> HIDE DEF S
    <3>2. QED
      BY <3>1
  <2>4. step \in [S -> [Seq(String) -> Seq(String)]]
    <3>1. ASSUME NEW at \in S, NEW v \in Seq(String) PROVE <<Part(at)>> \o v \in Seq(String)
      <4>1. \A x \in String : <<x>> \in Seq(String)
        OBVIOUS
      <4> HIDE DEF S
      <4>2. <<Part(at)>> \in Seq(String)
        BY <1>5, <4>1
      <4>3. QED
        BY <4>2, ConcatProperties
    <3> HIDE DEF S
    <3>2. QED
      BY <3>1
  <2>5. ASSUME NEW at \in S \ Stop PROVE m[next[at]] < m[at]
    <3>1. at \in S /\ Pos(at) # npos /\ next[at] = Onward(at)
      OBVIOUS
    <3>2. /\ Onward(at) \in S /\ Onward(at).last = Pos(at) + 1 /\ Pos(at) \in at.last .. n - 1
          /\ at.last \in 0 .. n
      BY <1>2, <1>3, <3>1
    <3>3. m[Onward(at)] = n - (Pos(at) + 1) /\ m[at] = n - at.last
      <4> HIDE DEF S, n, Stop, Onward, next
      <4>1. QED
        BY <3>1, <3>2
    <3> HIDE DEF m, n, S, Stop, next, Onward
    <3>4. QED
      BY <1>1, <3>1, <3>2, <3>3
  <2> HIDE DEF m, next, base, step, S, Stop
  <2>6. QED
    BY <2>1, <2>2, <2>3, <2>4, <2>5 DEF Recursion
\* so the loop is a function, and that is what split() returns
<1>7. PICK f \in [S -> Seq(String)] : \A x \in S : Recurs(f, x, Stop, base, step, next)
  <2> HIDE DEF S, m, next, base, step, Stop
  <2>1. QED
    BY <1>6, RecursionIsDefined
<1>8. f = Body(f)
  <2>1. ASSUME NEW at \in S
        PROVE  f[at] = IF Pos(at) = npos THEN <<From(t, at.last)>>
                       ELSE <<SubStr(t, at.last, Pos(at) - at.last)>>
                              \o (IF Count(at) = 1 THEN <<Rest(at)>> ELSE f[Onward(at)])
    <3>1. f[at] = IF at \in Stop THEN base[at] ELSE step[at][f[next[at]]]
      BY <1>7 DEF Recurs
    <3>2. CASE Pos(at) = npos
      <4>1. at \in Stop /\ base[at] = <<Part(at)>>
        BY <3>2
      <4> HIDE DEF S, Stop, base
      <4>2. QED
        BY <1>5, <3>1, <3>2, <4>1
    <3>3. CASE Pos(at) # npos /\ Count(at) = 1
      <4>1. at \in Stop /\ base[at] = <<Part(at)>> \o <<Rest(at)>>
        BY <3>3
      <4> HIDE DEF S, Stop, base
      <4>2. QED
        BY <1>5, <3>1, <3>3, <4>1
    <3>4. CASE Pos(at) # npos /\ Count(at) # 1
      <4>1. at \notin Stop /\ next[at] = Onward(at)
        BY <3>4
      <4>2. Onward(at) \in S
        BY <1>3, <3>4
      <4>3. f[Onward(at)] \in Seq(String)
        BY <1>7, <4>2
      <4>4. step[at][f[Onward(at)]] = <<Part(at)>> \o f[Onward(at)]
        BY <4>3
      <4> HIDE DEF S, Stop, base, step, next, Onward
      <4>5. QED
        BY <1>5, <3>1, <3>4, <4>1, <4>4
    <3>5. QED
      BY <3>2, <3>3, <3>4
  <2> HIDE DEF S, Onward
  <2>2. QED
    BY <1>7, <2>1
<1>9. Parts = CHOOSE h : h = Body(h)
  BY DEF Pos, Count, Rest
<1>10. Parts = Body(Parts)
  <2> HIDE DEF Parts, Body
  <2>1. QED
    BY <1>8, <1>9
<1>11. ASSUME NEW at \in S
       PROVE  Parts[at] = IF Pos(at) = npos THEN <<From(t, at.last)>>
                          ELSE <<SubStr(t, at.last, Pos(at) - at.last)>>
                                 \o (IF Count(at) = 1 THEN <<Rest(at)>> ELSE Parts[Onward(at)])
  <2> HIDE DEF Parts, S, Onward
  <2>1. QED
    BY <1>10
<1>12. split(t, <<c>>, max) = Parts[[last |-> 0, left |-> max]]
  BY DEF split
<1> HIDE DEF Parts
\* what it makes of the rest of the string is right from every position on
<1> DEFINE Right(at) == PartsRight(Parts[at], t, c, sep, at.last, at.left)
           Wrong == {at \in S : ~Right(at)}
<1>13. ASSUME NEW at \in S, Pos(at) = npos PROVE Right(at)
  <2>1. Parts[at] = <<Cut(t, at.last, n)>>
    <3> HIDE DEF S, n
    <3>1. QED
      BY <1>4, <1>11, <1>13
  <2>2. /\ Kept(<<Cut(t, at.last, n)>>, t, c, at.last) /\ Len(<<Cut(t, at.last, n)>>) = 1
        /\ Whole(<<Cut(t, at.last, n)>>, t, c, sep, at.last)
    <3>1. at.last \in 0 .. Len(t) /\ FreeOf(t, c, at.last, Len(t))
      BY <1>2, <1>4, <1>13
    <3> HIDE DEF S
    <3>2. QED
      BY <3>1, KeptAtEnd, Zenon
  <2>3. at.left \in Nat
    BY <1>1, <1>2
  <2>4. at.left >= 2 => 1 <= at.left
    BY <2>3
  <2> HIDE DEF S, n
  <2>5. QED
    BY <2>1, <2>2, <2>4 DEF PartsRight
<1>14. ASSUME NEW at \in S, Pos(at) # npos, Count(at) = 1 PROVE Right(at)
  <2> DEFINE r == <<Cut(t, Pos(at) + 1, n)>>
             x == Cut(t, at.last, Pos(at))
  <2>1. Parts[at] = <<x>> \o r
    <3> HIDE DEF S, n, Onward
    <3>1. QED
      BY <1>3, <1>11, <1>14
  <2>2. HitAt(t, c, at.last, Pos(at)) /\ at.last \in 0 .. Len(t) /\ Pos(at) + 1 \in 0 .. Len(t)
    <3>1. HitAt(t, c, at.last, Pos(at)) /\ at.last \in 0 .. n /\ Pos(at) \in at.last .. n - 1
      BY <1>2, <1>3, <1>14
    <3>2. QED
      BY <1>1, <3>1
  <2>3. Kept(r, t, c, Pos(at) + 1) /\ Len(r) = 1
    <3> HIDE DEF S
    <3>1. QED
      BY <2>2, KeptAtEnd, Zenon
  <2> HIDE DEF r
  <2>4. /\ Kept(<<x>> \o r, t, c, at.last) /\ Len(<<x>> \o r) = Len(r) + 1
        /\ Whole(r, t, c, sep, Pos(at) + 1) => Whole(<<x>> \o r, t, c, sep, at.last)
    <3> HIDE DEF S
    <3>1. QED
      BY <2>2, <2>3, KeptInFront, Zenon
  <2>5. at.left = 2
    BY <1>1, <1>2, <1>14 DEF Count
  <2>6. at.left >= 2 /\ ~(2 < at.left \/ at.left < 2) /\ 2 <= at.left /\ Len(r) + 1 = 2
    BY <2>3, <2>5
  <2> HIDE DEF S, n, x
  <2>7. QED
    BY <2>1, <2>4, <2>6 DEF PartsRight
<1>15. ASSUME NEW at \in S, Pos(at) # npos, Count(at) # 1, Right(Onward(at)) PROVE Right(at)
  <2> DEFINE r == Parts[Onward(at)]
             x == Cut(t, at.last, Pos(at))
             left == at.left
  <2>1. Parts[at] = <<x>> \o r
    <3> HIDE DEF S, n, Onward
    <3>1. QED
      BY <1>3, <1>11, <1>15
  <2>2. HitAt(t, c, at.last, Pos(at)) /\ at.last \in 0 .. Len(t) /\ Pos(at) \in Nat
    <3>1. HitAt(t, c, at.last, Pos(at)) /\ at.last \in 0 .. n /\ Pos(at) \in at.last .. n - 1
      BY <1>2, <1>3, <1>15
    <3>2. QED
      BY <1>1, <3>1
  <2>3. PartsRight(r, t, c, sep, Pos(at) + 1, Count(at))
    BY <1>15
  <2> HIDE DEF r
  <2>4. /\ Kept(<<x>> \o r, t, c, at.last) /\ Len(<<x>> \o r) = Len(r) + 1
        /\ Whole(r, t, c, sep, Pos(at) + 1) => Whole(<<x>> \o r, t, c, sep, at.last)
    <3>1. Kept(r, t, c, Pos(at) + 1)
      BY <2>3 DEF PartsRight
    <3> HIDE DEF S
    <3>2. QED
      BY <2>2, <3>1, KeptInFront, Zenon
  <2>5. left \in 0 .. npos /\ Count(at) = IF left = 0 THEN npos ELSE left - 1
    BY <1>2 DEF Count
  <2>6. Len(r) \in 1 .. n - (Pos(at) + 1) + 1
    BY <2>3 DEF PartsRight, Kept
  <2>7. Len(r) \in Nat /\ Len(r) < npos
    BY <1>1, <2>2, <2>6
  <2>8. Count(at) >= 2 => Len(r) <= Count(at)
    BY <2>3 DEF PartsRight
  <2>9. Len(r) < Count(at) \/ Count(at) < 2 => Whole(r, t, c, sep, Pos(at) + 1)
    BY <2>3 DEF PartsRight
  <2>10. left >= 2 => Len(r) + 1 <= left
    BY <1>1, <1>15, <2>5, <2>7, <2>8
  <2>11. Len(r) + 1 < left \/ left < 2 => Len(r) < Count(at) \/ Count(at) < 2
    BY <1>1, <1>15, <2>5, <2>7, <2>8
  <2> HIDE DEF S, n, x
  <2>12. QED
    BY <2>1, <2>4, <2>9, <2>10, <2>11 DEF PartsRight
<1>16. GoesOn(S, m, next, Wrong)
  <2>1. Wrong \subseteq S
    <3> HIDE DEF S
    <3>1. QED
      OBVIOUS
  <2>2. m \in [S -> Nat]
    <3> HIDE DEF S, m
    <3>1. QED
      BY <1>6 DEF Recursion
  <2>3. ASSUME NEW at \in Wrong PROVE next[at] \in Wrong /\ m[next[at]] < m[at]
    <3>1. at \in S /\ ~Right(at)
      BY <2>3
    <3>2. Pos(at) # npos /\ Count(at) # 1
      <4> HIDE DEF S, Right, Wrong
      <4>1. QED
        BY <1>13, <1>14, <3>1
    <3>3. at \notin Stop /\ next[at] = Onward(at)
      BY <3>1, <3>2
    <3>4. Onward(at) \in S /\ ~Right(Onward(at))
      <4> HIDE DEF S, Right, Wrong, Onward
      <4>1. QED
        BY <1>3, <1>15, <3>1, <3>2
    <3>5. m[next[at]] < m[at]
      <4> HIDE DEF S, Right, Wrong, Onward, m, next, Stop
      <4>1. QED
        BY <1>6, <3>1, <3>3 DEF Recursion
    <3>6. QED
      BY <3>3, <3>4, <3>5
  <2> HIDE DEF S, m, Wrong, next
  <2>4. QED
    BY <2>1, <2>2, <2>3 DEF GoesOn
<1>17. Wrong = {}
  <2> HIDE DEF S, m, Wrong, next
  <2>1. QED
    BY <1>16, NoLeastWrong
<1>18. QED
  <2> DEFINE at == [last |-> 0, left |-> max]
  <2>1. at \in S /\ at.last = 0 /\ at.left = max
    BY <1>1
  <2>2. Right(at)
    <3> HIDE DEF S, Right, at
    <3>1. QED
      BY <1>17, <2>1
  <2> HIDE DEF S
  <2>3. QED
    BY <1>12, <2>1, <2>2

(* substr(), of any string.                                                 *)
LEMMA AnySubStr ==
  ASSUME NEW t \in String, NEW i \in Nat
  PROVE  /\ SubStr(t, 0, i) \in String /\ Len(SubStr(t, 0, i)) = Lesser(i, Len(t))
         /\ From(t, i) \in String /\ Len(From(t, i)) <= Len(t) - Lesser(i, Len(t))
<1> DEFINE n == Len(t)
<1>1. n \in Nat /\ npos \in Nat
  BY StringFacts, NposAssumption
<1>2. ASSUME NEW p \in Nat, NEW k \in Nat
      PROVE  SubStr(t, p, k) = Cut(t, Lesser(p, n), Lesser(p, n) + Lesser(k, n - Lesser(p, n)))
  <2>1. FromString(t).ptr = 0 /\ FromString(t).buffer = t /\ size(FromString(t)) = n
    BY WholeView DEF FromString, Piece
  <2>2. substr(FromString(t), p, k) = Piece(t, 0 + Lesser(p, n), Lesser(k, n - Lesser(p, n)))
    BY <2>1 DEF substr
  <2>3. Lesser(p, n) \in Nat
    BY <1>1 DEF Lesser
  <2>4. 0 + Lesser(p, n) = Lesser(p, n)
    BY <2>3
  <2>5. \A q, k2 : as_string(Piece(t, q, k2)) = SubSeq(t, q + 1, q + k2)
    BY DEF as_string, Piece
  <2> HIDE DEF n
  <2>6. QED
    BY <2>2, <2>4, <2>5 DEF SubStr, Cut
<1>3. SubStr(t, 0, i) \in String /\ Len(SubStr(t, 0, i)) = Lesser(i, n)
  <2>1. /\ Lesser(0, n) = 0 /\ Lesser(i, n - 0) = Lesser(i, n) /\ Lesser(i, n) \in 0 .. n
        /\ 0 + Lesser(i, n) = Lesser(i, n) /\ Lesser(i, n) - 0 = Lesser(i, n)
        /\ 0 \in 0 .. Lesser(i, n)
    BY <1>1 DEF Lesser
  <2>2. SubStr(t, 0, i) = Cut(t, 0, Lesser(i, n))
    <3> HIDE DEF n
    <3>1. QED
      BY <1>2, <2>1
  <2>3. Cut(t, 0, Lesser(i, n)) \in String /\ Len(Cut(t, 0, Lesser(i, n))) = Lesser(i, n) - 0
    BY <2>1, CutIs
  <2>4. QED
    BY <2>1, <2>2, <2>3
<1>4. From(t, i) \in String /\ Len(From(t, i)) <= n - Lesser(i, n)
  <2> DEFINE a == Lesser(i, n)
             b == a + Lesser(npos, n - a)
  <2>1. a \in 0 .. n /\ b \in 0 .. n /\ a \in 0 .. b /\ b - a <= n - a
    <3>1. a \in 0 .. n
      BY <1>1 DEF Lesser
    <3> HIDE DEF a
    <3> DEFINE d == Lesser(npos, n - a)
    <3>2. d \in 0 .. n - a
      BY <1>1, <3>1 DEF Lesser
    <3> HIDE DEF d
    <3>3. b = a + d
      BY DEF d
    <3>4. QED
      BY <1>1, <3>1, <3>2, <3>3
  <2>2. From(t, i) = Cut(t, a, b)
    BY <1>1, <1>2 DEF From
  <2> HIDE DEF a, b, n
  <2>3. Cut(t, a, b) \in String /\ Len(Cut(t, a, b)) = b - a
    BY <2>1, CutIs DEF n
  <2>4. QED
    BY <2>1, <2>2, <2>3 DEF a
<1>5. QED
  BY <1>3, <1>4

(* The two parts of what was joined.                                        *)
LEMMA Parted ==
  ASSUME NEW p \in String, NEW q \in String
  PROVE  Cut(p \o q, 0, Len(p)) = p /\ Cut(p \o q, Len(p), Len(p) + Len(q)) = q
<1> DEFINE u == p \o q
           n == Len(p)
           k == Len(q)
<1>1. n \in Nat /\ k \in Nat /\ u \in String /\ Len(u) = n + k
  BY JoinedIs, StringFacts
<1>2. (\A i \in 1 .. n : u[i] = p[i]) /\ \A i \in 1 .. k : u[n + i] = q[i]
  BY JoinedIs
<1> HIDE DEF u
<1>3. n \in 0 .. Len(u) /\ 0 \in 0 .. n /\ n + k \in 0 .. Len(u) /\ n \in 0 .. n + k
  BY <1>1
<1>4. Cut(u, 0, n) = p
  <2>1. /\ Cut(u, 0, n) \in String /\ Len(Cut(u, 0, n)) = n - 0
        /\ \A i \in 1 .. n - 0 : Cut(u, 0, n)[i] = u[0 + i]
    BY <1>1, <1>3, CutIs
  <2>2. n - 0 = n /\ \A i \in 1 .. n : 0 + i = i
    BY <1>1
  <2>3. \A i \in 1 .. n : Cut(u, 0, n)[i] = p[i]
    BY <1>2, <2>1, <2>2
  <2>4. QED
    BY <2>1, <2>2, <2>3, SeqEqual DEF String
<1>5. Cut(u, n, n + k) = q
  <2>1. /\ Cut(u, n, n + k) \in String /\ Len(Cut(u, n, n + k)) = (n + k) - n
        /\ \A i \in 1 .. (n + k) - n : Cut(u, n, n + k)[i] = u[n + i]
    BY <1>1, <1>3, CutIs
  <2>2. (n + k) - n = k
    BY <1>1
  <2>3. \A i \in 1 .. k : Cut(u, n, n + k)[i] = q[i]
    BY <1>2, <2>1, <2>2
  <2>4. QED
    BY <2>1, <2>2, <2>3, SeqEqual DEF String
<1>6. QED
  BY <1>4, <1>5 DEF u

(* A string behind p around a c in it: what stands before the c, and behind.*)
Around(p, r, c, j, a, q) ==
  /\ a \in String /\ Len(a) = j /\ q \in String /\ Len(q) = Len(r) - (j + 1)
  /\ p \o a \in String /\ p \o r = ((p \o a) \o <<c>>) \o q
  /\ \A F : Spares(F, c) =>
       /\ F[c] \in String /\ Spread(q, F) \in String
       /\ p \o Spread(r, F) = ((p \o a) \o F[c]) \o Spread(q, F)
(* It can be cut there.                                                     *)
LEMMA CutAround ==
  ASSUME NEW p \in String, NEW r \in String, NEW c \in 0 .. 255, NEW j, HitAt(r, c, 0, j)
  PROVE  Around(p, r, c, j, Cut(r, 0, j), Cut(r, j + 1, Len(r)))
<1> DEFINE n == Len(r)
           a == Cut(r, 0, j)
           q == Cut(r, j + 1, n)
           b == Cut(r, j, n)
           s == <<c>>
<1>1. /\ n \in Nat /\ j \in 0 .. n - 1 /\ j \in 0 .. n /\ 0 \in 0 .. j /\ j - 0 = j
      /\ n \in 0 .. n /\ j \in 0 .. n /\ j + 1 \in 0 .. n /\ r[j + 1] = c /\ j \in Nat
  <2>1. n \in Nat /\ j \in 0 .. n - 1 /\ r[j + 1] = c
    BY StringFacts DEF HitAt
  <2>2. QED
    BY <2>1
<1>2. a \in String /\ Len(a) = j
  BY <1>1, CutIs
<1>3. q \in String /\ Len(q) = n - (j + 1)
  BY <1>1, CutIs
<1>4. b = s \o q /\ s \in String
  BY <1>1, NextCut, ShortStrings
<1>5. a \o b = r
  <2>1. Cut(r, 0, j) \o Cut(r, j, n) = Cut(r, 0, n)
    BY <1>1, CutsJoin
  <2>2. QED
    BY <2>1, CutEnds
<1> HIDE DEF a, q, b
<1>6. FreeCut(r, c, 0, j)
  BY <1>1 DEF FreeCut, HitAt
<1>7. ASSUME NEW F, Spares(F, c) PROVE Spread(a, F) = a
  BY <1>6, <1>7, FreePart DEF a
<1>8. ASSUME NEW F, Spares(F, c) PROVE F \in [0 .. 255 -> String] /\ Spread(s, F) = F[c]
  <2>1. F \in [0 .. 255 -> String]
    BY <1>8 DEF Spares
  <2>2. QED
    BY <2>1, SpreadIs
<1> HIDE DEF s
<1>9. p \o a \in String
  BY <1>2, JoinedIs
<1>10. r = (a \o s) \o q
  <2>1. a \o (s \o q) = (a \o s) \o q
    BY <1>2, <1>3, <1>4, JoinedAnyWay
  <2>2. QED
    BY <1>4, <1>5, <2>1
<1>11. \A v, x \in String : p \o ((a \o v) \o x) = ((p \o a) \o v) \o x
  <2>1. SUFFICES ASSUME NEW v \in String, NEW x \in String
                 PROVE  p \o ((a \o v) \o x) = ((p \o a) \o v) \o x
    OBVIOUS
  <2>2. a \in String
    BY <1>2
  <2>3. a \o v \in String
    BY <2>2, JoinedIs
  <2>4. p \o ((a \o v) \o x) = (p \o (a \o v)) \o x
    <3> DEFINE av == a \o v
    <3>1. av \in String
      BY <2>3
    <3> HIDE DEF av
    <3>2. p \o (av \o x) = (p \o av) \o x
      BY <3>1, JoinedAnyWay
    <3>3. QED
      BY <3>2 DEF av
  <2>5. p \o (a \o v) = (p \o a) \o v
    BY <2>2, JoinedAnyWay
  <2>6. QED
    BY <2>4, <2>5
<1>12. p \o r = ((p \o a) \o s) \o q
  BY <1>3, <1>4, <1>10, <1>11
<1>13. ASSUME NEW F, Spares(F, c)
       PROVE  /\ F[c] \in String /\ Spread(q, F) \in String
              /\ p \o Spread(r, F) = ((p \o a) \o F[c]) \o Spread(q, F)
  <2>1. F \in [0 .. 255 -> String] /\ Spread(s, F) = F[c] /\ Spread(a, F) = a
    BY <1>7, <1>8, <1>13
  <2>2. F[c] \in String /\ Spread(q, F) \in String
    BY <1>3, <2>1, SpreadIs
  <2>3. a \in String /\ s \in String /\ q \in String /\ a \o s \in String
    BY <1>2, <1>3, <1>4, JoinedIs
  <2>4. Spread((a \o s) \o q, F) = Spread(a \o s, F) \o Spread(q, F)
    BY <2>1, <2>3, SpreadIs
  <2>5. Spread(a \o s, F) = Spread(a, F) \o Spread(s, F)
    BY <2>1, <2>3, SpreadIs, Zenon
  <2>6. Spread(r, F) = (a \o F[c]) \o Spread(q, F)
    BY <1>10, <2>1, <2>4, <2>5, Zenon
  <2>7. QED
    BY <1>11, <2>2, <2>6
<1>14. QED
  BY <1>2, <1>3, <1>9, <1>12, <1>13 DEF a, q, s, Around

(* What stands before a character, and what behind it.                      *)
LEMMA CutApart ==
  ASSUME NEW p \in String, NEW q \in String, NEW c \in 0 .. 255,
         NEW u, u = (p \o <<c>>) \o q, Len(u) < npos
  PROVE  SubStr(u, 0, Len(p)) = p /\ From(u, Len(p) + 1) = q
<1> DEFINE s == <<c>>
           k == Len(p)
           n == Len(q)
<1>1. s \in String /\ Len(s) = 1
  BY ShortStrings
<1> HIDE DEF s
<1> DEFINE a == p \o s
           b == s \o q
<1>2. k \in Nat /\ n \in Nat
  BY StringFacts
<1>3. a \in String /\ Len(a) = k + 1
  <2>1. p \o s \in String
    BY <1>1, JoinedIs
  <2>2. Len(p \o s) = Len(p) + Len(s)
    BY <1>1, JoinedIs
  <2>3. QED
    BY <1>1, <2>1, <2>2
<1>4. b \in String
  BY <1>1, JoinedIs
<1>5. u = a \o q /\ u = p \o b
  <2>1. u = (p \o s) \o q
    BY DEF s
  <2>2. (p \o s) \o q = p \o (s \o q)
    BY <1>1, JoinedAnyWay
  <2>3. QED
    BY <2>1, <2>2
<1> HIDE DEF a, b
<1>11. a \o q \in String /\ Len(a \o q) = Len(a) + n
  BY <1>3, JoinedIs
<1>12. u \in String /\ Len(u) = (k + 1) + n
  BY <1>3, <1>5, <1>11
<1>6. Cut(u, 0, k) = p
  <2>1. Cut(p \o b, 0, Len(p)) = p
    BY <1>4, Parted
  <2>2. QED
    BY <1>5, <2>1
<1>7. Cut(u, k + 1, (k + 1) + n) = q
  <2>1. Cut(a \o q, Len(a), Len(a) + Len(q)) = q
    BY <1>3, Parted
  <2>2. QED
    BY <1>3, <1>5, <2>1
<1>8. SubStr(u, 0, k) = Cut(u, 0, k)
  <2>1. k \in 0 .. Len(u) /\ 0 \in 0 .. k /\ k - 0 = k
    BY <1>2, <1>12
  <2>2. SubStr(u, 0, k - 0) = Cut(u, 0, k)
    BY <1>12, <2>1, SubStrIs
  <2>3. QED
    BY <2>1, <2>2
<1>9. From(u, k + 1) = Cut(u, k + 1, Len(u))
  <2>1. k + 1 \in 0 .. Len(u)
    BY <1>2, <1>12
  <2>2. QED
    BY <1>12, <2>1, SubStrIs
<1>10. QED
  BY <1>12, <1>6, <1>7, <1>8, <1>9

(* replace() of one character by a string.                                  *)
LEMMA ReplaceIs ==
  ASSUME NEW t \in String, NEW c \in 0 .. 255, NEW w \in String,
         Len(Spread(t, Swap(c, w))) + Len(t) + 1 < npos
  PROVE  replace(t, <<c>>, w) = Spread(t, Swap(c, w))
<1> DEFINE Found(str, pos) == [str |-> str, index |-> FindIn(str, <<c>>, pos)]
           S == [str : Seq(0 .. 255), index : Nat]
           Before(at) == SubStr(at.str, 0, at.index)
           Behind(at) == From(at.str, at.index + Len(<<c>>))
           Done(at) == Before(at) \o w \o Behind(at)
           Onward(at) == Found(Done(at), at.index + Len(w))
           Stop == {at \in S : at.index = npos}
           Left(at) == IF at.index = npos THEN 0
                       ELSE IF at.index >= Len(at.str) THEN 1 ELSE Len(at.str) - at.index + 1
           m == [at \in S |-> Left(at)]
           base == [at \in S |-> at.str]
           step == [at \in S |-> [v \in Seq(0 .. 255) |-> v]]
           next == [at \in S |-> IF at \in Stop THEN at ELSE Onward(at)]
           Loop[at \in [str : Seq(0 .. 255), index : Nat]] ==
             IF at.index = npos THEN at.str
             ELSE Loop[Found(SubStr(at.str, 0, at.index) \o w
                                \o From(at.str, at.index + Len(<<c>>)), at.index + Len(w))]
           Body(f) == [at \in S |-> IF at.index = npos THEN at.str ELSE f[Onward(at)]]
<1>1. npos \in Nat /\ Len(w) \in Nat /\ <<c>> \in String /\ Len(<<c>>) = 1
  BY StringFacts, NposAssumption, ShortStrings
\* what a search finds, in any string
<1>2. ASSUME NEW u \in String, NEW k \in Nat
      PROVE  /\ FindIn(u, <<c>>, k) \in Nat
             /\ FindIn(u, <<c>>, k) # npos =>
                  k <= FindIn(u, <<c>>, k) /\ FindIn(u, <<c>>, k) + 1 <= Len(u)
  <2> DEFINE r == FindIn(u, <<c>>, k)
  <2>1. r = npos \/ HitAt(u, c, k, r)
    BY FirstOfIs
  <2> HIDE DEF r
  <2>2. r # npos => r \in k .. Len(u) - 1
    BY <2>1 DEF HitAt
  <2>3. Len(u) \in Nat
    BY StringFacts
  <2>4. r \in Nat /\ (r # npos => k <= r /\ r + 1 <= Len(u))
    BY <1>1, <2>2, <2>3
  <2>5. QED
    BY <2>4 DEF r
\* what a point of the loop is, and where it leads
<1>3. ASSUME NEW at \in S
      PROVE  /\ at.str \in String /\ at.index \in Nat /\ Len(at.str) \in Nat
             /\ Before(at) \in String /\ Len(Before(at)) = Lesser(at.index, Len(at.str))
             /\ Behind(at) \in String /\ Len(Behind(at)) \in Nat
             /\ Len(Behind(at)) <= Len(at.str) - Lesser(at.index + 1, Len(at.str))
             /\ Done(at) \in String /\ Len(Done(at)) = Len(Before(at)) + Len(w) + Len(Behind(at))
  <2>1. at.str \in String /\ at.index \in Nat /\ at.index + 1 \in Nat
    BY DEF String
  <2> HIDE DEF S
  <2>2. Len(at.str) \in Nat
    BY <2>1, StringFacts
  <2>3. Before(at) \in String /\ Len(Before(at)) = Lesser(at.index, Len(at.str))
    BY <2>1, AnySubStr
  <2>4. /\ Behind(at) \in String
        /\ Len(Behind(at)) <= Len(at.str) - Lesser(at.index + 1, Len(at.str))
    BY <1>1, <2>1, AnySubStr
  <2> HIDE DEF Before, Behind
  <2>5. Len(Behind(at)) \in Nat
    BY <2>4, StringFacts
  <2>6. Before(at) \o w \in String /\ Len(Before(at) \o w) = Len(Before(at)) + Len(w)
    BY <2>3, JoinedIs
  <2>7. Done(at) \in String /\ Len(Done(at)) = Len(Before(at)) + Len(w) + Len(Behind(at))
    BY <2>4, <2>6, JoinedIs
  <2> HIDE DEF Done
  <2>8. QED
    BY <2>1, <2>2, <2>3, <2>4, <2>5, <2>7
<1> HIDE DEF Before, Behind
<1>4. ASSUME NEW at \in S
      PROVE  /\ Onward(at) \in S /\ Left(at) \in Nat
             /\ at.index # npos => Left(Onward(at)) < Left(at)
  <2> DEFINE n == Len(at.str)
             i == at.index
             u == Done(at)
             r == FindIn(u, <<c>>, i + Len(w))
  <2>1. /\ n \in Nat /\ i \in Nat /\ u \in String /\ Len(Behind(at)) \in Nat
        /\ Len(Behind(at)) <= n - Lesser(i + 1, n)
        /\ Len(u) = Lesser(i, n) + Len(w) + Len(Behind(at))
    <3> HIDE DEF S, Done
    <3>1. QED
      BY <1>3
  <2> HIDE DEF u, i, n
  <2>2. i + Len(w) \in Nat
    BY <1>1, <2>1
  <2>3. r \in Nat /\ (r # npos => i + Len(w) <= r /\ r + 1 <= Len(u))
    BY <1>2, <2>1, <2>2
  <2> HIDE DEF r
  <2>4. Onward(at) = [str |-> u, index |-> r]
    BY DEF u, r, i
  <2>5. [str |-> u, index |-> r] \in S
    BY <2>1, <2>3 DEF String
  <2>6. Left(at) = IF i = npos THEN 0 ELSE IF i >= n THEN 1 ELSE n - i + 1
    BY DEF i, n
  <2>7. Left(Onward(at)) = IF r = npos THEN 0 ELSE IF r >= Len(u) THEN 1 ELSE Len(u) - r + 1
    BY <2>4
  <2>8. Left(at) \in Nat
    BY <2>1, <2>6
  <2>9. ASSUME i # npos PROVE Left(Onward(at)) < Left(at)
    <3> HIDE DEF Left, Onward
    <3>1. CASE i >= n
      <4>1. Len(u) <= i + Len(w)
        BY <1>1, <2>1, <3>1 DEF Lesser
      <4>2. r = npos
        BY <1>1, <2>1, <2>3, <4>1
      <4>3. QED
        BY <2>6, <2>7, <2>9, <3>1, <4>2
    <3>2. CASE ~(i >= n)
      <4>1. Len(u) <= n + Len(w) - 1
        BY <1>1, <2>1, <3>2 DEF Lesser
      <4>2. CASE r = npos
        BY <2>1, <2>6, <2>7, <2>9, <3>2, <4>2
      <4>3. CASE r # npos
        <5>1. i + Len(w) <= r /\ r + 1 <= Len(u) /\ Len(u) \in Nat
          BY <2>1, <2>3, <4>3, StringFacts
        <5>2. Left(Onward(at)) = Len(u) - r + 1 /\ Left(at) = n - i + 1
          BY <2>1, <2>3, <2>6, <2>7, <2>9, <3>2, <4>3, <5>1
        <5>3. n \in Nat /\ i \in Nat /\ r \in Nat /\ Len(w) \in Nat
          BY <1>1, <2>1, <2>3
        <5>4. Len(u) - r + 1 < n - i + 1
          BY <4>1, <5>1, <5>3
        <5>5. QED
          BY <5>2, <5>4
      <4>4. QED
        BY <4>2, <4>3
    <3>3. QED
      BY <3>1, <3>2
  <2>10. QED
    BY <2>4, <2>5, <2>8, <2>9 DEF i
<1> HIDE DEF Left, Done
<1>5. Recursion(S, Seq(0 .. 255), Stop, m, base, step, next)
  <2>1. m \in [S -> Nat]
    <3> HIDE DEF S
    <3>1. QED
      BY <1>4
  <2>2. next \in [S -> S]
    <3>1. \A at \in S : (IF at \in Stop THEN at ELSE Onward(at)) \in S
      <4> HIDE DEF S, Onward, Stop
      <4>1. QED
        BY <1>4
    <3> HIDE DEF S, Onward, Stop
    <3>2. QED
      BY <3>1
  <2>3. base \in [S -> Seq(0 .. 255)]
    <3>1. \A at \in S : at.str \in Seq(0 .. 255)
      OBVIOUS
    <3> HIDE DEF S
    <3>2. QED
      BY <3>1
  <2>4. step \in [S -> [Seq(0 .. 255) -> Seq(0 .. 255)]]
    <3> HIDE DEF S
    <3>1. QED
      OBVIOUS
  <2>5. ASSUME NEW at \in S \ Stop PROVE m[next[at]] < m[at]
    <3>1. at \in S /\ at.index # npos /\ next[at] = Onward(at)
      OBVIOUS
    <3>2. Onward(at) \in S
      <4> HIDE DEF S, Onward
      <4>1. QED
        BY <1>4, <3>1
    <3>3. m[Onward(at)] = Left(Onward(at)) /\ m[at] = Left(at)
      <4> HIDE DEF S, Onward, next, Stop
      <4>1. QED
        BY <3>1, <3>2
    <3> HIDE DEF S, Onward, next, Stop, m
    <3>4. QED
      BY <1>4, <3>1, <3>3
  <2> HIDE DEF m, next, base, step, S, Stop
  <2>6. QED
    BY <2>1, <2>2, <2>3, <2>4, <2>5 DEF Recursion
\* so the loop is a function, and that is what replace() returns
<1>6. PICK f \in [S -> Seq(0 .. 255)] : \A x \in S : Recurs(f, x, Stop, base, step, next)
  <2> HIDE DEF S, m, next, base, step, Stop
  <2>1. QED
    BY <1>5, RecursionIsDefined
<1>7. f = Body(f)
  <2>1. ASSUME NEW at \in S
        PROVE  f[at] = IF at.index = npos THEN at.str ELSE f[Onward(at)]
    <3>1. f[at] = IF at \in Stop THEN base[at] ELSE step[at][f[next[at]]]
      BY <1>6 DEF Recurs
    <3>2. CASE at.index = npos
      <4>1. at \in Stop /\ base[at] = at.str
        BY <3>2
      <4>2. QED
        BY <3>1, <3>2, <4>1
    <3>3. CASE at.index # npos
      <4>1. at \notin Stop /\ next[at] = Onward(at) /\ Onward(at) \in S
        <5>1. Onward(at) \in S
          <6> HIDE DEF S, Onward
          <6>1. QED
            BY <1>4
        <5>2. QED
          BY <3>3, <5>1
      <4> HIDE DEF Stop, next, Onward
      <4>2. f[Onward(at)] \in Seq(0 .. 255)
        BY <1>6, <4>1
      <4>3. step[at][f[Onward(at)]] = f[Onward(at)]
        BY <4>2
      <4>4. QED
        BY <3>1, <3>3, <4>1, <4>3
    <3>4. QED
      BY <3>2, <3>3
  <2> HIDE DEF S, Onward
  <2>2. QED
    BY <1>6, <2>1
<1>8. Loop = CHOOSE h : h = Body(h)
  BY DEF Done, Before, Behind
<1>9. Loop = Body(Loop)
  <2> HIDE DEF Loop, Body
  <2>1. QED
    BY <1>7, <1>8
<1>10. ASSUME NEW at \in S
       PROVE  Loop[at] = IF at.index = npos THEN at.str ELSE Loop[Onward(at)]
  <2> HIDE DEF Loop, S, Onward
  <2>1. QED
    BY <1>9
<1>11. replace(t, <<c>>, w) = Loop[Found(t, 0)]
  BY DEF replace
<1> HIDE DEF Loop
\* what was done already, and the rest with every c replaced, is what comes out
<1> DEFINE F == Swap(c, w)
           R == Spread(t, F)
           Split(at, out, r) ==
             /\ at = Found(out \o r, Len(out)) /\ out \o Spread(r, F) = R
             /\ Len(R) + Len(r) + 1 < npos
           Wrong == {at \in S : \E out, r \in String : Split(at, out, r) /\ Loop[at] # R}
<1>12. Spares(F, c)
  BY SwapIs
<1>13. F \in [0 .. 255 -> String] /\ F[c] = w
  <2>1. Swap(c, w)[c] = w
    BY SwapIs
  <2>2. F[c] = w
    BY <2>1
  <2> HIDE DEF F
  <2>3. F \in [0 .. 255 -> String]
    BY <1>12 DEF Spares
  <2>4. QED
    BY <2>2, <2>3
<1> HIDE DEF F
<1>14. \A s \in String : Spread(s, F) \in String
  BY <1>13, SpreadIs
<1>15. R \in String /\ Len(R) \in Nat
  BY <1>14, StringFacts
<1> HIDE DEF R
<1>16. ASSUME NEW at \in S, NEW out \in String, NEW r \in String, Split(at, out, r)
       PROVE  /\ at.index = npos => Loop[at] = R
              /\ at.index # npos =>
                   \E o, q \in String : Split(Onward(at), o, q)
  <2> DEFINE u == out \o r
             k == Len(out)
             n == Len(r)
             i == at.index
  <2>1. /\ u \in String /\ Len(u) = k + n /\ k \in Nat /\ n \in Nat
        /\ \A x \in 1 .. n : u[k + x] = r[x]
    BY JoinedIs, StringFacts
  <2>2. at.str = u /\ i = FindIn(u, <<c>>, k)
    BY <1>16
  <2>3. Len(u) + 1 < npos
    <3>1. Spread(r, F) \in String
      BY <1>14
    <3>2. Len(out \o Spread(r, F)) = k + Len(Spread(r, F)) /\ Len(Spread(r, F)) \in Nat
      BY <3>1, JoinedIs, StringFacts
    <3>3. Len(R) = k + Len(Spread(r, F)) /\ Len(R) + n + 1 < npos
      BY <1>16, <3>2
    <3> HIDE DEF u, k, n
    <3>4. QED
      BY <1>1, <2>1, <3>2, <3>3
  <2> HIDE DEF u, k, n, i
  <2>4. FirstAt(u, c, k, i)
    BY <2>1, <2>2, <2>3, FirstOfIs
  <2>5. ASSUME i = npos PROVE Loop[at] = R
    <3>1. FreeOf(u, c, k, k + n)
      BY <2>1, <2>4, <2>5 DEF FirstAt
    <3>2. ASSUME NEW x \in 0 + 1 .. n PROVE r[x] # c
      <4>1. x \in 1 .. n /\ k + x \in k + 1 .. k + n
        BY <2>1
      <4>2. QED
        BY <2>1, <3>1, <4>1 DEF FreeOf
    <3>3. FreeOf(r, c, 0, n)
      BY <3>2 DEF FreeOf
    <3>4. FreeCut(r, c, 0, n)
      BY <2>1, <3>3 DEF n, FreeCut
    <3>5. Spread(Cut(r, 0, n), F) = Cut(r, 0, n)
      <4> HIDE DEF S, Split, Found, Onward, Stop
      <4>1. QED
        BY <1>12, <3>4, FreePart
    <3>6. Cut(r, 0, n) = r
      BY CutEnds DEF n
    <3>7. Spread(r, F) = r
      BY <3>5, <3>6
    <3>8. R = u
      BY <1>16, <3>7 DEF u
    <3> HIDE DEF S
    <3>9. QED
      BY <1>10, <2>2, <2>5, <3>8 DEF i
  <2>6. ASSUME i # npos PROVE \E o, q \in String : Split(Onward(at), o, q)
    <3> DEFINE j == i - k
               a == Cut(r, 0, j)
               q == Cut(r, j + 1, Len(r))
               o == (out \o a) \o w
    <3>1. i \in k .. (k + n) - 1 /\ u[i + 1] = c /\ FreeOf(u, c, k, i)
      BY <2>1, <2>4, <2>6 DEF FirstAt, HitAt
    <3>2. j \in 0 .. n - 1 /\ i = k + j /\ i + 1 = k + (j + 1) /\ j + 1 \in 1 .. n /\ i \in Nat
      BY <2>1, <3>1
    <3> HIDE DEF j
    <3>3. HitAt(r, c, 0, j)
      <4>1. ASSUME NEW x \in 0 + 1 .. j PROVE r[x] # c
        <5>1. x \in 1 .. n /\ k + x \in k + 1 .. i
          BY <2>1, <3>2
        <5>2. QED
          BY <2>1, <3>1, <5>1 DEF FreeOf
      <4>2. r[j + 1] = c
        BY <2>1, <3>1, <3>2
      <4>3. QED
        BY <3>2, <4>1, <4>2 DEF HitAt, FreeOf, n
    <3>4. /\ a \in String /\ Len(a) = j /\ q \in String /\ Len(q) = Len(r) - (j + 1)
          /\ out \o a \in String /\ out \o r = ((out \o a) \o <<c>>) \o q
          /\ out \o Spread(r, F) = ((out \o a) \o F[c]) \o Spread(q, F)
      <4> HIDE DEF S, Split, Found, Onward, Stop
      <4>1. Around(out, r, c, j, a, q)
        BY <3>3, CutAround
      <4> HIDE DEF a, q
      <4>2. QED
        BY <1>12, <4>1 DEF Around
    <3> HIDE DEF a, q
    <3>5. Len(out \o a) = i
      <4>1. Len(out \o a) = k + Len(a)
        BY <3>4, JoinedIs DEF k
      <4>2. QED
        BY <3>2, <3>4, <4>1
    <3>6. SubStr(u, 0, i) = out \o a /\ From(u, i + 1) = q
      <4> DEFINE b == out \o a
      <4>1. b \in String /\ q \in String /\ Len(b) = i /\ u = (b \o <<c>>) \o q
        BY <3>4, <3>5 DEF u
      <4>2. Len(u) < npos
        BY <1>1, <2>1, <2>3
      <4> HIDE DEF b, S, Split, Found, Onward, Stop
      <4>3. SubStr(u, 0, Len(b)) = b /\ From(u, Len(b) + 1) = q
        BY <4>1, <4>2, CutApart, Zenon
      <4>4. QED
        BY <4>1, <4>3 DEF b
    <3>7. Done(at) = o \o q
      <4>1. Before(at) = out \o a
        BY <2>2, <3>6 DEF Before, i
      <4>2. Behind(at) = q
        BY <1>1, <2>2, <3>6 DEF Behind, i
      <4>3. QED
        BY <4>1, <4>2 DEF Done
    <3>8. o \in String /\ Len(o) = i + Len(w)
      BY <3>4, <3>5, JoinedIs
    <3> HIDE DEF o
    <3>9. Onward(at) = Found(o \o q, Len(o))
      BY <3>7, <3>8 DEF i
    <3>10. o \o Spread(q, F) = R
      <4>1. out \o Spread(r, F) = R
        BY <1>16
      <4>2. QED
        BY <1>13, <3>4, <4>1 DEF o
    <3>11. Len(R) + Len(q) + 1 < npos
      <4>1. Len(R) + Len(r) + 1 < npos
        BY <1>16
      <4>2. Len(q) = n - (j + 1) /\ Len(r) = n
        BY <3>4 DEF n
      <4>3. QED
        BY <1>1, <1>15, <2>1, <3>2, <4>1, <4>2
    <3>12. Split(Onward(at), o, q)
      <4> HIDE DEF Onward, Found
      <4>1. QED
        BY <3>9, <3>10, <3>11
    <3>13. QED
      BY <3>4, <3>8, <3>12
  <2>7. QED
    BY <2>5, <2>6 DEF i
<1>17. GoesOn(S, m, next, Wrong)
  <2>1. Wrong \subseteq S
    <3> HIDE DEF S, Split
    <3>1. QED
      OBVIOUS
  <2>2. m \in [S -> Nat]
    <3> HIDE DEF S, m
    <3>1. QED
      BY <1>5 DEF Recursion
  <2>3. ASSUME NEW at \in Wrong PROVE next[at] \in Wrong /\ m[next[at]] < m[at]
    <3> HIDE DEF Split
    <3>1. at \in S /\ Loop[at] # R /\ \E out, r \in String : Split(at, out, r)
      <4> HIDE DEF S
      <4>1. QED
        BY <2>3
    <3>2. PICK out \in String, r \in String : Split(at, out, r)
      <4> HIDE DEF S
      <4>1. QED
        BY <3>1
    <3>3. at.index # npos /\ \E o, q \in String : Split(Onward(at), o, q)
      <4> HIDE DEF S, Onward
      <4>1. QED
        BY <1>16, <3>1, <3>2
    <3>4. at \notin Stop /\ next[at] = Onward(at)
      BY <3>1, <3>3
    <3>5. Onward(at) \in S /\ Loop[Onward(at)] # R
      <4> HIDE DEF S, Onward
      <4>1. QED
        BY <1>4, <1>10, <3>1, <3>3
    <3>6. Onward(at) \in Wrong
      <4> HIDE DEF S, Onward
      <4>1. QED
        BY <3>3, <3>5
    <3>7. m[next[at]] < m[at]
      <4> HIDE DEF S, Wrong, Onward, m, next, Stop
      <4>1. QED
        BY <1>5, <3>1, <3>4 DEF Recursion
    <3>8. QED
      BY <3>4, <3>6, <3>7
  <2> HIDE DEF S, m, Wrong, next
  <2>4. QED
    BY <2>1, <2>2, <2>3 DEF GoesOn
<1>18. Wrong = {}
  <2> HIDE DEF S, m, Wrong, next
  <2>1. QED
    BY <1>17, NoLeastWrong
<1>19. QED
  <2> DEFINE at == Found(t, 0)
  <2>1. at \in S
    <3>1. FindIn(t, <<c>>, 0) \in Nat
      BY <1>2
    <3>2. t \in Seq(0 .. 255)
      BY DEF String
    <3>3. QED
      BY <3>1, <3>2
  <2>2. Split(at, <<>>, t)
    <3>1. <<>> \o t = t /\ Len(<<>>) = 0 /\ <<>> \o Spread(t, F) = Spread(t, F)
      BY <1>14, ShortStrings
    <3>2. Len(R) + Len(t) + 1 < npos
      BY DEF R, F
    <3>3. at = Found(<<>> \o t, Len(<<>>))
      BY <3>1
    <3> HIDE DEF at, Found
    <3>4. QED
      BY <3>1, <3>2, <3>3 DEF R
  <2>3. Loop[at] = R
    <3> HIDE DEF at, Split, S
    <3>1. QED
      BY <1>18, <2>1, <2>2, ShortStrings
  <2>4. QED
    BY <1>11, <2>3 DEF R, F

(* str_utils.cc:46-82: what split() returns, for every limit.               *)
LEMMA SplitNeverLoses ==
  ASSUME NEW t \in String, Len(t) + 1 < npos, NEW c \in 0 .. 255, NEW max \in 0 .. npos
  PROVE  SplitLosesNothing(t, c, max)
<1> DEFINE p == split(t, <<c>>, max)
<1>1. SUFFICES ASSUME t # <<>>
               PROVE  /\ Join(p, <<c>>) = t
                      /\ max >= 2 => Len(p) <= max
                      /\ \A i \in 1 .. Len(p) - 1 : c \notin ToSet(p[i])
                      /\ Len(p) < max \/ max < 2 => c \notin ToSet(Last(p))
  BY DEF SplitLosesNothing
<1>2. PartsRight(p, t, c, <<>>, 0, max)
  BY <1>1, SplitIs, ShortStrings
<1>3. Cut(t, 0, Len(t)) = t
  BY CutEnds
<1>4. Last(p) = p[Len(p)]
  BY DEF Last
<1> HIDE DEF p
<1>5. QED
  BY <1>2, <1>3, <1>4 DEF PartsRight, Kept, Whole

(* How long a string becomes.                                               *)
LEMMA SpreadLength ==
  ASSUME NEW t \in String, NEW F \in [0 .. 255 -> String], NEW w \in Nat,
         \A x \in 0 .. 255 : Len(F[x]) <= w
  PROVE  Len(Spread(t, F)) <= Len(t) * w
<1> DEFINE n == Len(t)
           Holds == {k \in Nat : k <= n => Len(Spread(Cut(t, 0, k), F)) <= k * w}
<1>1. n \in Nat /\ 0 \in 0 .. n
  <2>1. n \in Nat
    BY StringFacts
  <2> HIDE DEF n
  <2>2. QED
    BY <2>1
<1>2. 0 \in Holds
  <2>1. Cut(t, 0, 0) = <<>>
    BY <1>1, CutEnds
  <2>2. Len(Spread(Cut(t, 0, 0), F)) = 0
    BY <2>1, SpreadIs, ShortStrings
  <2>3. 0 * w = 0 /\ 0 \in Nat
    OBVIOUS
  <2>4. 0 <= n => Len(Spread(Cut(t, 0, 0), F)) <= 0 * w
    <3> DEFINE f == Len(Spread(Cut(t, 0, 0), F))
               z == 0 * w
    <3>1. f = 0 /\ z = 0
      BY <2>2, <2>3
    <3> HIDE DEF n, f, z
    <3>2. 0 <= n => f <= z
      BY <3>1
    <3>3. QED
      BY <3>2 DEF f, z
  <2>5. QED
    BY <2>3, <2>4
<1>3. ASSUME NEW k \in 0 .. n - 1, k \in Holds PROVE k + 1 \in Holds
  <2> DEFINE a == Cut(t, 0, k)
             x == t[k + 1]
  <2>1. /\ k \in Nat /\ k <= n /\ k + 1 \in Nat /\ x \in 0 .. 255 /\ a \in String
        /\ Cut(t, 0, k + 1) = a \o <<x>>
    BY NextCut
  <2>2. Len(Spread(a, F)) <= k * w
    BY <1>3, <2>1
  <2> HIDE DEF a, x
  <2>3. <<x>> \in String /\ Spread(<<x>>, F) = F[x]
    BY <2>1, ShortStrings, SpreadIs
  <2>4. Spread(a \o <<x>>, F) = Spread(a, F) \o Spread(<<x>>, F)
    BY <2>1, <2>3, SpreadIs
  <2>5. Spread(a, F) \in String /\ F[x] \in String
    BY <2>1, SpreadIs
  <2>6. Len(Spread(a, F) \o F[x]) = Len(Spread(a, F)) + Len(F[x])
    BY <2>5, JoinedIs
  <2>7. Len(Spread(Cut(t, 0, k + 1), F)) = Len(Spread(a, F)) + Len(F[x])
    BY <2>1, <2>3, <2>4, <2>6
  <2>8. Len(Spread(a, F)) \in Nat /\ Len(F[x]) \in Nat /\ Len(F[x]) <= w
    BY <2>1, <2>5, StringFacts
  <2>9. k * w + w = (k + 1) * w /\ k * w \in Nat
    BY <2>1
  <2>10. Len(Spread(Cut(t, 0, k + 1), F)) <= (k + 1) * w
    <3> DEFINE kw == k * w
               f == Len(Spread(a, F))
               g == Len(F[x])
    <3>1. f <= kw /\ kw \in Nat /\ f \in Nat /\ g \in Nat /\ g <= w
      BY <2>2, <2>8, <2>9
    <3>2. kw + w = (k + 1) * w /\ Len(Spread(Cut(t, 0, k + 1), F)) = f + g
      BY <2>7, <2>9
    <3> HIDE DEF kw, f, g
    <3>3. f + g <= kw + w
      BY <3>1
    <3>4. QED
      BY <3>2, <3>3
  <2>11. QED
    BY <2>1, <2>10
<1>4. Climbs(n, Holds)
  BY <1>2, <1>3 DEF Climbs
<1>5. n \in 0 .. n
  BY <1>1
<1> HIDE DEF Holds
<1>6. n \in Holds
  BY <1>1, <1>4, <1>5, Climbing
<1>7. Len(Spread(Cut(t, 0, n), F)) <= n * w
  BY <1>1, <1>6 DEF Holds
<1>8. QED
  BY <1>7, CutEnds

(* str_utils.cc:16-44: replacing is splitting and joining again, and in     *)
(* place where it can be.                                                   *)
LEMMA ReplaceAlwaysSplits ==
  ASSUME NEW t \in String, NEW c \in 0 .. 255, NEW w \in String,
         Len(t) * (Len(w) + 2) + 1 < npos
  PROVE  ReplaceIsSplitAndJoin(t, c, w)
<1> DEFINE F == Swap(c, w)
           n == Len(t)
           R == Spread(t, F)
<1>1. Spares(F, c) /\ F[c] = w
  BY SwapIs
<1>2. F \in [0 .. 255 -> String] /\ F[c] = w /\ \A x \in 0 .. 255 : x # c => F[x] = <<x>>
  BY <1>1 DEF Spares
<1> HIDE DEF F
<1>3. n \in Nat /\ Len(w) \in Nat /\ npos \in Nat
  BY StringFacts, NposAssumption
<1>4. ASSUME NEW x \in 0 .. 255 PROVE Len(F[x]) <= Len(w) + 1
  <2>1. CASE x = c
    BY <1>2, <1>3, <2>1
  <2>2. CASE x # c
    <3>1. F[x] = <<x>> /\ Len(<<x>>) = 1
      BY <1>2, <2>2
    <3>2. QED
      BY <1>3, <3>1
  <2>3. QED
    BY <2>1, <2>2
<1>5. R \in String /\ Len(R) \in Nat
  BY <1>2, SpreadIs, StringFacts
<1>6. Len(R) <= n * (Len(w) + 1)
  <2>1. Len(w) + 1 \in Nat
    BY <1>3
  <2>2. QED
    BY <1>2, <1>4, <2>1, SpreadLength
<1>7. Len(R) + n + 1 < npos /\ n + 1 < npos
  <2>1. n * (Len(w) + 2) = n * (Len(w) + 1) + n /\ n * (Len(w) + 1) \in Nat
    BY <1>3
  <2> HIDE DEF R, n
  <2>2. n * (Len(w) + 2) + 1 < npos
    BY DEF n
  <2>3. QED
    BY <1>3, <1>5, <1>6, <2>1, <2>2
<1>8. replace(t, <<c>>, w) = R
  BY <1>7, ReplaceIs DEF F
<1>9. replace(t, <<c>>, w) = IF t = <<>> THEN <<>> ELSE Join(split(t, <<c>>, npos), w)
  <2>1. CASE t = <<>>
    BY <1>2, <1>8, <2>1, SpreadIs
  <2>2. CASE t # <<>>
    <3> DEFINE p == split(t, <<c>>, npos)
    <3>1. npos \in 0 .. npos
      BY <1>3
    <3>2. PartsRight(p, t, c, w, 0, npos)
      BY <1>7, <2>2, <3>1, SplitIs
    <3> HIDE DEF p
    <3>3. Len(p) < npos
      <4>1. Len(p) \in 1 .. n - 0 + 1
        BY <3>2 DEF PartsRight, Kept
      <4>2. QED
        BY <1>3, <1>7, <4>1
    <3>4. Join(p, w) = Spread(Cut(t, 0, n), F)
      BY <3>2, <3>3 DEF PartsRight, Whole, F
    <3>5. Cut(t, 0, n) = t
      BY CutEnds
    <3>6. QED
      BY <1>8, <2>2, <3>4, <3>5 DEF p
  <2>3. QED
    BY <2>1, <2>2
<1>10. ASSUME Len(w) = 1 PROVE replace(t, <<c>>, w) = replace_char(t, c, w[1])
  <2> DEFINE h == replace_char(t, c, w[1])
  <2>1. 1 \in 1 .. Len(w)
    BY <1>10
  <2>2. w[1] \in 0 .. 255 /\ w = <<w[1]>>
    <3>1. w[1] \in 0 .. 255
      BY <2>1, StringFacts
    <3>2. <<w[1]>> \in String /\ Len(<<w[1]>>) = 1 /\ <<w[1]>>[1] = w[1]
      BY <3>1, ShortStrings
    <3>3. \A i \in 1 .. 1 : w[i] = <<w[1]>>[i]
      BY <3>2
    <3>4. w = <<w[1]>>
      BY <1>10, <3>2, <3>3, SeqEqual DEF String
    <3>5. QED
      BY <3>1, <3>4
  <2>3. /\ h \in String /\ Len(h) = n
        /\ \A i \in 1 .. n : h[i] = IF t[i] = c THEN w[1] ELSE t[i]
    <3>1. DOMAIN t = 1 .. n /\ \A i \in 1 .. n : t[i] \in 0 .. 255
      BY StringFacts
    <3>2. h = [i \in 1 .. n |-> IF t[i] = c THEN w[1] ELSE t[i]]
      BY <3>1 DEF replace_char
    <3>3. h \in [1 .. n -> 0 .. 255] /\ \A i \in 1 .. n : h[i] = IF t[i] = c THEN w[1] ELSE t[i]
      BY <2>2, <3>1, <3>2
    <3> DEFINE T == 0 .. 255
    <3>4. h \in [1 .. n -> T]
      BY <3>3
    <3> HIDE DEF h, T
    <3>5. h \in Seq(T) /\ Len(h) = n
      BY <1>3, <3>4, IsSequence
    <3>6. QED
      BY <3>3, <3>5 DEF String, T
  <2> HIDE DEF h
  <2>4. ASSUME NEW i \in 1 .. Len(t) PROVE F[t[i]] = <<h[i]>>
    <3>1. t[i] \in 0 .. 255
      BY StringFacts
    <3>2. CASE t[i] = c
      BY <1>2, <2>2, <2>3, <3>2
    <3>3. CASE t[i] # c
      BY <1>2, <2>3, <3>1, <3>3
    <3>4. QED
      BY <3>2, <3>3
  <2>5. Spread(t, F) = h
    BY <1>2, <2>3, <2>4, SpreadOne
  <2>6. QED
    BY <1>8, <2>5 DEF h
<1>11. QED
  BY <1>9, <1>10 DEF ReplaceIsSplitAndJoin

-----------------------------------------------------------------------------
(* json_util.cc: what a character becomes, and what it is read back from.   *)
Escaped == [x \in 0 .. 255 |-> EscapeChar(x)]
Unescaped(w, i) ==
  IF w[i] = 92 THEN CHOOSE c \in DOMAIN EscapeCode : EscapeCode[c] = w[i + 1] ELSE w[i]
NextToRead(w, i) == IF w[i] = 92 THEN i + 2 ELSE i + 1

(* A character that is escaped becomes two: different ones, different codes.*)
LEMMA CodesDiffer ==
  /\ DOMAIN EscapeCode = {12, 9, 13, 10, 8, 34, 92}
  /\ \A x \in DOMAIN EscapeCode : EscapeCode[x] \in 0 .. 255
  /\ \A x, y \in DOMAIN EscapeCode : EscapeCode[x] = EscapeCode[y] => x = y
<1>1. DOMAIN EscapeCode = {12, 9, 13, 10, 8, 34, 92}
  BY DEF EscapeCode
<1>2. /\ EscapeCode[12] = 102 /\ EscapeCode[9] = 116 /\ EscapeCode[13] = 114
      /\ EscapeCode[10] = 110 /\ EscapeCode[8] = 98 /\ EscapeCode[34] = 34
      /\ EscapeCode[92] = 92
  BY DEF EscapeCode
<1>3. QED
  BY <1>1, <1>2

(* What a character becomes is a string, of one or two characters.          *)
LEMMA EscapedIs ==
  /\ Escaped \in [0 .. 255 -> String]
  /\ \A x \in 0 .. 255 :
       /\ x \in DOMAIN EscapeCode =>
            Escaped[x] = <<92, EscapeCode[x]>> /\ Len(Escaped[x]) = 2
       /\ x \notin DOMAIN EscapeCode =>
            Escaped[x] = <<x>> /\ Len(Escaped[x]) = 1 /\ x # 92
<1>1. ASSUME NEW x \in 0 .. 255
      PROVE  /\ Escaped[x] \in String
             /\ x \in DOMAIN EscapeCode =>
                  Escaped[x] = <<92, EscapeCode[x]>> /\ Len(Escaped[x]) = 2
             /\ x \notin DOMAIN EscapeCode =>
                  Escaped[x] = <<x>> /\ Len(Escaped[x]) = 1 /\ x # 92
  <2>1. Escaped[x] = IF x \in DOMAIN EscapeCode THEN <<92, EscapeCode[x]>> ELSE <<x>>
    BY DEF Escaped, EscapeChar
  <2>2. CASE x \in DOMAIN EscapeCode
    <3> DEFINE y == EscapeCode[x]
    <3>1. y \in 0 .. 255 /\ 92 \in 0 .. 255
      BY <2>2, CodesDiffer
    <3> HIDE DEF y
    <3>2. <<92, y>> \in Seq(0 .. 255) /\ Len(<<92, y>>) = 2
      BY <3>1
    <3>3. Escaped[x] = <<92, y>>
      BY <2>1, <2>2 DEF y
    <3>4. Escaped[x] \in String /\ Len(Escaped[x]) = 2
      BY <3>2, <3>3 DEF String
    <3>5. QED
      BY <2>2, <3>3, <3>4 DEF y
  <2>3. CASE x \notin DOMAIN EscapeCode
    <3>1. Escaped[x] = <<x>> /\ x # 92
      BY <2>1, <2>3, CodesDiffer
    <3>2. <<x>> \in String /\ Len(<<x>>) = 1
      BY ShortStrings
    <3>3. QED
      BY <2>3, <3>1, <3>2
  <2>4. QED
    BY <2>2, <2>3
<1>2. Escaped = [x \in 0 .. 255 |-> Escaped[x]]
  BY DEF Escaped
<1>3. QED
  BY <1>1, <1>2

(* What becomes of a character and of a string.                             *)
LEMMA SpreadEscaped ==
  /\ \A x \in 0 .. 255 : /\ <<x>> \in String /\ Escaped[x] \in String
                          /\ Spread(<<x>>, Escaped) = Escaped[x]
  /\ \A s \in String : Spread(s, Escaped) \in String
<1>1. Escaped \in [0 .. 255 -> String]
  BY EscapedIs
<1>2. /\ \A x \in 0 .. 255 : Spread(<<x>>, Escaped) = Escaped[x]
      /\ \A s \in String : Spread(s, Escaped) \in String
  BY <1>1, SpreadIs
<1>3. \A x \in 0 .. 255 : <<x>> \in String /\ Escaped[x] \in String
  BY <1>1, ShortStrings
<1>4. QED
  BY <1>2, <1>3

(* It is read back from there.                                              *)
LEMMA ReadsBack ==
  ASSUME NEW p \in String, NEW x \in 0 .. 255, NEW q \in String,
         NEW w, w = (p \o Escaped[x]) \o q
  PROVE  /\ w \in String /\ p \o Escaped[x] \in String
         /\ Len(p) + 1 \in 1 .. Len(w) /\ Unescaped(w, Len(p) + 1) = x
         /\ NextToRead(w, Len(p) + 1) = Len(p \o Escaped[x]) + 1
<1> DEFINE e == Escaped[x]
           a == p \o e
           i == Len(p) + 1
<1>1. e \in String /\ Len(e) \in Nat /\ Len(p) \in Nat /\ Len(q) \in Nat
  BY EscapedIs, StringFacts, ZenonT(40)
<1> HIDE DEF e
<1>2. a \in String /\ Len(a) = Len(p) + Len(e) /\ \A k \in 1 .. Len(e) : a[Len(p) + k] = e[k]
  BY <1>1, JoinedIs
<1>3. w = a \o q
  BY DEF e
<1> HIDE DEF a
<1>4. a \o q \in String /\ Len(a \o q) = Len(a) + Len(q) /\ \A k \in 1 .. Len(a) : (a \o q)[k] = a[k]
  BY <1>2, JoinedIs
<1>5. w \in String /\ Len(w) = Len(a) + Len(q) /\ \A k \in 1 .. Len(a) : w[k] = a[k]
  BY <1>3, <1>4
<1>6. \A k \in 1 .. Len(e) : w[Len(p) + k] = e[k]
  <2>1. SUFFICES ASSUME NEW k \in 1 .. Len(e) PROVE w[Len(p) + k] = e[k]
    OBVIOUS
  <2>2. Len(p) + k \in 1 .. Len(a)
    BY <1>1, <1>2
  <2>3. QED
    BY <1>2, <1>5, <2>2
<1>7. CASE x \in DOMAIN EscapeCode
  <2> DEFINE y == EscapeCode[x]
  <2>1. e = <<92, y>> /\ Len(e) = 2
    BY <1>7, EscapedIs, Zenon DEF e
  <2> HIDE DEF y
  <2>2. 1 \in 1 .. Len(e) /\ 2 \in 1 .. Len(e)
    BY <2>1
  <2>3. w[Len(p) + 1] = e[1] /\ w[Len(p) + 2] = e[2]
    BY <1>6, <2>2
  <2>4. e[1] = 92 /\ e[2] = y
    BY <2>1
  <2>5. i \in Nat /\ i + 1 = Len(p) + 2 /\ i + 2 = Len(a) + 1 /\ i \in 1 .. Len(w)
    BY <1>1, <1>2, <1>5, <2>1
  <2>6. w[i] = 92 /\ w[i + 1] = y
    BY <2>3, <2>4, <2>5
  <2> HIDE DEF i
  <2>7. Unescaped(w, i) = CHOOSE c \in DOMAIN EscapeCode : EscapeCode[c] = y
    BY <2>6 DEF Unescaped
  <2>8. \A c \in DOMAIN EscapeCode : EscapeCode[c] = y <=> c = x
    BY <1>7, CodesDiffer DEF y
  <2>9. Unescaped(w, i) = x
    BY <1>7, <2>7, <2>8
  <2>10. NextToRead(w, i) = Len(a) + 1
    BY <2>5, <2>6 DEF NextToRead
  <2>11. QED
    BY <1>2, <1>5, <2>5, <2>9, <2>10 DEF i, a, e
<1>8. CASE x \notin DOMAIN EscapeCode
  <2>1. e = <<x>> /\ Len(e) = 1 /\ x # 92
    BY <1>8, EscapedIs, Zenon DEF e
  <2>2. 1 \in 1 .. Len(e) /\ e[1] = x
    BY <2>1
  <2>3. w[Len(p) + 1] = x
    BY <1>6, <2>2
  <2>4. i \in Nat /\ i + 1 = Len(a) + 1 /\ i \in 1 .. Len(w)
    BY <1>1, <1>2, <1>5, <2>1
  <2>5. w[i] = x
    BY <2>3
  <2> HIDE DEF i
  <2>6. Unescaped(w, i) = x /\ NextToRead(w, i) = Len(a) + 1
    BY <2>1, <2>4, <2>5 DEF Unescaped, NextToRead
  <2>7. QED
    BY <1>2, <1>5, <2>4, <2>6, Zenon DEF i, a, e
<1>9. QED
  BY <1>7, <1>8, Zenon

(* Escaping makes a string longer if anything in it is to be escaped.       *)
LEMMA EscapingGrows ==
  \A t \in String : /\ Len(Spread(t, Escaped)) >= Len(t)
                    /\ NeedEscape(t) => Len(Spread(t, Escaped)) > Len(t)
                    /\ ~NeedEscape(t) => Spread(t, Escaped) = t
<1> DEFINE Size(t) == Len(Spread(t, Escaped))
           Holds == {t \in String : Size(t) >= Len(t) /\ (NeedEscape(t) => Size(t) > Len(t))}
<1>1. <<>> \in Holds
  <2>1. Spread(<<>>, Escaped) = <<>> /\ <<>> \in String /\ Len(<<>>) = 0
    BY EscapedIs, SpreadIs, ShortStrings, Zenon
  <2>2. ToSet(<<>>) = {}
    BY DEF ToSet
  <2>3. QED
    BY <2>1, <2>2 DEF NeedEscape
<1>2. ASSUME NEW s \in String, NEW x \in 0 .. 255, s \in Holds PROVE s \o <<x>> \in Holds
  <2> DEFINE z == <<x>>
             u == s \o z
  <2>1. z \in String /\ Len(z) = 1 /\ z[1] = x
    BY ShortStrings
  <2>2. Spread(z, Escaped) = Escaped[x] /\ Escaped[x] \in String /\ Spread(s, Escaped) \in String
    BY SpreadEscaped
  <2> HIDE DEF z
  <2>3. /\ u \in String /\ Len(u) = Len(s) + 1
        /\ \A i \in 1 .. Len(s) : u[i] = s[i]
        /\ \A i \in 1 .. Len(z) : u[Len(s) + i] = z[i]
    <3>1. s \in String /\ z \in String
      BY <2>1 DEF Holds
    <3> HIDE DEF Holds
    <3>2. /\ s \o z \in String /\ Len(s \o z) = Len(s) + Len(z)
          /\ \A i \in 1 .. Len(s) : (s \o z)[i] = s[i]
          /\ \A i \in 1 .. Len(z) : (s \o z)[Len(s) + i] = z[i]
      BY <3>1, JoinedIs
    <3>3. QED
      BY <2>1, <3>2
  <2>4. Spread(u, Escaped) = Spread(s, Escaped) \o Escaped[x]
    <3>1. s \in String /\ z \in String /\ Escaped \in [0 .. 255 -> String]
      BY <2>1, EscapedIs
    <3> HIDE DEF Holds
    <3>2. Spread(s \o z, Escaped) = Spread(s, Escaped) \o Spread(z, Escaped)
      BY <3>1, SpreadIs
    <3>3. QED
      BY <2>2, <3>2
  <2>5. Size(u) = Size(s) + Len(Escaped[x])
    BY <2>2, <2>4, JoinedIs
  <2>6. Len(s) \in Nat /\ Size(s) \in Nat /\ Len(Escaped[x]) \in Nat /\ Len(Escaped[x]) >= 1
    <3>1. Len(Escaped[x]) = 1 \/ Len(Escaped[x]) = 2
      BY EscapedIs
    <3>2. Len(s) \in Nat /\ Size(s) \in Nat /\ Len(Escaped[x]) \in Nat
      <4> HIDE DEF Holds
      <4>1. QED
        BY <2>2, StringFacts
    <3>3. QED
      BY <3>1, <3>2
  <2>7. Size(s) >= Len(s) /\ (NeedEscape(s) => Size(s) > Len(s))
    BY <1>2
  <2>8. DOMAIN u = 1 .. Len(s) + 1 /\ DOMAIN s = 1 .. Len(s)
    BY <2>3, StringFacts
  <2>9. u[Len(s) + 1] = x
    <3>1. 1 \in 1 .. Len(z)
      BY <2>1
    <3>2. QED
      BY <2>1, <2>3, <3>1
  <2> HIDE DEF u, Size
  <2>10. ASSUME NeedEscape(u) PROVE NeedEscape(s) \/ Len(Escaped[x]) = 2
    <3>1. PICK i \in 1 .. Len(s) + 1 : u[i] \in DOMAIN EscapeCode
      BY <2>8, <2>10 DEF NeedEscape, ToSet
    <3>2. CASE i = Len(s) + 1
      BY <2>9, <3>1, <3>2, EscapedIs
    <3>3. CASE i # Len(s) + 1
      <4>1. i \in 1 .. Len(s)
        BY <2>6, <3>3
      <4>2. s[i] \in DOMAIN EscapeCode /\ i \in DOMAIN s
        BY <2>3, <2>8, <3>1, <4>1
      <4>3. QED
        BY <4>2 DEF NeedEscape, ToSet
    <3>4. QED
      BY <3>2, <3>3
  <2>11. Size(u) >= Len(u) /\ (NeedEscape(u) => Size(u) > Len(u))
    <3> DEFINE e == Len(Escaped[x])
    <3>1. /\ Len(u) = Len(s) + 1 /\ Size(u) = Size(s) + e /\ e \in Nat /\ e >= 1
          /\ NeedEscape(u) => NeedEscape(s) \/ e = 2
      BY <2>3, <2>5, <2>6, <2>10
    <3> HIDE DEF e, Holds
    <3>2. QED
      BY <2>6, <2>7, <3>1
  <2>12. QED
    BY <2>3, <2>11 DEF u, z
<1>3. Grows(0 .. 255, Holds)
  <2> HIDE DEF Holds
  <2>1. QED
    BY <1>1, <1>2 DEF Grows, String
<1>4. \A t \in String : t \in Holds
  <2> HIDE DEF Holds
  <2>1. QED
    BY <1>3, Growing DEF String
<1>5. ASSUME NEW t \in String, ~NeedEscape(t) PROVE Spread(t, Escaped) = t
  <2>1. ASSUME NEW i \in 1 .. Len(t) PROVE Escaped[t[i]] = <<t[i]>>
    <3>1. t[i] \in 0 .. 255 /\ i \in DOMAIN t
      BY StringFacts
    <3>2. t[i] \notin DOMAIN EscapeCode
      BY <1>5, <3>1 DEF NeedEscape, ToSet
    <3>3. QED
      BY <3>1, <3>2, EscapedIs
  <2>2. QED
    BY <2>1, EscapedIs, SpreadOne
<1>6. QED
  BY <1>4, <1>5

(* EscapedSize() counts what will be needed.                                *)
LEMMA EscapedSizeIs ==
  ASSUME NEW t \in String
  PROVE  EscapedSize(t) = Len(Spread(t, Escaped))
<1> DEFINE n == Len(t)
           S == 0 .. n
           Width(i) == Len(EscapeChar(t[i]))
           Sum(k) == Len(Spread(Cut(t, 0, k), Escaped))
           Count[i \in 0 .. Len(t)] ==
             IF i = 0 THEN 0 ELSE Count[i - 1] + Len(EscapeChar(t[i]))
           Body(f) == [i \in S |-> IF i = 0 THEN 0 ELSE f[i - 1] + Width(i)]
           g == [i \in S |-> Sum(i)]
<1>1. n \in Nat
  BY StringFacts, Zenon
<1>2. Sum(0) = 0
  <2>1. 0 \in 0 .. n
    BY <1>1
  <2>2. Cut(t, 0, 0) = <<>>
    BY <2>1, CutEnds
  <2>3. QED
    BY <2>2, EscapedIs, SpreadIs, ShortStrings, ZenonT(40)
<1>3. ASSUME NEW k \in 0 .. n - 1 PROVE Sum(k + 1) = Sum(k) + Width(k + 1)
  <2> DEFINE a == Cut(t, 0, k)
             x == t[k + 1]
             z == <<x>>
  <2>1. a \in String /\ x \in 0 .. 255 /\ Cut(t, 0, k + 1) = a \o z
    BY NextCut
  <2> HIDE DEF a, x
  <2>2. z \in String /\ Spread(z, Escaped) = Escaped[x]
    BY <2>1, SpreadEscaped
  <2> HIDE DEF z
  <2>3. Spread(a \o z, Escaped) = Spread(a, Escaped) \o Escaped[x]
    <3>1. a \in String /\ z \in String /\ Escaped \in [0 .. 255 -> String]
      BY <2>1, <2>2, EscapedIs
    <3>2. Spread(a \o z, Escaped) = Spread(a, Escaped) \o Spread(z, Escaped)
      BY <3>1, SpreadIs, Zenon
    <3>3. QED
      BY <2>2, <3>2
  <2>4. Spread(a, Escaped) \in String /\ Escaped[x] \in String
    BY <2>1, EscapedIs, SpreadIs, Zenon
  <2>5. Len(Spread(a \o z, Escaped)) = Len(Spread(a, Escaped)) + Len(Escaped[x])
    BY <2>3, <2>4, JoinedIs
  <2>6. Escaped[x] = EscapeChar(x)
    BY <2>1 DEF Escaped
  <2>7. QED
    BY <2>1, <2>5, <2>6 DEF a, x
<1> HIDE DEF Sum, Width
<1>4. ASSUME NEW i \in S PROVE g[i] = IF i = 0 THEN 0 ELSE g[i - 1] + Width(i)
  <2>1. CASE i = 0
    BY <1>2, <2>1
  <2>2. CASE i # 0
    <3>1. i - 1 \in 0 .. n - 1 /\ i - 1 \in S /\ (i - 1) + 1 = i
      BY <1>1, <2>2
    <3>2. Sum((i - 1) + 1) = Sum(i - 1) + Width((i - 1) + 1)
      BY <1>3, <3>1
    <3>3. QED
      BY <2>2, <3>1, <3>2
  <2>3. QED
    BY <2>1, <2>2
<1>5. g = Body(g)
  BY <1>4
<1>6. Count = CHOOSE h : h = Body(h)
  BY DEF Width
<1>7. Count = Body(Count)
  <2> HIDE DEF Count, Body
  <2>1. QED
    BY <1>5, <1>6
<1>8. \A i \in S : Count[i] = IF i = 0 THEN 0 ELSE Count[i - 1] + Width(i)
  <2> HIDE DEF Count
  <2>1. QED
    BY <1>7
<1>9. EscapedSize(t) = Count[n]
  BY DEF EscapedSize
<1> HIDE DEF Count
<1> DEFINE Holds == {k \in Nat : k <= n => Count[k] = Sum(k)}
<1>10. 0 \in Holds
  <2>1. 0 \in S
    BY <1>1
  <2>2. QED
    BY <1>2, <1>8, <2>1
<1>11. ASSUME NEW k \in 0 .. n - 1, k \in Holds PROVE k + 1 \in Holds
  <2>1. k \in Nat /\ k <= n /\ k + 1 \in S /\ k + 1 # 0 /\ (k + 1) - 1 = k /\ k + 1 \in Nat
    BY <1>1
  <2>2. Count[k] = Sum(k)
    BY <1>11, <2>1
  <2>3. Count[k + 1] = Count[k] + Width(k + 1)
    BY <1>8, <2>1
  <2>4. QED
    BY <1>3, <2>1, <2>2, <2>3
<1>12. Climbs(n, Holds)
  BY <1>10, <1>11 DEF Climbs
<1>13. n \in 0 .. n
  BY <1>1
<1> HIDE DEF Holds
<1>14. n \in Holds
  BY <1>1, <1>12, <1>13, Climbing
<1>15. Count[n] = Sum(n)
  BY <1>1, <1>14 DEF Holds
<1>16. QED
  BY <1>9, <1>15, CutEnds DEF Sum

(* What was escaped is read back.                                           *)
LEMMA UnescapeIs ==
  ASSUME NEW t \in String
  PROVE  Unescape(Spread(t, Escaped)) = t
<1> DEFINE w == Spread(t, Escaped)
           n == Len(w)
           S == 1 .. n + 2
           V == Seq({Unescaped(w, i) : i \in S})
           Stop == {i \in S : i > n}
           m == [i \in S |-> n + 2 - i]
           next == [i \in S |-> IF i > n THEN i ELSE NextToRead(w, i)]
           base == [i \in S |-> <<>>]
           step == [i \in S |-> [v \in V |-> <<Unescaped(w, i)>> \o v]]
           Body(f) == [i \in S |-> IF i > n THEN <<>>
                                   ELSE <<Unescaped(w, i)>> \o f[NextToRead(w, i)]]
           Read[i \in 1 .. Len(w) + 2] ==
             IF i > Len(w) THEN <<>>
             ELSE IF w[i] = 92
             THEN <<CHOOSE c \in DOMAIN EscapeCode : EscapeCode[c] = w[i + 1]>> \o Read[i + 2]
             ELSE <<w[i]>> \o Read[i + 1]
<1>1. w \in String /\ n \in Nat
  BY EscapedIs, SpreadIs, StringFacts, Zenon
<1>2. Unescape(w) = Read[1]
  BY DEF Unescape
<1>3. Read = CHOOSE h : h = [i \in 1 .. Len(w) + 2 |->
             IF i > Len(w) THEN <<>>
             ELSE IF w[i] = 92
             THEN <<CHOOSE c \in DOMAIN EscapeCode : EscapeCode[c] = w[i + 1]>> \o h[i + 2]
             ELSE <<w[i]>> \o h[i + 1]]
  OBVIOUS
<1> HIDE DEF w, Read
<1>4. \A h : [i \in 1 .. Len(w) + 2 |->
             IF i > Len(w) THEN <<>>
             ELSE IF w[i] = 92
             THEN <<CHOOSE c \in DOMAIN EscapeCode : EscapeCode[c] = w[i + 1]>> \o h[i + 2]
             ELSE <<w[i]>> \o h[i + 1]] = Body(h)
  <2> DEFINE Step(h, i) ==
               IF w[i] = 92
               THEN <<CHOOSE c \in DOMAIN EscapeCode : EscapeCode[c] = w[i + 1]>> \o h[i + 2]
               ELSE <<w[i]>> \o h[i + 1]
  <2>1. ASSUME NEW h, NEW i
        PROVE  Step(h, i) = <<Unescaped(w, i)>> \o h[NextToRead(w, i)]
    <3>1. Unescaped(w, i) = IF w[i] = 92 THEN CHOOSE c \in DOMAIN EscapeCode : EscapeCode[c] = w[i + 1]
                            ELSE w[i]
      BY DEF Unescaped
    <3> DEFINE z == CHOOSE c \in DOMAIN EscapeCode : EscapeCode[c] = w[i + 1]
    <3> HIDE DEF z
    <3>2. w[i] = 92 => Unescaped(w, i) = z /\ NextToRead(w, i) = i + 2
      BY <3>1 DEF z, NextToRead
    <3>3. w[i] # 92 => Unescaped(w, i) = w[i] /\ NextToRead(w, i) = i + 1
      BY <3>1 DEF NextToRead
    <3>4. (IF w[i] = 92 THEN <<z>> \o h[i + 2] ELSE <<w[i]>> \o h[i + 1])
             = <<Unescaped(w, i)>> \o h[NextToRead(w, i)]
      BY <3>2, <3>3
    <3>5. QED
      BY <3>4 DEF z
  <2>2. SUFFICES ASSUME NEW h
                 PROVE  [i \in 1 .. Len(w) + 2 |-> IF i > Len(w) THEN <<>> ELSE Step(h, i)]
                          = Body(h)
    OBVIOUS
  <2> HIDE DEF Step
  <2>3. QED
    BY <2>1 DEF n
<1>5. Read = CHOOSE h : h = Body(h)
  <2> HIDE DEF Body
  <2>1. QED
    BY <1>3, <1>4
<1> HIDE DEF n
\* there is such a function, for reading always goes on
<1>6. ASSUME NEW i \in S, ~(i > n) PROVE NextToRead(w, i) \in S /\ NextToRead(w, i) > i
  BY <1>1, <1>6 DEF NextToRead
<1>7. Recursion(S, V, Stop, m, base, step, next)
  <2>1. m \in [S -> Nat]
    BY <1>1
  <2>2. next \in [S -> S]
    <3>1. \A i \in S : (IF i > n THEN i ELSE NextToRead(w, i)) \in S
      <4> HIDE DEF S
      <4>1. QED
        BY <1>6
    <3> HIDE DEF S
    <3>2. QED
      BY <3>1
  <2>3. base \in [S -> V]
    OBVIOUS
  <2>4. step \in [S -> [V -> V]]
    <3> DEFINE X == {Unescaped(w, i) : i \in S}
    <3>1. ASSUME NEW i \in S, NEW v \in V PROVE <<Unescaped(w, i)>> \o v \in V
      <4>1. Unescaped(w, i) \in X
        OBVIOUS
      <4>2. v \in Seq(X)
        OBVIOUS
      <4> DEFINE y == Unescaped(w, i)
      <4> HIDE DEF X, y
      <4>3. <<y>> \in Seq(X)
        BY <4>1 DEF y
      <4>4. <<y>> \o v \in Seq(X)
        BY <4>2, <4>3, ConcatProperties
      <4>5. QED
        BY <4>4 DEF X, y
    <3> HIDE DEF V, S
    <3>2. QED
      BY <3>1
  <2>5. ASSUME NEW i \in S \ Stop PROVE m[next[i]] < m[i]
    <3>1. i \in S /\ ~(i > n) /\ next[i] = NextToRead(w, i)
      OBVIOUS
    <3>2. NextToRead(w, i) \in S /\ NextToRead(w, i) > i
      BY <1>6, <3>1
    <3> DEFINE j == NextToRead(w, i)
    <3> HIDE DEF j, next
    <3>3. j \in S /\ j > i /\ next[i] = j
      BY <3>1, <3>2 DEF j
    <3>4. m[j] < m[i]
      BY <1>1, <3>1, <3>3
    <3>5. QED
      BY <3>3, <3>4
  <2> HIDE DEF S, V, Stop, m, base, step, next
  <2>6. QED
    BY <2>1, <2>2, <2>3, <2>4, <2>5 DEF Recursion
<1>8. PICK f \in [S -> V] : \A i \in S : Recurs(f, i, Stop, base, step, next)
  <2> HIDE DEF S, V, Stop, m, base, step, next
  <2>1. QED
    BY <1>7, RecursionIsDefined
<1>9. f = Body(f)
  <2>1. ASSUME NEW i \in S
        PROVE  f[i] = IF i > n THEN <<>> ELSE <<Unescaped(w, i)>> \o f[NextToRead(w, i)]
    <3>1. f[i] = IF i \in Stop THEN base[i] ELSE step[i][f[next[i]]]
      BY <1>8 DEF Recurs
    <3>2. CASE i > n
      <4>1. i \in Stop /\ base[i] = <<>>
        BY <3>2
      <4>2. QED
        BY <3>1, <3>2, <4>1
    <3>3. CASE ~(i > n)
      <4>1. i \notin Stop /\ next[i] = NextToRead(w, i)
        BY <3>3
      <4>2. NextToRead(w, i) \in S
        BY <1>6, <3>3
      <4> HIDE DEF S, V, Stop, next
      <4>3. f[NextToRead(w, i)] \in V
        BY <1>8, <4>2
      <4>4. step[i][f[NextToRead(w, i)]] = <<Unescaped(w, i)>> \o f[NextToRead(w, i)]
        BY <4>3
      <4>5. QED
        BY <3>1, <3>3, <4>1, <4>4
    <3>4. QED
      BY <3>2, <3>3
  <2> HIDE DEF S, V
  <2>2. QED
    BY <1>8, <2>1
<1>10. Read = Body(Read)
  <2> HIDE DEF Body
  <2>1. QED
    BY <1>5, <1>9
<1>11. ASSUME NEW i \in S
       PROVE  Read[i] = IF i > n THEN <<>> ELSE <<Unescaped(w, i)>> \o Read[NextToRead(w, i)]
  <2> HIDE DEF S
  <2>1. QED
    BY <1>10
\* what is left to read is the escaped rest of the string
<1> DEFINE Rest(i, p, s) == w = p \o Spread(s, Escaped) /\ i = Len(p) + 1 /\ Read[i] # s
           Wrong == {i \in S : \E p, s \in String : Rest(i, p, s)}
<1>12. ASSUME NEW i \in S, NEW p \in String, NEW s \in String, Rest(i, p, s)
       PROVE  /\ ~(i > n) /\ NextToRead(w, i) \in S
              /\ \E a, r \in String : Rest(NextToRead(w, i), a, r)
  <2>1. Len(s) \in Nat /\ Len(p) \in Nat /\ i = Len(p) + 1 /\ w = p \o Spread(s, Escaped)
    BY <1>12, StringFacts
  <2>2. CASE s = <<>>
    <3>1. w = p
      BY <2>1, <2>2, EscapedIs, SpreadIs, ShortStrings, Zenon
    <3>2. i > n
      BY <2>1, <3>1 DEF n
    <3>3. Read[i] = <<>>
      BY <1>11, <3>2
    <3>4. QED
      BY <1>12, <2>2, <3>3, Zenon
  <2>3. CASE s # <<>>
    <3> DEFINE x == s[0 + 1]
               z == <<x>>
               r == Cut(s, 0 + 1, Len(s))
               a == p \o Escaped[x]
    <3>1. 0 \in 0 .. Len(s) - 1
      <4>1. Len(s) # 0
        BY <2>3, EmptySeq DEF String
      <4>2. QED
        BY <2>1, <4>1
    <3>2. x \in 0 .. 255 /\ r \in String /\ Cut(s, 0, Len(s)) = z \o r
      BY <3>1, NextCut
    <3>3. s = z \o r
      BY <3>2, CutEnds
    <3> HIDE DEF x, r
    <3>4. z \in String /\ Spread(z, Escaped) = Escaped[x] /\ Escaped[x] \in String
      BY <3>2, SpreadEscaped, Zenon
    <3>5. Spread(r, Escaped) \in String
      BY <3>2, EscapedIs, SpreadIs, Zenon
    <3> HIDE DEF z
    <3>6. Spread(z \o r, Escaped) = Escaped[x] \o Spread(r, Escaped)
      <4>1. z \in String /\ r \in String /\ Escaped \in [0 .. 255 -> String]
        BY <3>2, <3>4, EscapedIs
      <4>2. Spread(z \o r, Escaped) = Spread(z, Escaped) \o Spread(r, Escaped)
        BY <4>1, SpreadIs
      <4>3. QED
        BY <3>4, <4>2
    <3>7. w = (p \o Escaped[x]) \o Spread(r, Escaped)
      <4>1. w = p \o (Escaped[x] \o Spread(r, Escaped))
        BY <2>1, <3>3, <3>6, Zenon
      <4>2. QED
        BY <3>4, <3>5, <4>1, JoinedAnyWay, ZenonT(40)
    <3>8. /\ a \in String /\ Len(p) + 1 \in 1 .. Len(w) /\ Unescaped(w, Len(p) + 1) = x
          /\ NextToRead(w, Len(p) + 1) = Len(a) + 1
      BY <3>2, <3>5, <3>7, ReadsBack, Zenon
    <3>9. a \in String /\ ~(i > n) /\ Unescaped(w, i) = x /\ NextToRead(w, i) = Len(a) + 1
      BY <1>1, <2>1, <3>8 DEF n
    <3>10. w = a \o Spread(r, Escaped)
      BY <3>7
    <3> HIDE DEF a
    <3>11. NextToRead(w, i) \in S
      BY <1>6, <3>9
    <3>12. Read[i] = z \o Read[NextToRead(w, i)]
      BY <1>11, <3>9 DEF z
    <3>13. Read[NextToRead(w, i)] # r
      BY <1>12, <3>3, <3>12
    <3>14. Rest(NextToRead(w, i), a, r)
      BY <3>9, <3>10, <3>13
    <3> HIDE DEF Rest
    <3>15. QED
      BY <3>2, <3>9, <3>11, <3>14
  <2>4. QED
    BY <2>2, <2>3
<1>13. GoesOn(S, m, next, Wrong)
  <2>1. m \in [S -> Nat] /\ Wrong \subseteq S
    <3>1. m \in [S -> Nat]
      BY <1>1
    <3> HIDE DEF S, Rest, m
    <3>2. QED
      BY <3>1
  <2>2. ASSUME NEW i \in Wrong PROVE next[i] \in Wrong /\ m[next[i]] < m[i]
    <3>1. i \in S /\ \E p, s \in String : Rest(i, p, s)
      <4> HIDE DEF S, Rest
      <4>1. QED
        BY <2>2
    <3>2. PICK p \in String, s \in String : Rest(i, p, s)
      <4> HIDE DEF S, Rest
      <4>1. QED
        BY <3>1
    <3> DEFINE j == NextToRead(w, i)
    <3>3. ~(i > n) /\ j \in S /\ \E a, r \in String : Rest(j, a, r)
      <4> HIDE DEF S, Rest
      <4>1. QED
        BY <1>12, <3>1, <3>2
    <3>4. next[i] = j
      <4> HIDE DEF S
      <4>1. QED
        BY <3>1, <3>3
    <3>5. j > i
      <4> HIDE DEF S
      <4>1. QED
        BY <1>6, <3>1, <3>3
    <3> HIDE DEF j, next
    <3>6. m[j] < m[i]
      BY <1>1, <3>1, <3>3, <3>5
    <3> HIDE DEF S, Rest, m
    <3>7. QED
      BY <3>3, <3>4, <3>6
  <2> HIDE DEF S, m, next, Wrong
  <2>3. QED
    BY <2>1, <2>2 DEF GoesOn
<1>14. Wrong = {}
  <2> HIDE DEF S, m, next, Wrong
  <2>1. QED
    BY <1>13, NoLeastWrong
<1>15. Read[1] = t
  <2>1. 1 \in S /\ <<>> \in String /\ Len(<<>>) = 0 /\ Len(<<>>) + 1 = 1
    BY <1>1, ShortStrings
  <2>2. w = <<>> \o Spread(t, Escaped)
    BY <1>1, ShortStrings DEF w
  <2>3. Read[1] # t => Rest(1, <<>>, t)
    BY <2>1, <2>2
  <2> HIDE DEF Rest, S
  <2>4. QED
    BY <1>14, <2>1, <2>3
<1>16. QED
  BY <1>2, <1>15, Zenon DEF w

(* json_util.cc:10-82: what is escaped is there, behind as many NULs.       *)
LEMMA EscapeAlwaysKeepsText ==
  ASSUME NEW t \in String
  PROVE  EscapeKeepsText(t)
<1> DEFINE e == Spread(t, Escaped)
           n == Len(e)
           nuls == [i \in 1 .. n |-> 0]
<1>1. EscapedSize(t) = n
  BY EscapedSizeIs
<1>2. e \in String /\ n \in Nat
  BY EscapedIs, SpreadIs, StringFacts
<1>3. FlattenSeq([i \in DOMAIN t |-> EscapeChar(t[i])]) = e
  <2>1. \A i \in DOMAIN t : EscapeChar(t[i]) = Escaped[t[i]]
    <3>1. DOMAIN t = 1 .. Len(t) /\ \A i \in 1 .. Len(t) : t[i] \in 0 .. 255
      BY StringFacts
    <3>2. QED
      BY <3>1 DEF Escaped
  <2>2. [i \in DOMAIN t |-> EscapeChar(t[i])] = Each(t, Escaped)
    BY <2>1 DEF Each
  <2>3. QED
    BY <2>2 DEF Spread
<1>4. Escape(t) = IF n = Len(t) THEN t ELSE nuls \o e
  BY <1>1, <1>3 DEF Escape
<1>5. CASE NeedEscape(t)
  <2>1. n # Len(t)
    <3>1. n > Len(t) /\ Len(t) \in Nat
      BY <1>5, EscapingGrows, StringFacts
    <3>2. QED
      BY <1>2, <3>1
  <2>2. nuls \in String /\ Len(nuls) = n
    <3> DEFINE T == 0 .. 255
    <3>1. nuls \in [1 .. n -> T]
      OBVIOUS
    <3> HIDE DEF T, nuls, e, n
    <3>2. nuls \in Seq(T) /\ Len(nuls) = n
      BY <1>2, <3>1, IsSequence
    <3>3. QED
      BY <3>2 DEF T, String
  <2> HIDE DEF nuls, e, n
  <2>3. Cut(nuls \o e, Len(nuls), Len(nuls) + Len(e)) = e
    BY <1>2, <2>2, Parted
  <2>4. Len(nuls \o e) = Len(nuls) + Len(e)
    BY <1>2, <2>2, JoinedIs
  <2>5. Len(e) = n /\ n + n = 2 * n
    BY <1>2 DEF n
  <2>6. SubSeq(Escape(t), n + 1, 2 * n) = e /\ Len(Escape(t)) = 2 * n
    BY <1>4, <2>1, <2>2, <2>3, <2>4, <2>5 DEF Cut
  <2>7. Unescape(e) = t
    BY UnescapeIs DEF e
  <2>8. QED
    BY <1>1, <1>5, <2>6, <2>7 DEF EscapeKeepsText
<1>6. CASE ~NeedEscape(t)
  <2>1. e = t
    BY <1>6, EscapingGrows
  <2>2. QED
    BY <1>4, <1>6, <2>1 DEF EscapeKeepsText
<1>7. QED
  BY <1>5, <1>6

(* Products are in the order of their factors.                              *)
LEMMA Products ==
  ASSUME NEW a \in Nat, NEW b \in Nat, NEW m \in Nat, NEW n \in Nat, a <= m, b <= n
  PROVE  a * (b + 2) <= m * (n + 2)
<1> DEFINE d == m - a
           k == n - b
<1>1. d \in Nat /\ k \in Nat /\ m = a + d /\ n = b + k
  OBVIOUS
<1> HIDE DEF d, k
<1>2. /\ a * ((b + 2) + k) = a * (b + 2) + a * k
      /\ (a + d) * (n + 2) = a * (n + 2) + d * (n + 2)
  BY <1>1
<1>3. n + 2 = (b + 2) + k /\ n + 2 \in Nat
  BY <1>1
<1>4. a * k \in Nat /\ d * (n + 2) \in Nat /\ a * (b + 2) \in Nat
  BY <1>1, <1>3
<1>5. m * (n + 2) = (a * (b + 2) + a * k) + d * (n + 2)
  BY <1>1, <1>2, <1>3
<1>6. QED
  BY <1>4, <1>5

(* utils/str_utils.cc, json_util.cc, ascii.*: whatever the strings are,     *)
(* what is split or escaped can be put together again, and replacing,       *)
(* prefixes, suffixes and cases agree with each other.                      *)
THEOREM StringsAreAlwaysKept == TextSpec => []StringsAreKept
<1>1. ASSUME TextInv PROVE StringsAreKept
  <2>1. text \in String /\ Len(text) + 1 < npos /\ arg \in String
    BY <1>1, InputsAre
  <2>2. Len(text) \in Nat /\ Len(arg) \in Nat /\ Len(text) <= MaxText /\ Len(arg) <= MaxArg
    BY <1>1, <2>1, StringFacts DEF TextInv
  <2>3. Len(text) * (Len(arg) + 2) + 1 < npos
    <3>1. MaxText \in Nat /\ MaxArg \in Nat /\ MaxText * (MaxArg + 2) + 1 < npos /\ npos \in Nat
      BY TextAssumption, NposAssumption
    <3>2. Len(text) * (Len(arg) + 2) <= MaxText * (MaxArg + 2)
      BY <2>2, <3>1, Products
    <3> DEFINE p == Len(text) * (Len(arg) + 2)
               q == MaxText * (MaxArg + 2)
    <3>3. p \in Int /\ q \in Int
      BY <2>2, <3>1
    <3> HIDE DEF p, q
    <3>4. p <= q /\ q + 1 < npos
      BY <3>1, <3>2 DEF p, q
    <3>5. p + 1 < npos
      BY <3>1, <3>3, <3>4
    <3>6. QED
      BY <3>5 DEF p
  <2>4. ASSUME NEW c \in Chars PROVE c \in 0 .. 255
    BY TextAssumption DEF Byte
  <2>5. ASSUME NEW c \in Chars, NEW max \in 0 .. 3 PROVE SplitLosesNothing(text, c, max)
    <3>1. CASE text = <<>>
      BY <3>1 DEF SplitLosesNothing
    <3>2. CASE text # <<>>
      <4>1. Len(text) # 0
        BY <2>1, <3>2, EmptySeq DEF String
      <4>2. max \in 0 .. npos
        BY <2>1, <2>2, <4>1, NposAssumption
      <4>3. QED
        BY <2>1, <2>4, <4>2, SplitNeverLoses
    <3>3. QED
      BY <3>1, <3>2
  <2>6. ASSUME NEW c \in Chars PROVE ReplaceIsSplitAndJoin(text, c, arg)
    BY <2>1, <2>3, <2>4, ReplaceAlwaysSplits
  <2>7. AffixesAgree(text, arg) /\ EscapeKeepsText(text) /\ CaseIsStable(text)
    BY <2>1, AffixesAlwaysAgree, EscapeAlwaysKeepsText, CaseIsAlwaysStable
  <2>8. QED
    BY <2>5, <2>6, <2>7 DEF StringsAreKept
<1>2. QED
  BY <1>1, TextInvHolds, PTL
-----------------------------------------------------------------------------
(* The powers of two, which are doubled until the last bit is reached.      *)
LEMMA PowersAre ==
  /\ Pow2[0] = 1 /\ \A k \in Nat : Pow2[k + 1] = 2 * Pow2[k]
  /\ \A k \in Nat : Pow2[k] \in Nat \ {0}
<1> DEFINE m == [k \in Nat |-> k]
           next == [k \in Nat |-> IF k = 0 THEN 0 ELSE k - 1]
           base == [k \in Nat |-> 1]
           step == [k \in Nat |-> [v \in Nat |-> 2 * v]]
           Body(f) == [k \in Nat |-> IF k = 0 THEN 1 ELSE 2 * f[k - 1]]
<1>1. Recursion(Nat, Nat, {0}, m, base, step, next)
  <2>1. m \in [Nat -> Nat] /\ next \in [Nat -> Nat] /\ base \in [Nat -> Nat]
        /\ step \in [Nat -> [Nat -> Nat]]
    OBVIOUS
  <2>2. \A x \in Nat \ {0} : m[next[x]] < m[x]
    OBVIOUS
  <2> HIDE DEF m, next, base, step
  <2>3. QED
    BY <2>1, <2>2 DEF Recursion
<1>2. PICK f \in [Nat -> Nat] : \A x \in Nat : Recurs(f, x, {0}, base, step, next)
  <2> HIDE DEF m, next, base, step
  <2>1. QED
    BY <1>1, RecursionIsDefined
<1>3. ASSUME NEW k \in Nat PROVE f[k] = IF k = 0 THEN 1 ELSE 2 * f[k - 1]
  <2>1. f[k] = IF k \in {0} THEN base[k] ELSE step[k][f[next[k]]]
    BY <1>2 DEF Recurs
  <2>2. CASE k = 0
    BY <2>1, <2>2
  <2>3. CASE k # 0
    BY <2>1, <2>3
  <2>4. QED
    BY <2>2, <2>3
<1>4. f = Body(f)
  BY <1>3
<1>5. Pow2 = CHOOSE h : h = Body(h)
  BY DEF Pow2
<1>6. Pow2 = Body(Pow2)
  <2> HIDE DEF Body
  <2>1. QED
    BY <1>4, <1>5
<1>7. \A k \in Nat : Pow2[k] = IF k = 0 THEN 1 ELSE 2 * Pow2[k - 1]
  BY <1>6
<1>8. Pow2[0] = 1 /\ \A k \in Nat : Pow2[k + 1] = 2 * Pow2[k]
  <2>1. \A k \in Nat : k + 1 \in Nat /\ k + 1 # 0 /\ (k + 1) - 1 = k
    OBVIOUS
  <2>2. QED
    BY <1>7, <2>1
<1>9. ASSUME NEW k \in Nat PROVE Pow2[k] \in Nat \ {0}
  <2> DEFINE Holds == {j \in Nat : Pow2[j] \in Nat \ {0}}
  <2>1. 0 \in Holds
    BY <1>8
  <2>2. ASSUME NEW j \in 0 .. k - 1, j \in Holds PROVE j + 1 \in Holds
    <3>1. j \in Nat /\ j + 1 \in Nat /\ Pow2[j + 1] = 2 * Pow2[j] /\ Pow2[j] \in Nat \ {0}
      BY <1>8, <2>2
    <3>2. QED
      BY <3>1
  <2> HIDE DEF Holds
  <2>3. Climbs(k, Holds)
    BY <2>1, <2>2 DEF Climbs
  <2>4. k \in Holds
    BY <2>3, Climbing
  <2>5. QED
    BY <2>4 DEF Holds
<1>10. QED
  BY <1>8, <1>9

(* They grow.                                                               *)
LEMMA PowersGrow ==
  ASSUME NEW j \in Nat, NEW k \in 0 .. j
  PROVE  Pow2[k] <= Pow2[j]
<1> DEFINE Holds == {d \in Nat : Pow2[k] <= Pow2[k + d]}
<1>1. 0 \in Holds
  BY PowersAre
<1>2. ASSUME NEW d \in 0 .. (j - k) - 1, d \in Holds PROVE d + 1 \in Holds
  <2>1. /\ k + d \in Nat /\ (k + d) + 1 = k + (d + 1) /\ d + 1 \in Nat
        /\ Pow2[k] <= Pow2[k + d]
    BY <1>2
  <2>2. Pow2[k + (d + 1)] = 2 * Pow2[k + d] /\ Pow2[k + d] \in Nat /\ Pow2[k] \in Nat
    BY <2>1, PowersAre
  <2>3. Pow2[k] <= Pow2[k + (d + 1)]
    BY <2>1, <2>2
  <2>4. QED
    BY <2>1, <2>3
<1>3. j - k \in Nat /\ j - k \in 0 .. j - k /\ k + (j - k) = j
  OBVIOUS
<1> HIDE DEF Holds
<1>4. Climbs(j - k, Holds)
  BY <1>1, <1>2 DEF Climbs
<1>5. j - k \in Holds
  BY <1>3, <1>4, Climbing
<1>6. QED
  BY <1>3, <1>5 DEF Holds

(* A remainder and a quotient are known by their sum.                       *)
LEMMA QuotientIs ==
  ASSUME NEW m \in Nat \ {0}, NEW q \in Int, NEW r \in 0 .. m - 1, NEW n \in Int, n = m * q + r
  PROVE  n % m = r /\ n \div m = q
OBVIOUS

(* A word has at least four bits, and one half of the words are negative.   *)
LEMMA WideIs ==
  /\ Wide \in Nat /\ Wide >= 16
  /\ \E h \in Nat : /\ Wide = 2 * h /\ h >= 8 /\ Wide \div 2 = h /\ Pow2[Bits - 1] = h
                    /\ \A k \in 0 .. Bits - 2 : Pow2[k] < h
<1>1. Bits \in Nat /\ Bits >= 4 /\ Bits - 1 \in Nat /\ Bits - 2 \in Nat
      /\ (Bits - 1) + 1 = Bits /\ (Bits - 2) + 1 = Bits - 1
  BY BitsAssumption
<1>2. Pow2[3] = 8
  <2>1. Pow2[0 + 1] = 2 * Pow2[0] /\ Pow2[1 + 1] = 2 * Pow2[1] /\ Pow2[2 + 1] = 2 * Pow2[2]
    BY PowersAre
  <2>2. QED
    BY <2>1, PowersAre
<1> DEFINE h == Pow2[Bits - 1]
           g == Pow2[Bits - 2]
<1>3. h \in Nat /\ g \in Nat \ {0} /\ Wide = 2 * h /\ h = 2 * g
  <2>1. h \in Nat /\ g \in Nat \ {0}
    BY <1>1, PowersAre
  <2>2. Pow2[(Bits - 1) + 1] = 2 * h /\ Pow2[(Bits - 2) + 1] = 2 * g
    BY <1>1, PowersAre
  <2>3. QED
    BY <1>1, <2>1, <2>2 DEF Wide
<1>4. h >= 8
  <2>1. 3 \in 0 .. Bits - 1
    BY <1>1
  <2>2. Pow2[3] <= h
    BY <1>1, <2>1, PowersGrow
  <2>3. QED
    BY <1>2, <1>3, <2>2
<1>5. ASSUME NEW k \in 0 .. Bits - 2 PROVE Pow2[k] < h
  <2>1. Pow2[k] <= g /\ Pow2[k] \in Nat
    BY <1>1, PowersGrow, PowersAre
  <2> HIDE DEF g, h
  <2>2. QED
    BY <1>3, <2>1
<1> HIDE DEF h, g
<1>6. Wide \div 2 = h
  BY <1>3
<1>7. QED
  BY <1>3, <1>4, <1>5, <1>6 DEF h

(* What wraps at most once.                                                 *)
LEMMA WrapIs ==
  ASSUME NEW x \in (-Wide) .. 2 * Wide - 1
  PROVE  Wrap(x) = IF x < 0 THEN x + Wide ELSE IF x < Wide THEN x ELSE x - Wide
<1>1. PICK w \in Nat \ {0} : w = Wide
  BY WideIs
<1>2. x \in Int /\ x \in (-w) .. 2 * w - 1
  BY <1>1
<1>3. CASE x < 0
  <2>1. PICK q \in Int : q = -1
    OBVIOUS
  <2>2. x + w \in 0 .. w - 1 /\ x = w * q + (x + w)
    BY <1>2, <1>3, <2>1
  <2>3. x % w = x + w
    <3> DEFINE r == x + w
    <3>1. r \in 0 .. w - 1 /\ x = w * q + r /\ x \in Int
      BY <1>2, <2>2
    <3> HIDE DEF r
    <3>2. x % w = r
      BY <3>1, QuotientIs
    <3>3. QED
      BY <3>2 DEF r
  <2>4. QED
    BY <1>1, <1>3, <2>3 DEF Wrap
<1>4. CASE ~(x < 0) /\ x < w
  <2>1. x \in 0 .. w - 1 /\ x = w * 0 + x
    BY <1>2, <1>4
  <2>2. x % w = x
    BY <1>2, <2>1, QuotientIs
  <2>3. QED
    BY <1>1, <1>4, <2>2 DEF Wrap
<1>5. CASE ~(x < 0) /\ ~(x < w)
  <2>1. x - w \in 0 .. w - 1 /\ x = w * 1 + (x - w)
    BY <1>2, <1>5
  <2>2. x % w = x - w
    BY <1>2, <2>1, QuotientIs
  <2>3. QED
    BY <1>1, <1>5, <2>2 DEF Wrap
<1>6. QED
  BY <1>3, <1>4, <1>5

(* A number of two words.                                                   *)
LEMMA TwoWords ==
  ASSUME NEW w \in Nat \ {0}, NEW h \in Int, NEW l \in 0 .. w - 1, NEW h2 \in Int, NEW l2 \in 0 .. w - 1
  PROVE  /\ h * w + l < h2 * w + l2 <=> h < h2 \/ (h = h2 /\ l < l2)
         /\ h * w + l = h2 * w + l2 <=> h = h2 /\ l = l2
<1> DEFINE p == h * w
           p2 == h2 * w
<1>1. p \in Int /\ p2 \in Int
  OBVIOUS
<1>2. h < h2 => p + w <= p2
  <2>1. SUFFICES ASSUME h < h2 PROVE p + w <= p2
    OBVIOUS
  <2>2. PICK d \in Nat : h2 = (h + 1) + d
    <3>1. h2 - (h + 1) \in Nat /\ h2 = (h + 1) + (h2 - (h + 1))
      BY <2>1
    <3>2. QED
      BY <3>1
  <2>3. p2 = (p + w) + d * w /\ d * w \in Nat
    BY <2>2
  <2> HIDE DEF p, p2
  <2>4. QED
    BY <1>1, <2>3
<1>3. h2 < h => p2 + w <= p
  <2>1. SUFFICES ASSUME h2 < h PROVE p2 + w <= p
    OBVIOUS
  <2>2. PICK d \in Nat : h = (h2 + 1) + d
    <3>1. h - (h2 + 1) \in Nat /\ h = (h2 + 1) + (h - (h2 + 1))
      BY <2>1
    <3>2. QED
      BY <3>1
  <2>3. p = (p2 + w) + d * w /\ d * w \in Nat
    BY <2>2
  <2> HIDE DEF p, p2
  <2>4. QED
    BY <1>1, <2>3
<1>4. h = h2 => p = p2
  OBVIOUS
<1>5. h < h2 \/ h = h2 \/ h2 < h
  OBVIOUS
<1> HIDE DEF p, p2
<1>6. (p + l < p2 + l2 <=> h < h2 \/ (h = h2 /\ l < l2)) /\ (p + l = p2 + l2 <=> h = h2 /\ l = l2)
  BY <1>1, <1>2, <1>3, <1>4, <1>5
<1>7. QED
  BY <1>6 DEF p, p2

(* uint128_t.h:39-75, for all words of any width.                           *)
WordPair == [hi : Word, lo : Word]

(* A difference borrows from the high word when the low one is less.        *)
LEMMA SubIs ==
  ASSUME NEW x \in WordPair, NEW y \in WordPair
  PROVE  /\ Sub(x, y) \in WordPair
         /\ Sub(x, y).lo = IF x.lo < y.lo THEN x.lo - y.lo + Wide ELSE x.lo - y.lo
         /\ Sub(x, y).hi = Wrap(x.hi - y.hi - (IF x.lo < y.lo THEN 1 ELSE 0))
<1>1. PICK w \in Nat : w = Wide /\ w >= 16
  BY WideIs
<1>2. x.lo \in 0 .. w - 1 /\ y.lo \in 0 .. w - 1 /\ x.hi \in 0 .. w - 1 /\ y.hi \in 0 .. w - 1
  BY <1>1 DEF WordPair, Word
<1> DEFINE lo == Wrap(x.lo - y.lo)
           b == IF x.lo < y.lo THEN 1 ELSE 0
           d == x.hi - y.hi - b
<1>3. lo = IF x.lo < y.lo THEN x.lo - y.lo + w ELSE x.lo - y.lo
  <2>1. x.lo - y.lo \in (-w) .. 2 * w - 1
    BY <1>1, <1>2
  <2>2. lo = IF x.lo - y.lo < 0 THEN (x.lo - y.lo) + w
             ELSE IF x.lo - y.lo < w THEN x.lo - y.lo ELSE x.lo - y.lo - w
    BY <1>1, <2>1, WrapIs
  <2> HIDE DEF lo
  <2>3. QED
    BY <1>1, <1>2, <2>2
<1>4. d \in (-w) .. 2 * w - 1 /\ d \in Int
  BY <1>1, <1>2
<1>5. Wrap(d) \in 0 .. w - 1
  <2>1. Wrap(d) = IF d < 0 THEN d + w ELSE IF d < w THEN d ELSE d - w
    BY <1>1, <1>4, WrapIs
  <2> HIDE DEF d
  <2>2. QED
    BY <1>1, <1>4, <2>1
<1>6. Bit(x.lo < lo) = b
  <2>1. x.lo < lo <=> x.lo < y.lo
    <3> HIDE DEF lo
    <3>1. QED
      BY <1>1, <1>2, <1>3
  <2>2. QED
    BY <2>1 DEF Bit
<1>7. Sub(x, y) = [hi |-> Wrap(d), lo |-> lo]
  <2> HIDE DEF b
  <2>1. QED
    BY <1>6 DEF Sub, U
<1>8. lo \in 0 .. w - 1
  <2> HIDE DEF lo
  <2>1. QED
    BY <1>1, <1>2, <1>3
<1> HIDE DEF lo, d
<1>9. Sub(x, y) \in WordPair /\ Sub(x, y).lo = lo /\ Sub(x, y).hi = Wrap(d)
  BY <1>1, <1>5, <1>7, <1>8 DEF WordPair, Word
<1>10. QED
  BY <1>1, <1>3, <1>9 DEF d

(* A difference of two pairs of words, as that of the numbers.              *)
LEMMA SubIsExact ==
  ASSUME NEW x \in WordPair, NEW y \in WordPair
  PROVE  Number(Sub(x, y)) = (Number(x) - Number(y)) % (Wide * Wide)
<1>1. PICK w \in Nat : w = Wide /\ w >= 16
  BY WideIs
<1>2. PICK xl \in 0 .. w - 1, xh \in 0 .. w - 1, yl \in 0 .. w - 1, yh \in 0 .. w - 1 :
        xl = x.lo /\ xh = x.hi /\ yl = y.lo /\ yh = y.hi
  BY <1>1 DEF WordPair, Word
<1>3. PICK b \in 0 .. 1 : b = IF xl < yl THEN 1 ELSE 0
  OBVIOUS
<1>4. PICK l \in Int : l = xl - yl + b * w
  OBVIOUS
<1>5. l \in 0 .. w - 1 /\ Sub(x, y).lo = l
  <2>1. Sub(x, y).lo = IF xl < yl THEN xl - yl + w ELSE xl - yl
    BY <1>1, <1>2, SubIs
  <2>2. CASE xl < yl
    BY <1>1, <1>3, <1>4, <2>1, <2>2
  <2>3. CASE ~(xl < yl)
    BY <1>1, <1>3, <1>4, <2>1, <2>3
  <2>4. QED
    BY <2>2, <2>3
<1>6. PICK c \in 0 .. 1, h \in 0 .. w - 1 : h = (xh - yh - b) + c * w /\ Sub(x, y).hi = h
  <2> DEFINE d == xh - yh - b
  <2>1. Sub(x, y).hi = Wrap(d)
    BY <1>1, <1>2, <1>3, SubIs
  <2>2. d \in Int /\ d \in (-w) .. 2 * w - 1 /\ d < w
    BY <1>1
  <2>3. Wrap(d) = IF d < 0 THEN d + w ELSE d
    BY <1>1, <2>2, WrapIs
  <2> HIDE DEF d
  <2>4. CASE d < 0
    <3>1. d + w \in 0 .. w - 1 /\ d + w = d + 1 * w /\ Sub(x, y).hi = d + w
      BY <1>1, <2>1, <2>2, <2>3, <2>4
    <3>2. QED
      BY <3>1 DEF d
  <2>5. CASE ~(d < 0)
    <3>1. d \in 0 .. w - 1 /\ d = d + 0 * w /\ Sub(x, y).hi = d
      BY <1>1, <2>1, <2>2, <2>3, <2>5
    <3>2. QED
      BY <3>1 DEF d
  <2>6. QED
    BY <2>4, <2>5
<1>7. Number(x) = xh * w + xl /\ Number(y) = yh * w + yl /\ Number(Sub(x, y)) = h * w + l
  BY <1>1, <1>2, <1>5, <1>6 DEF Number
<1> DEFINE n == (xh * w + xl) - (yh * w + yl)
           m == w * w
           r == h * w + l
<1>8. n = m * (-c) + r
  <2>1. xl = l + yl - b * w /\ xh = h + yh + b - c * w
    BY <1>4, <1>6
  <2>2. xh * w = h * w + yh * w + b * w - c * (w * w)
    BY <2>1
  <2> DEFINE a1 == xh * w
             a2 == h * w
             a3 == yh * w
             a4 == b * w
             a5 == c * (w * w)
             a6 == (w * w) * (-c)
  <2>3. a1 \in Int /\ a2 \in Int /\ a3 \in Int /\ a4 \in Int /\ a5 \in Int /\ a6 = -a5
    OBVIOUS
  <2>4. a1 = a2 + a3 + a4 - a5 /\ xl = l + yl - a4
    BY <2>1, <2>2
  <2> HIDE DEF a1, a2, a3, a4, a5, a6
  <2>5. (a1 + xl) - (a3 + yl) = a6 + (a2 + l)
    BY <2>3, <2>4
  <2>6. QED
    BY <2>5 DEF a1, a2, a3, a4, a5, a6
<1>9. r \in 0 .. m - 1
  <2>1. h + 1 <= w /\ h \in Nat /\ l \in Nat /\ l + 1 <= w
    BY <1>1, <1>5
  <2>2. h * w \in Nat /\ (h + 1) * w = h * w + w
    OBVIOUS
  <2>3. (h + 1) * w <= w * w
    <3>1. PICK e \in Nat : w = (h + 1) + e
      <4>1. w - (h + 1) \in Nat /\ w = (h + 1) + (w - (h + 1))
        BY <2>1
      <4>2. QED
        BY <4>1
    <3>2. w * w = (h + 1) * w + e * w /\ e * w \in Nat
      BY <3>1
    <3> DEFINE a1 == w * w
               a2 == (h + 1) * w
               a3 == e * w
    <3>3. a1 = a2 + a3 /\ a3 \in Nat /\ a2 \in Int
      BY <3>2
    <3> HIDE DEF a1, a2, a3
    <3>4. a2 <= a1
      BY <3>3
    <3>5. QED
      BY <3>4 DEF a1, a2
  <2> DEFINE a1 == w * w
             a2 == h * w
  <2>4. a2 + w <= a1 /\ a2 \in Nat /\ a1 \in Int
    BY <2>2, <2>3
  <2> HIDE DEF a1, a2
  <2>5. a2 + l \in 0 .. a1 - 1
    BY <2>1, <2>4
  <2>6. QED
    BY <2>5 DEF a1, a2
<1>10. m \in Nat \ {0} /\ n \in Int /\ -c \in Int
  <2>1. w * w \in Nat /\ w * w # 0
    BY <1>1
  <2>2. QED
    BY <2>1
<1> HIDE DEF m, n, r
<1>11. n % m = r
  <2>1. PICK q \in Int : q = -c
    BY <1>10
  <2>2. n = m * q + r
    BY <1>8, <2>1
  <2>3. QED
    BY <1>9, <1>10, <2>2, QuotientIs
<1>12. QED
  BY <1>1, <1>7, <1>11 DEF n, m, r

(* A sum, undone: its carry is right only when nothing was added.           *)
LEMMA CarryIsWrong ==
  ASSUME NEW x \in WordPair, NEW y \in WordPair
  PROVE  Add(x, y) \in WordPair /\ (Sub(Add(x, y), y) = x <=> y.lo = 0)
<1>1. PICK w \in Nat : w = Wide /\ w >= 16
  BY WideIs
<1>2. PICK xl \in 0 .. w - 1, xh \in 0 .. w - 1, yl \in 0 .. w - 1, yh \in 0 .. w - 1 :
        xl = x.lo /\ xh = x.hi /\ yl = y.lo /\ yh = y.hi
  BY <1>1 DEF WordPair, Word
<1> DEFINE s == Add(x, y)
           lo == Wrap(xl + yl)
           c == Bit(lo > xl)
           d == Sub(s, y)
<1>3. \A v \in (-w) .. 2 * w - 1 :
        /\ Wrap(v) = IF v < 0 THEN v + w ELSE IF v < w THEN v ELSE v - w
        /\ Wrap(v) \in 0 .. w - 1
  <2>1. SUFFICES ASSUME NEW v \in (-w) .. 2 * w - 1
                 PROVE  /\ Wrap(v) = IF v < 0 THEN v + w ELSE IF v < w THEN v ELSE v - w
                        /\ Wrap(v) \in 0 .. w - 1
    OBVIOUS
  <2>2. Wrap(v) = IF v < 0 THEN v + w ELSE IF v < w THEN v ELSE v - w
    BY <1>1, WrapIs
  <2>3. v \in Int
    OBVIOUS
  <2>4. QED
    BY <1>1, <2>2, <2>3
<1>4. lo = (IF xl + yl < w THEN xl + yl ELSE xl + yl - w) /\ lo \in 0 .. w - 1
  <2>1. xl + yl \in (-w) .. 2 * w - 1 /\ ~(xl + yl < 0)
    BY <1>1
  <2> HIDE DEF lo
  <2>2. lo = (IF xl + yl < 0 THEN xl + yl + w ELSE IF xl + yl < w THEN xl + yl ELSE xl + yl - w)
        /\ lo \in 0 .. w - 1
    BY <1>3, <2>1 DEF lo
  <2>3. QED
    BY <2>1, <2>2
<1>5. c = IF lo > xl THEN 1 ELSE 0
  BY DEF Bit
<1> DEFINE e == xh + yh + c
           hi == Wrap(e)
<1>6. s = [hi |-> hi, lo |-> lo]
  BY <1>2 DEF Add, U
<1>7. e \in (-w) .. 2 * w - 1
  <2> HIDE DEF c
  <2>1. QED
    BY <1>1, <1>5
<1>8. hi = (IF e < w THEN e ELSE e - w) /\ hi \in 0 .. w - 1
  <2>1. ~(e < 0)
    <3> HIDE DEF c
    <3>1. QED
      BY <1>1, <1>5
  <2> HIDE DEF e, hi
  <2>2. QED
    BY <1>3, <1>7, <2>1 DEF hi
<1>9. s \in WordPair /\ s.hi = hi /\ s.lo = lo
  <2> HIDE DEF hi, lo, s
  <2>1. QED
    BY <1>1, <1>4, <1>6, <1>8 DEF WordPair, Word
<1>10. /\ d \in WordPair
       /\ d.lo = IF lo < yl THEN lo - yl + w ELSE lo - yl
       /\ d.hi = Wrap(hi - yh - (IF lo < yl THEN 1 ELSE 0))
  <2> HIDE DEF hi, lo, s
  <2>1. QED
    BY <1>1, <1>2, <1>9, SubIs
<1> DEFINE b == IF lo < yl THEN 1 ELSE 0
           v == hi - yh - b
<1>11. d.lo = xl
  <2> HIDE DEF lo, d
  <2>1. QED
    BY <1>1, <1>4, <1>10
<1>12. v \in (-w) .. 2 * w - 1 /\ v < w /\ v \in Int
  <2> HIDE DEF hi, lo
  <2>1. QED
    BY <1>1, <1>8
<1>13. d.hi = IF v < 0 THEN v + w ELSE v
  <2>1. d.hi = Wrap(v)
    BY <1>10
  <2> HIDE DEF v, d
  <2>2. QED
    BY <1>3, <1>12, <2>1
<1>14. yl = 0 => d.hi = xh
  <2>1. SUFFICES ASSUME yl = 0 PROVE d.hi = xh
    OBVIOUS
  <2>2. lo = xl
    <3> HIDE DEF lo
    <3>1. QED
      BY <1>1, <1>4, <2>1
  <2>3. c = 0 /\ b = 0
    <3> HIDE DEF lo
    <3>1. lo \in Nat
      BY <1>4
    <3>2. QED
      BY <1>5, <2>1, <2>2, <3>1
  <2>4. e = xh + yh /\ v = hi - yh
    <3> HIDE DEF c, b, hi
    <3>1. hi \in Int
      BY <1>8
    <3>2. QED
      BY <2>3, <3>1
  <2> HIDE DEF e, v, hi, d
  <2>5. QED
    BY <1>1, <1>8, <1>13, <2>4
<1>15. yl # 0 => d.hi # xh
  <2>1. SUFFICES ASSUME yl # 0 PROVE d.hi # xh
    OBVIOUS
  <2>2. CASE xl + yl < w
    <3>1. lo = xl + yl
      <4> HIDE DEF lo
      <4>1. QED
        BY <1>4, <2>2
    <3>2. lo > xl /\ ~(lo < yl)
      <4> HIDE DEF lo
      <4>1. QED
        BY <1>1, <2>1, <3>1
    <3>3. c = 1 /\ b = 0
      <4> HIDE DEF lo
      <4>1. QED
        BY <1>5, <3>2
    <3>4. e = xh + yh + 1 /\ v = hi - yh
      <4> HIDE DEF c, b, hi
      <4>1. hi \in Int
        BY <1>8
      <4>2. QED
        BY <3>3, <4>1
    <3> HIDE DEF e, v, hi, d
    <3>5. QED
      BY <1>1, <1>8, <1>13, <3>4
  <2>3. CASE ~(xl + yl < w)
    <3>1. lo = xl + yl - w
      <4> HIDE DEF lo
      <4>1. QED
        BY <1>4, <2>3
    <3>2. ~(lo > xl) /\ lo < yl
      <4> HIDE DEF lo
      <4>1. QED
        BY <1>1, <2>1, <3>1
    <3>3. c = 0 /\ b = 1
      <4> HIDE DEF lo
      <4>1. QED
        BY <1>5, <3>2
    <3>4. e = xh + yh /\ v = hi - yh - 1
      <4> HIDE DEF c, b, hi
      <4>1. hi \in Int
        BY <1>8
      <4>2. QED
        BY <3>3, <4>1
    <3> HIDE DEF e, v, hi, d
    <3>5. QED
      BY <1>1, <1>8, <1>13, <3>4
  <2>4. QED
    BY <2>2, <2>3
<1>16. d = x <=> d.hi = xh /\ d.lo = xl
  <2>1. d = [hi |-> d.hi, lo |-> d.lo] /\ x = [hi |-> xh, lo |-> xl]
    <3> HIDE DEF d
    <3>1. d = [hi |-> d.hi, lo |-> d.lo]
      BY <1>10 DEF WordPair
    <3>2. x = [hi |-> x.hi, lo |-> x.lo]
      BY DEF WordPair
    <3>3. QED
      BY <1>2, <3>1, <3>2
  <2> HIDE DEF d
  <2>2. QED
    BY <2>1
<1> HIDE DEF d
<1>17. d = x <=> yl = 0
  BY <1>11, <1>14, <1>15, <1>16
<1>18. QED
  BY <1>2, <1>9, <1>17 DEF d, s

(* A difference modulo m, undone.                                           *)
LEMMA SumUndone ==
  ASSUME NEW m \in Nat \ {0}, NEW s \in 0 .. m - 1, NEW x \in 0 .. m - 1, NEW y \in 0 .. m - 1
  PROVE  (s - y) % m = x <=> s = (x + y) % m
<1>1. (s - y) % m = IF y <= s THEN s - y ELSE s - y + m
  <2>1. CASE y <= s
    <3>1. PICK r \in 0 .. m - 1 : r = s - y /\ s - y = m * 0 + r
      BY <2>1
    <3>2. QED
      BY <2>1, <3>1, QuotientIs
  <2>2. CASE ~(y <= s)
    <3>1. PICK r \in 0 .. m - 1 : r = s - y + m /\ s - y = m * (-1) + r
      <4>1. s - y + m \in 0 .. m - 1 /\ s - y = m * (-1) + (s - y + m)
        BY <2>2
      <4>2. QED
        BY <4>1
    <3>2. PICK q \in Int : q = -1
      OBVIOUS
    <3>3. s - y = m * q + r /\ s - y \in Int
      BY <3>1, <3>2
    <3>4. (s - y) % m = r
      BY <3>3, QuotientIs
    <3>5. QED
      BY <2>2, <3>1, <3>4
  <2>3. QED
    BY <2>1, <2>2
<1>2. (x + y) % m = IF x + y < m THEN x + y ELSE x + y - m
  <2>1. CASE x + y < m
    <3>1. PICK r \in 0 .. m - 1 : r = x + y /\ x + y = m * 0 + r
      BY <2>1
    <3>2. QED
      BY <2>1, <3>1, QuotientIs
  <2>2. CASE ~(x + y < m)
    <3>1. PICK r \in 0 .. m - 1 : r = x + y - m /\ x + y = m * 1 + r
      BY <2>2
    <3>2. QED
      BY <2>2, <3>1, QuotientIs
  <2>3. QED
    BY <2>1, <2>2
<1> DEFINE minus == (s - y) % m
           plus == (x + y) % m
<1> HIDE DEF minus, plus
<1>3. /\ minus = IF y <= s THEN s - y ELSE s - y + m
      /\ plus = IF x + y < m THEN x + y ELSE x + y - m
  BY <1>1, <1>2 DEF minus, plus
<1>4. minus = x <=> s = plus
  BY <1>3
<1>5. QED
  BY <1>4 DEF minus, plus

(* The number of two words is below the square of what a word can hold.     *)
LEMMA NumberIs ==
  ASSUME NEW x \in WordPair
  PROVE  Number(x) \in 0 .. Wide * Wide - 1
<1>1. PICK w \in Nat \ {0} : w = Wide
  BY WideIs
<1>2. PICK l \in 0 .. w - 1, h \in 0 .. w - 1 : l = x.lo /\ h = x.hi
  BY <1>1 DEF WordPair, Word
<1>3. h * w + l < w * w + 0 /\ 0 * w + 0 <= h * w + l
  <2>1. 0 \in 0 .. w - 1 /\ h < w /\ w \in Int /\ 0 \in Int
    OBVIOUS
  <2>2. h * w + l < w * w + 0
    BY <2>1, TwoWords
  <2>3. h * w \in Nat
    OBVIOUS
  <2>4. QED
    BY <2>2, <2>3
<1> DEFINE p == h * w
           m == w * w
<1>4. p \in Int /\ m \in Int
  OBVIOUS
<1>5. p + l < m /\ 0 <= p + l
  BY <1>3
<1> HIDE DEF p, m
<1>6. p + l \in 0 .. m - 1
  BY <1>4, <1>5
<1>7. QED
  BY <1>1, <1>2, <1>6 DEF Number, p, m

(* A sum is that of the numbers only when nothing is added to the low word. *)
LEMMA AddIsExactWithoutCarry ==
  ASSUME NEW x \in WordPair, NEW y \in WordPair
  PROVE  Number(Add(x, y)) = (Number(x) + Number(y)) % (Wide * Wide) <=> y.lo = 0
<1> DEFINE s == Add(x, y)
           d == Sub(s, y)
           m == Wide * Wide
<1>1. s \in WordPair /\ (d = x <=> y.lo = 0)
  BY CarryIsWrong
<1> HIDE DEF s
<1>2. d \in WordPair /\ Number(d) = (Number(s) - Number(y)) % m
  BY <1>1, SubIs, SubIsExact
<1> HIDE DEF d
<1>3. Number(d) = Number(x) <=> d = x
  <2>1. PICK w \in Nat \ {0} : w = Wide
    BY WideIs
  <2>2. PICK xl \in 0 .. w - 1, xh \in 0 .. w - 1, dl \in 0 .. w - 1, dh \in 0 .. w - 1 :
          xl = x.lo /\ xh = x.hi /\ dl = d.lo /\ dh = d.hi
    BY <1>2, <2>1 DEF WordPair, Word
  <2>3. Number(d) = dh * w + dl /\ Number(x) = xh * w + xl
    BY <2>1, <2>2 DEF Number
  <2>4. dh * w + dl = xh * w + xl <=> dh = xh /\ dl = xl
    BY <2>1, TwoWords
  <2>5. d = x <=> d.hi = x.hi /\ d.lo = x.lo
    BY <1>2 DEF WordPair
  <2>6. QED
    BY <2>2, <2>3, <2>4, <2>5
<1>4. m \in Nat \ {0}
  <2>1. PICK w \in Nat \ {0} : w = Wide
    BY WideIs
  <2>2. w * w \in Nat \ {0}
    OBVIOUS
  <2>3. QED
    BY <2>1, <2>2
<1>5. Number(s) \in 0 .. m - 1 /\ Number(x) \in 0 .. m - 1 /\ Number(y) \in 0 .. m - 1
  BY <1>1, NumberIs
<1> HIDE DEF m
<1>6. (Number(s) - Number(y)) % m = Number(x) <=> Number(s) = (Number(x) + Number(y)) % m
  <2>1. PICK k \in Nat \ {0} : k = m
    BY <1>4
  <2>2. PICK p \in 0 .. k - 1, q \in 0 .. k - 1, r \in 0 .. k - 1 :
          p = Number(s) /\ q = Number(x) /\ r = Number(y)
    BY <1>5, <2>1
  <2>3. (p - r) % k = q <=> p = (q + r) % k
    BY SumUndone
  <2>4. QED
    BY <2>1, <2>2, <2>3
<1>7. QED
  BY <1>1, <1>2, <1>3, <1>6 DEF s, m

(* What the operators of utils/uint128_t.h compute on words of any width,   *)
(* the inverted equality and the carry that gets lost included.             *)
THEOREM WideArithmeticHolds ==
  ASSUME NEW x \in WordPair, NEW y \in WordPair
  PROVE  WideArithmetic(x, y)
<1>1. PICK w \in Nat \ {0} : w = Wide
  BY WideIs
<1>2. PICK xl \in 0 .. w - 1, xh \in 0 .. w - 1, yl \in 0 .. w - 1, yh \in 0 .. w - 1 :
        xl = x.lo /\ xh = x.hi /\ yl = y.lo /\ yh = y.hi
  BY <1>1 DEF WordPair, Word
<1> DEFINE p == xh * w + xl
           q == yh * w + yl
<1>3. /\ p < q <=> xh < yh \/ (xh = yh /\ xl < yl)
      /\ p = q <=> xh = yh /\ xl = yl
  BY TwoWords
<1>4. p \in Int /\ q \in Int /\ Number(x) = p /\ Number(y) = q
  BY <1>1, <1>2 DEF Number
<1> HIDE DEF p, q
<1>5. /\ p <= q <=> p < q \/ p = q
      /\ p > q <=> ~(p <= q)
      /\ p >= q <=> ~(p < q)
      /\ xl <= yl <=> xl < yl \/ xl = yl
  BY <1>4
<1>6. Lt(x, y) <=> p < q
  BY <1>2, <1>3 DEF Lt
<1>7. Le(x, y) <=> p <= q
  BY <1>2, <1>3, <1>5 DEF Le
<1>8. (Gt(x, y) <=> p > q) /\ (Ge(x, y) <=> p >= q)
  BY <1>5, <1>6, <1>7 DEF Gt, Ge
<1>9. (Eq(x, y) <=> p # q) /\ (Ne(x, y) <=> p = q)
  BY <1>2, <1>3 DEF Eq, Ne
<1>10. QED
  BY <1>4, <1>6, <1>7, <1>8, <1>9, SubIsExact, AddIsExactWithoutCarry DEF WideArithmetic

(* A number of at least half the words is a negative one.                   *)
LEMMA SignedIs ==
  ASSUME NEW x \in 0 .. Wide - 1
  PROVE  \E h \in Nat : /\ Wide = 2 * h /\ Wide \div 2 = h /\ Pow2[Bits - 1] = h
                        /\ Signed(x) = IF x < h THEN x ELSE x - Wide
<1>1. PICK h \in Nat : Wide = 2 * h /\ h >= 8 /\ Wide \div 2 = h /\ Pow2[Bits - 1] = h
  BY WideIs
<1>2. x \in Nat /\ x < Wide /\ x \in (-Wide) .. 2 * Wide - 1
  BY <1>1
<1>3. Wrap(x) = x
  BY <1>2, WrapIs
<1>4. Signed(x) = IF x < h THEN x ELSE x - Wide
  BY <1>1, <1>3 DEF Signed
<1>5. QED
  BY <1>1, <1>4

(* retry_policy.h:23, for any two numbers of the width of a word.           *)
THEOREM RetriesAlwaysBackOff ==
  ASSUME NEW b \in Int, NEW max \in Int
  PROVE  RetriesBackOff(b, max)
<1>1. PICK h \in Nat : /\ Wide = 2 * h /\ h >= 8 /\ Wide \div 2 = h /\ Pow2[Bits - 1] = h
                       /\ \A k \in 0 .. Bits - 2 : Pow2[k] < h
  BY WideIs
<1>2. Bits \in Nat /\ Bits >= 4
  BY BitsAssumption
<1>3. \A x \in Int : Signed(x) \in Int
  <2>1. SUFFICES ASSUME NEW x \in Int PROVE Signed(x) \in Int
    OBVIOUS
  <2>2. Wrap(x) \in Int /\ Wide \in Int
    BY <1>1 DEF Wrap
  <2>3. QED
    BY <2>2 DEF Signed
<1>4. ASSUME NEW x \in 0 .. h - 1 PROVE Signed(x) = x
  <2>1. x \in 0 .. Wide - 1
    BY <1>1
  <2>2. QED
    BY <1>1, <2>1, SignedIs
<1>5. Signed(h) = h - Wide
  <2>1. h \in 0 .. Wide - 1
    BY <1>1
  <2>2. QED
    BY <1>1, <2>1, SignedIs
<1> DEFINE Interval(n) == Signed(b * Signed(Pow2[n]))
<1>6. ASSUME NEW n \in 0 .. Bits - 1
      PROVE  /\ GetRetryInterval(b, max, n) = IF Interval(n) < max THEN Interval(n) ELSE max
             /\ Interval(n) \in Int
  <2>1. (IF n < Bits - 1 THEN n ELSE Bits - 1) = n
    BY <1>2
  <2>2. GetRetryInterval(b, max, n) = IF Interval(n) < max THEN Interval(n) ELSE max
    BY <2>1 DEF GetRetryInterval
  <2>3. n \in Nat
    BY <1>2
  <2>4. Pow2[n] \in Int
    BY <2>3, PowersAre
  <2>5. Signed(Pow2[n]) \in Int
    BY <1>3, <2>4
  <2>6. b * Signed(Pow2[n]) \in Int
    BY <2>5
  <2>7. QED
    BY <1>3, <2>2, <2>6
<1>7. ASSUME NEW n \in 0 .. Bits - 2
      PROVE  /\ GetRetryInterval(b, max, n) <= max
             /\ b >= 0 /\ 2 * b * Pow2[n] < Wide \div 2 =>
                  /\ GetRetryInterval(b, max, n) <= GetRetryInterval(b, max, n + 1)
                  /\ GetRetryInterval(b, max, n) < max =>
                       LET next == 2 * GetRetryInterval(b, max, n)
                       IN  GetRetryInterval(b, max, n + 1) = IF next < max THEN next ELSE max
  <2>1. n \in Nat /\ n \in 0 .. Bits - 1 /\ n + 1 \in 0 .. Bits - 1
    BY <1>2
  <2> DEFINE g == GetRetryInterval(b, max, n)
             g2 == GetRetryInterval(b, max, n + 1)
             i == Interval(n)
             i2 == Interval(n + 1)
  <2>2. /\ g = (IF i < max THEN i ELSE max) /\ i \in Int
        /\ g2 = (IF i2 < max THEN i2 ELSE max) /\ i2 \in Int
    <3> HIDE DEF Interval
    <3>1. QED
      BY <1>6, <2>1
  <2>3. ASSUME b >= 0, 2 * b * Pow2[n] < Wide \div 2 PROVE i >= 0 /\ i2 = 2 * i
    <3>1. PICK p \in Nat : p = Pow2[n] /\ p # 0 /\ p < h /\ Pow2[n + 1] = 2 * p
      BY <1>1, <2>1, PowersAre
    <3> DEFINE v == b * p
    <3>2. v \in Nat /\ 2 * b * p = 2 * v /\ b * (2 * p) = 2 * v
      BY <2>3, <3>1
    <3>3. 2 * v < h /\ v < h
      <4>1. 2 * b * p < h
        BY <1>1, <2>3, <3>1
      <4> HIDE DEF v
      <4>2. QED
        BY <3>2, <4>1
    <3>4. i = v
      <4>1. p \in 0 .. h - 1
        BY <3>1
      <4>2. Signed(p) = p
        BY <1>4, <4>1
      <4>3. i = Signed(v)
        BY <3>1, <4>2
      <4> HIDE DEF v, i
      <4>4. v \in 0 .. h - 1
        BY <3>2, <3>3
      <4>5. QED
        BY <1>4, <4>3, <4>4
    <3>5. CASE n # Bits - 2
      <4>1. n + 1 \in 0 .. Bits - 2
        BY <1>2, <3>5
      <4>2. 2 * p \in 0 .. h - 1
        BY <1>1, <3>1, <4>1
      <4>3. Signed(2 * p) = 2 * p
        BY <1>4, <4>2
      <4>4. i2 = Signed(b * (2 * p))
        BY <3>1, <4>3
      <4>5. i2 = Signed(2 * v)
        BY <3>2, <4>4
      <4> HIDE DEF v, i, i2
      <4>6. 2 * v \in 0 .. h - 1
        BY <3>2, <3>3
      <4>7. i2 = 2 * v
        BY <1>4, <4>5, <4>6
      <4>8. QED
        BY <3>2, <3>4, <4>7
    <3>6. CASE n = Bits - 2
      <4>1. n + 1 = Bits - 1
        BY <1>2, <3>6
      <4>2. 2 * p = h
        BY <1>1, <3>1, <4>1
      <4>3. b = 0
        <5>1. b * h < h
          BY <3>2, <3>3, <4>2
        <5>2. b >= 1 => b * h >= h
          <6>1. SUFFICES ASSUME b >= 1 PROVE b * h >= h
            OBVIOUS
          <6>2. PICK d \in Nat : b = 1 + d
            <7>1. b - 1 \in Nat /\ b = 1 + (b - 1)
              BY <6>1
            <7>2. QED
              BY <7>1
          <6>3. b * h = h + d * h /\ d * h \in Nat
            BY <6>2
          <6> DEFINE a1 == b * h
                     a2 == d * h
          <6>4. a1 = h + a2 /\ a2 \in Nat
            BY <6>3
          <6> HIDE DEF a1, a2
          <6>5. a1 >= h
            BY <6>4
          <6>6. QED
            BY <6>5 DEF a1
        <5> DEFINE a == b * h
        <5>3. a < h /\ (b >= 1 => a >= h) /\ a \in Int
          BY <5>1, <5>2
        <5> HIDE DEF a
        <5>4. QED
          BY <2>3, <5>3
      <4>4. Signed(Pow2[n + 1]) \in Int
        BY <1>3, <3>1
      <4>5. i2 = Signed(0)
        <5>1. 0 * Signed(Pow2[n + 1]) = 0
          BY <4>4
        <5>2. QED
          BY <4>3, <5>1
      <4>6. 0 \in 0 .. h - 1
        BY <1>1
      <4>7. i2 = 0
        <5> HIDE DEF i2
        <5>1. QED
          BY <1>4, <4>5, <4>6
      <4>8. v = 0
        BY <3>1, <4>3
      <4> HIDE DEF i, i2, v
      <4>9. QED
        BY <3>4, <4>7, <4>8
    <3> HIDE DEF i, i2, v
    <3>7. QED
      BY <3>2, <3>4, <3>5, <3>6
  <2>4. g <= max
    <3> HIDE DEF g, i, g2, i2
    <3>1. QED
      BY <2>2
  <2>5. ASSUME b >= 0, 2 * b * Pow2[n] < Wide \div 2
        PROVE  g <= g2 /\ (g < max => g2 = IF 2 * g < max THEN 2 * g ELSE max)
    <3>1. i >= 0 /\ i2 = 2 * i
      BY <2>3, <2>5
    <3> HIDE DEF g, i, g2, i2
    <3>2. QED
      BY <2>2, <3>1
  <2>6. QED
    BY <2>4, <2>5
<1>8. QED
  BY <1>7 DEF RetriesBackOff

(* A number by its digits: what the sum is after the k-th of them.          *)
PackedBy(f, s, base) ==
  /\ f \in [0 .. Len(s) -> Int] /\ f[0] = 0 /\ Packed(s, base) = f[Len(s)]
  /\ \A k \in 1 .. Len(s) : f[k] = f[k - 1] * base + s[k]

(* There are such sums, and the number is the last.                         *)
LEMMA PackedIs ==
  ASSUME NEW base \in Nat, NEW s \in Seq(Int)
  PROVE  \E f : PackedBy(f, s, base)
<1> DEFINE n == Len(s)
           S == 0 .. n
           m == [k \in S |-> k]
           next == [k \in S |-> IF k = 0 THEN 0 ELSE k - 1]
           zero == [k \in S |-> 0]
           step == [k \in S |-> [v \in Int |-> v * base + (IF k = 0 THEN 0 ELSE s[k])]]
           Body(f) == [k \in S |-> IF k = 0 THEN 0 ELSE f[k - 1] * base + s[k]]
           Value[k \in 0 .. Len(s)] == IF k = 0 THEN 0 ELSE Value[k - 1] * base + s[k]
<1>1. n \in Nat /\ n \in S /\ 0 \in S /\ \A k \in 1 .. n : s[k] \in Int
  BY LenProperties, ElementOfSeq
<1>2. Recursion(S, Int, {0}, m, zero, step, next)
  <2>1. ASSUME NEW k \in S PROVE k \in Nat /\ (k # 0 => k - 1 \in S /\ k \in 1 .. n)
    BY <1>1
  <2>2. m \in [S -> Nat] /\ zero \in [S -> Int]
    BY <2>1
  <2>3. next \in [S -> S]
    BY <1>1, <2>1
  <2>4. step \in [S -> [Int -> Int]]
    <3>1. ASSUME NEW k \in S, NEW v \in Int
          PROVE  v * base + (IF k = 0 THEN 0 ELSE s[k]) \in Int
      <4>1. (IF k = 0 THEN 0 ELSE s[k]) \in Int
        BY <1>1, <2>1
      <4>2. v * base \in Int
        OBVIOUS
      <4>3. QED
        BY <4>1, <4>2
    <3> HIDE DEF n
    <3>2. QED
      BY <3>1
  <2>5. \A k \in S \ {0} : m[next[k]] < m[k]
    BY <2>1
  <2> HIDE DEF m, next, zero, step
  <2>6. QED
    BY <2>2, <2>3, <2>4, <2>5 DEF Recursion
<1>3. PICK f \in [S -> Int] : \A x \in S : Recurs(f, x, {0}, zero, step, next)
  <2> HIDE DEF S, m, next, zero, step
  <2>1. QED
    BY <1>2, RecursionIsDefined
<1>4. ASSUME NEW k \in S PROVE f[k] = IF k = 0 THEN 0 ELSE f[k - 1] * base + s[k]
  <2>1. f[k] = IF k \in {0} THEN zero[k] ELSE step[k][f[next[k]]]
    BY <1>3 DEF Recurs
  <2>2. CASE k = 0
    BY <2>1, <2>2
  <2>3. CASE k # 0
    <3>1. k - 1 \in S /\ next[k] = k - 1
      BY <1>1, <2>3
    <3>2. f[k - 1] \in Int
      BY <3>1
    <3>3. step[k][f[k - 1]] = f[k - 1] * base + s[k]
      BY <2>3, <3>2
    <3>4. QED
      BY <2>1, <2>3, <3>1, <3>3
  <2>4. QED
    BY <2>2, <2>3
<1>5. f = Body(f)
  BY <1>4
<1>6. Value = CHOOSE h : h = Body(h)
  OBVIOUS
<1>7. Value = Body(Value)
  <2> HIDE DEF Value, Body
  <2>1. QED
    BY <1>5, <1>6
<1>8. \A k \in S : Value[k] = IF k = 0 THEN 0 ELSE Value[k - 1] * base + s[k]
  <2> HIDE DEF Value
  <2>1. QED
    BY <1>7
<1>9. Packed(s, base) = Value[n]
  BY DEF Packed
<1> HIDE DEF Value
<1>10. \A k \in S : Value[k] = f[k]
  <2> DEFINE Holds == {k \in S : Value[k] = f[k]}
  <2>1. 0 \in Holds
    BY <1>1, <1>4, <1>8
  <2>2. ASSUME NEW k \in 0 .. n - 1, k \in Holds PROVE k + 1 \in Holds
    <3>1. k + 1 \in S /\ k + 1 # 0 /\ (k + 1) - 1 = k
      BY <1>1
    <3>2. Value[k] = f[k]
      BY <2>2
    <3> HIDE DEF S
    <3>3. Value[k + 1] = Value[k] * base + s[k + 1]
      BY <1>8, <3>1
    <3>4. f[k + 1] = f[k] * base + s[k + 1]
      BY <1>4, <3>1
    <3>5. QED
      BY <3>1, <3>2, <3>3, <3>4
  <2> HIDE DEF Holds
  <2>3. Climbs(n, Holds)
    BY <2>1, <2>2 DEF Climbs
  <2>4. \A k \in S : k \in Holds
    BY <1>1, <2>3, Climbing
  <2>5. QED
    BY <2>4 DEF Holds
<1>11. Packed(s, base) = f[n] /\ f[0] = 0
  BY <1>1, <1>4, <1>9, <1>10
<1>12. ASSUME NEW k \in 1 .. n PROVE f[k] = f[k - 1] * base + s[k]
  <2>1. k \in S /\ k # 0
    BY <1>1
  <2>2. QED
    BY <1>4, <2>1
<1>13. QED
  BY <1>11, <1>12 DEF PackedBy

(* No digits make zero, and every further digit counts once.                *)
LEMMA OneDigitMore ==
  ASSUME NEW base \in Nat
  PROVE  /\ Packed(<<>>, base) = 0
         /\ \A s \in Seq(Int) : Packed(s, base) \in Int
         /\ \A s \in Seq(Int), c \in Int : Packed(s \o <<c>>, base) = Packed(s, base) * base + c
<1>1. Packed(<<>>, base) = 0
  <2>1. <<>> \in Seq(Int) /\ Len(<<>>) = 0
    BY EmptySeq
  <2>2. PICK f : PackedBy(f, <<>>, base)
    BY <2>1, PackedIs
  <2>3. QED
    BY <2>1, <2>2 DEF PackedBy
<1>2. ASSUME NEW s \in Seq(Int) PROVE Packed(s, base) \in Int
  <2>1. PICK f : PackedBy(f, s, base)
    BY PackedIs
  <2>2. Len(s) \in 0 .. Len(s)
    BY LenProperties
  <2>3. QED
    BY <2>1, <2>2 DEF PackedBy
<1>3. ASSUME NEW s \in Seq(Int), NEW c \in Int
      PROVE  Packed(s \o <<c>>, base) = Packed(s, base) * base + c
  <2> DEFINE n == Len(s)
             t == s \o <<c>>
  <2>1. n \in Nat /\ t \in Seq(Int) /\ Len(t) = n + 1 /\ t[n + 1] = c
        /\ \A k \in 1 .. n : t[k] = s[k]
    <3>1. t = Append(s, c)
      BY AppendIsConcat
    <3>2. QED
      BY <3>1, AppendProperties, LenProperties
  <2> HIDE DEF t
  <2>2. PICK f : PackedBy(f, s, base)
    BY PackedIs
  <2>3. PICK g : PackedBy(g, t, base)
    BY <2>1, PackedIs
  <2>4. /\ f \in [0 .. n -> Int] /\ f[0] = 0 /\ Packed(s, base) = f[n]
        /\ \A k \in 1 .. n : f[k] = f[k - 1] * base + s[k]
    BY <2>2 DEF PackedBy
  <2>5. /\ g \in [0 .. n + 1 -> Int] /\ g[0] = 0 /\ Packed(t, base) = g[n + 1]
        /\ \A k \in 1 .. n + 1 : g[k] = g[k - 1] * base + t[k]
    <3> HIDE DEF n
    <3>1. QED
      BY <2>1, <2>3 DEF PackedBy
  <2> HIDE DEF n
  <2> DEFINE Holds == {k \in Nat : k <= n => f[k] = g[k]}
  <2>6. 0 \in Holds
    BY <2>4, <2>5
  <2>7. ASSUME NEW k \in 0 .. n - 1, k \in Holds PROVE k + 1 \in Holds
    <3>1. k + 1 \in 1 .. n /\ k + 1 \in 1 .. n + 1 /\ (k + 1) - 1 = k /\ k + 1 \in Nat /\ f[k] = g[k]
      BY <2>1, <2>7
    <3>2. f[k + 1] = f[k] * base + s[k + 1]
      BY <2>4, <3>1
    <3>3. g[k + 1] = g[k] * base + t[k + 1] /\ t[k + 1] = s[k + 1]
      BY <2>1, <2>5, <3>1
    <3>4. QED
      BY <3>1, <3>2, <3>3
  <2> HIDE DEF Holds
  <2>8. Climbs(n, Holds)
    BY <2>6, <2>7 DEF Climbs
  <2>9. n \in Holds
    BY <2>1, <2>8, Climbing
  <2>10. f[n] = g[n]
    BY <2>1, <2>9 DEF Holds
  <2>11. n + 1 \in 1 .. n + 1 /\ (n + 1) - 1 = n
    BY <2>1
  <2>12. g[n + 1] = g[n] * base + c
    BY <2>1, <2>5, <2>11
  <2>13. QED
    BY <2>4, <2>5, <2>10, <2>12 DEF t
<1>4. QED
  BY <1>1, <1>2, <1>3

(* A digit has a value.                                                     *)
LEMMA DigitHasValue ==
  ASSUME NEW c \in 0 .. 255
  PROVE  DigitValue(c) \in Int
BY DEF DigitValue

(* So it is with a text of digits.                                          *)
LEMMA ReadDigitsIs ==
  ASSUME NEW base \in Nat
  PROVE  /\ ReadDigits(<<>>, base) = 0
         /\ \A s \in String : ReadDigits(s, base) \in Int
         /\ \A s \in String, c \in 0 .. 255 :
              ReadDigits(s \o <<c>>, base) = ReadDigits(s, base) * base + DigitValue(c)
<1> DEFINE Values(s) == [i \in DOMAIN s |-> DigitValue(s[i])]
<1>1. ASSUME NEW s \in String PROVE Values(s) \in Seq(Int) /\ Len(Values(s)) = Len(s)
  <2>1. PICK n \in Nat : n = Len(s)
    BY StringFacts
  <2>2. \A i \in 1 .. n : DigitValue(s[i]) \in Int
    BY <2>1, StringFacts, DigitHasValue
  <2>3. Values(s) = [i \in 1 .. n |-> DigitValue(s[i])]
    BY <2>1, StringFacts
  <2> HIDE DEF Values
  <2>4. Values(s) \in [1 .. n -> Int]
    BY <2>2, <2>3
  <2>5. QED
    BY <2>1, <2>4, IsSequence
<1>2. \A s \in String : ReadDigits(s, base) = Packed(Values(s), base)
  BY DEF ReadDigits
<1>3. Values(<<>>) = <<>>
  <2>1. <<>> \in String
    BY ShortStrings
  <2>2. Values(<<>>) \in Seq(Int) /\ Len(Values(<<>>)) = 0
    BY <1>1, <2>1, ShortStrings
  <2> HIDE DEF Values
  <2>3. QED
    BY <2>2, EmptySeq
<1>4. ASSUME NEW s \in String, NEW c \in 0 .. 255
      PROVE  Values(s \o <<c>>) = Values(s) \o <<DigitValue(c)>>
  <2> DEFINE t == s \o <<c>>
             u == Values(s) \o <<DigitValue(c)>>
  <2>1. PICK n \in Nat : n = Len(s)
    BY StringFacts
  <2>2. t \in String /\ Len(t) = n + 1 /\ t[n + 1] = c /\ \A i \in 1 .. n : t[i] = s[i]
    <3>1. t = Append(s, c)
      BY AppendIsConcat DEF String
    <3>2. QED
      BY <2>1, <3>1, AppendProperties DEF String
  <2>3. DigitValue(c) \in Int
    BY DigitHasValue
  <2>4. u \in Seq(Int) /\ Len(u) = n + 1 /\ u[n + 1] = DigitValue(c)
        /\ \A i \in 1 .. n : u[i] = Values(s)[i]
    <3> HIDE DEF Values
    <3>1. u = Append(Values(s), DigitValue(c))
      BY <1>1, <2>3, AppendIsConcat
    <3> HIDE DEF u
    <3>2. Values(s) \in Seq(Int) /\ Len(Values(s)) = n
      BY <1>1, <2>1
    <3>3. QED
      BY <2>3, <3>1, <3>2, AppendProperties
  <2> HIDE DEF u, t
  <2>5. Values(t) \in Seq(Int) /\ Len(Values(t)) = n + 1
    BY <1>1, <2>2
  <2>6. ASSUME NEW i \in 1 .. n + 1 PROVE Values(t)[i] = u[i]
    <3>1. DOMAIN t = 1 .. n + 1 /\ DOMAIN s = 1 .. n
      BY <2>1, <2>2, StringFacts
    <3>2. Values(t)[i] = DigitValue(t[i])
      BY <3>1
    <3>3. CASE i = n + 1
      BY <2>2, <2>4, <3>2, <3>3
    <3>4. CASE i # n + 1
      <4>1. i \in 1 .. n
        BY <3>4
      <4>2. Values(s)[i] = DigitValue(s[i])
        BY <3>1, <4>1
      <4>3. QED
        BY <2>2, <2>4, <3>2, <4>1, <4>2
    <3>5. QED
      BY <3>3, <3>4
  <2> HIDE DEF Values
  <2>7. Values(t) = u
    BY <2>4, <2>5, <2>6, SeqEqual
  <2>8. QED
    BY <2>7 DEF t, u
<1>5. ASSUME NEW s \in String, NEW c \in 0 .. 255
      PROVE  ReadDigits(s \o <<c>>, base) = ReadDigits(s, base) * base + DigitValue(c)
  <2>1. s \o <<c>> \in String
    BY ShortStrings, JoinedIs
  <2>2. Values(s) \in Seq(Int) /\ DigitValue(c) \in Int
    BY <1>1, DigitHasValue, Zenon
  <2>3. Values(s \o <<c>>) = Values(s) \o <<DigitValue(c)>>
    BY <1>4, Zenon
  <2> HIDE DEF Values
  <2>4. QED
    BY <1>2, <2>1, <2>2, <2>3, OneDigitMore
<1>6. <<>> \in String
  BY ShortStrings
<1> HIDE DEF Values
<1>7. QED
  BY <1>1, <1>2, <1>3, <1>5, <1>6, OneDigitMore

(* The characters of digits, and which values they have.                    *)
DigitCodes == 48 .. 57 \cup 97 .. 102

(* A digit's character has the digit's value.                               *)
LEMMA DigitCharIs ==
  ASSUME NEW d \in 0 .. 15
  PROVE  DigitChar(d) \in DigitCodes /\ DigitChar(d) \in 0 .. 255 /\ DigitValue(DigitChar(d)) = d
<1>1. CASE d < 10
  <2>1. DigitChar(d) = 48 + d
    BY <1>1 DEF DigitChar
  <2>2. QED
    BY <1>1, <2>1 DEF DigitCodes, DigitValue
<1>2. CASE ~(d < 10)
  <2>1. DigitChar(d) = 87 + d
    BY <1>2 DEF DigitChar
  <2>2. QED
    BY <1>2, <2>1 DEF DigitCodes, DigitValue
<1>3. QED
  BY <1>1, <1>2

(* A text turned round, with one character more in front.                   *)
LEMMA ReverseGrows ==
  ASSUME NEW s \in String, NEW c \in 0 .. 255
  PROVE  /\ Reverse(<<c>> \o s) = Reverse(s) \o <<c>>
         /\ Reverse(s) \in String /\ Reverse(<<c>>) = <<c>>
<1> DEFINE n == Len(s)
           t == <<c>> \o s
           r == Reverse(s)
           u == r \o <<c>>
<1>1. n \in Nat /\ (\A i \in 1 .. n : s[i] \in 0 .. 255)
      /\ <<c>> \in String /\ Len(<<c>>) = 1 /\ <<c>>[1] = c
  BY StringFacts, ShortStrings
<1>2. r \in String /\ Len(r) = n /\ \A i \in 1 .. n : r[i] = s[(n - i) + 1]
  <2>1. r = [i \in 1 .. n |-> s[(n - i) + 1]]
    BY DEF Reverse
  <2>2. \A i \in 1 .. n : (n - i) + 1 \in 1 .. n
    BY <1>1
  <2>3. r \in [1 .. n -> 0 .. 255]
    BY <1>1, <2>1, <2>2
  <2> HIDE DEF n, r
  <2>4. QED
    BY <1>1, <2>1, <2>3, IsSequence DEF String
<1>3. /\ t \in String /\ Len(t) = n + 1 /\ t[1] = c
      /\ \A i \in 1 .. n : t[1 + i] = s[i]
  <2>1. 1 \in 1 .. Len(<<c>>)
    BY <1>1
  <2> HIDE DEF n
  <2>2. t \in String /\ Len(t) = Len(<<c>>) + Len(s) /\ t[1] = <<c>>[1]
        /\ \A i \in 1 .. Len(s) : t[Len(<<c>>) + i] = s[i]
    BY <1>1, <2>1, JoinedIs
  <2> HIDE DEF t
  <2>3. QED
    BY <1>1, <2>2 DEF n
<1>4. /\ u \in String /\ Len(u) = n + 1 /\ u[n + 1] = c
      /\ \A i \in 1 .. n : u[i] = r[i]
  <2>1. 1 \in 1 .. Len(<<c>>)
    BY <1>1
  <2> HIDE DEF n, r
  <2>2. u \in String /\ Len(u) = Len(r) + Len(<<c>>) /\ u[Len(r) + 1] = <<c>>[1]
        /\ \A i \in 1 .. Len(r) : u[i] = r[i]
    BY <1>1, <1>2, <2>1, JoinedIs
  <2> HIDE DEF u
  <2>3. QED
    BY <1>1, <1>2, <2>2
<1>5. Reverse(t) = [i \in 1 .. n + 1 |-> t[((n + 1) - i) + 1]]
  <2> HIDE DEF t, n
  <2>1. QED
    BY <1>3 DEF Reverse
<1>6. ASSUME NEW i \in 1 .. n + 1 PROVE t[((n + 1) - i) + 1] = u[i]
  <2> HIDE DEF t, u, n, r
  <2>1. CASE i = n + 1
    <3>1. ((n + 1) - i) + 1 = 1
      BY <1>1, <2>1
    <3>2. QED
      BY <1>3, <1>4, <2>1, <3>1
  <2>2. CASE i # n + 1
    <3>1. PICK j \in 1 .. n : j = (n - i) + 1 /\ ((n + 1) - i) + 1 = 1 + j /\ i \in 1 .. n
      BY <1>1, <2>2
    <3>2. QED
      BY <1>2, <1>3, <1>4, <3>1
  <2>3. QED
    BY <2>1, <2>2
<1>7. u = [i \in 1 .. n + 1 |-> u[i]]
  <2>1. DOMAIN u = 1 .. n + 1 /\ u = [i \in DOMAIN u |-> u[i]]
    <3> HIDE DEF u, n
    <3>1. DOMAIN u = 1 .. n + 1
      BY <1>4, StringFacts
    <3>2. u \in Seq(0 .. 255)
      BY <1>4 DEF String
    <3>3. QED
      BY <3>1, <3>2
  <2> HIDE DEF u
  <2>2. QED
    BY <2>1
<1>8. Reverse(t) = u
  <2> HIDE DEF t, u, n
  <2>1. QED
    BY <1>5, <1>6, <1>7
<1>9. Reverse(<<c>>) = <<c>>
  <2>1. Reverse(<<c>>) = [i \in 1 .. 1 |-> <<c>>[(1 - i) + 1]]
    BY <1>1 DEF Reverse
  <2>2. <<c>> = [i \in 1 .. 1 |-> c]
    OBVIOUS
  <2>3. \A i \in 1 .. 1 : <<c>>[(1 - i) + 1] = c
    BY <1>1
  <2>4. QED
    BY <2>1, <2>2, <2>3
<1>10. QED
  BY <1>2, <1>8, <1>9

(* What is left of a number when its last digit is taken off.               *)
LEMMA LastDigit ==
  ASSUME NEW base \in 2 .. 16, NEW n \in Nat
  PROVE  /\ n % base \in 0 .. base - 1 /\ n \div base \in Nat
         /\ n = (n \div base) * base + (n % base)
         /\ n \div base <= n /\ (n \div base # 0 => n \div base < n)
<1>1. PICK b \in Nat \ {0} : b = base /\ b >= 2
  OBVIOUS
<1> DEFINE q == n \div b
           r == n % b
<1>2. r \in 0 .. b - 1 /\ q \in Nat /\ n = b * q + r
  OBVIOUS
<1> HIDE DEF q, r
<1>3. b * q = q * b /\ q * b >= 2 * q
  <2>1. PICK d \in Nat : b = 2 + d
    <3>1. b - 2 \in Nat /\ b = 2 + (b - 2)
      BY <1>1
    <3>2. QED
      BY <3>1
  <2>2. q * b = 2 * q + q * d /\ q * d \in Nat
    BY <1>2, <2>1
  <2>3. b * q = q * b
    BY <1>2
  <2> DEFINE a1 == q * b
             a2 == q * d
  <2>4. a1 = 2 * q + a2 /\ a2 \in Nat
    BY <2>2
  <2> HIDE DEF a1, a2
  <2>5. a1 >= 2 * q
    BY <1>2, <2>4
  <2>6. QED
    BY <2>3, <2>5 DEF a1
<1> DEFINE a == q * b
<1>4. n = a + r /\ a >= 2 * q /\ a \in Int
  BY <1>2, <1>3
<1> HIDE DEF a
<1>5. q <= n /\ (q # 0 => q < n)
  BY <1>2, <1>4
<1>6. QED
  BY <1>1, <1>2, <1>4, <1>5 DEF q, r, a

(* What the loop of itoa_r() has made of n when it ends.                    *)
DigitsOut(d, n, left, base) ==
  /\ d \in String /\ Len(d) >= 1 /\ Len(d) >= left
  /\ \A i \in 1 .. Len(d) : d[i] \in DigitCodes
  /\ ReadDigits(Reverse(d), base) = n

(* The last round writes one digit.                                         *)
LEMMA LastIsWritten ==
  ASSUME NEW base \in 2 .. 16, NEW n \in 0 .. base - 1, NEW left \in 0 .. 1
  PROVE  DigitsOut(<<DigitChar(n)>>, n, left, base)
<1> DEFINE c == DigitChar(n)
<1>1. c \in DigitCodes /\ c \in 0 .. 255 /\ DigitValue(c) = n
  BY DigitCharIs
<1> HIDE DEF c
<1>2. <<c>> \in String /\ Len(<<c>>) = 1 /\ <<c>>[1] = c /\ Reverse(<<c>>) = <<c>>
      /\ <<>> \in String /\ <<>> \o <<c>> = <<c>>
  BY <1>1, ShortStrings, ReverseGrows, Zenon
<1>3. base \in Nat
  OBVIOUS
<1>4. ReadDigits(<<c>>, base) = n
  <2>1. ReadDigits(<<>> \o <<c>>, base) = ReadDigits(<<>>, base) * base + DigitValue(c)
    BY <1>1, <1>2, <1>3, ReadDigitsIs
  <2>2. ReadDigits(<<>>, base) = 0
    BY <1>2, <1>3, ReadDigitsIs
  <2>3. QED
    BY <1>1, <1>2, <1>3, <2>1, <2>2
<1>5. \A i \in 1 .. Len(<<c>>) : <<c>>[i] \in DigitCodes
  <2>1. \A i \in 1 .. Len(<<c>>) : i = 1
    BY <1>2
  <2>2. QED
    BY <1>1, <1>2, <2>1
<1>6. DigitsOut(<<c>>, n, left, base)
  BY <1>2, <1>4, <1>5 DEF DigitsOut
<1>7. QED
  BY <1>6 DEF c

(* Every other round writes one digit in front.                             *)
LEMMA MoreIsWritten ==
  ASSUME NEW base \in 2 .. 16, NEW n \in Nat, NEW left \in Nat, NEW d,
         DigitsOut(d, n \div base, IF left = 0 THEN 0 ELSE left - 1, base)
  PROVE  DigitsOut(<<DigitChar(n % base)>> \o d, n, left, base)
<1> DEFINE c == DigitChar(n % base)
           t == <<c>> \o d
<1>1. /\ n % base \in 0 .. base - 1 /\ n \div base \in Nat
      /\ n = (n \div base) * base + (n % base)
  BY LastDigit
<1>2. c \in DigitCodes /\ c \in 0 .. 255 /\ DigitValue(c) = n % base
  <2>1. PICK v \in 0 .. 15 : v = n % base
    BY <1>1
  <2>2. QED
    BY <2>1, DigitCharIs
<1> HIDE DEF c
<1>3. d \in String /\ Len(d) >= 1 /\ Len(d) >= (IF left = 0 THEN 0 ELSE left - 1)
      /\ (\A i \in 1 .. Len(d) : d[i] \in DigitCodes)
      /\ ReadDigits(Reverse(d), base) = n \div base
  BY DEF DigitsOut
<1>4. <<c>> \in String /\ Len(<<c>>) = 1 /\ <<c>>[1] = c
  BY <1>2, ShortStrings
<1>5. Len(d) \in Nat
  BY <1>3, StringFacts
<1>6. t \in String /\ Len(t) = 1 + Len(d) /\ t[1] = c /\ \A i \in 1 .. Len(d) : t[1 + i] = d[i]
  <2>1. 1 \in 1 .. Len(<<c>>)
    BY <1>4
  <2>2. t \in String /\ Len(t) = Len(<<c>>) + Len(d) /\ t[1] = <<c>>[1]
        /\ \A i \in 1 .. Len(d) : t[Len(<<c>>) + i] = d[i]
    BY <1>3, <1>4, <2>1, JoinedIs
  <2> HIDE DEF t
  <2>3. QED
    BY <1>4, <2>2
<1>7. ReadDigits(Reverse(t), base) = n
  <2>1. Reverse(t) = Reverse(d) \o <<c>> /\ Reverse(d) \in String
    BY <1>2, <1>3, ReverseGrows, Zenon
  <2>2. base \in Nat
    OBVIOUS
  <2>3. ReadDigits(Reverse(d) \o <<c>>, base) = ReadDigits(Reverse(d), base) * base + DigitValue(c)
    BY <1>2, <2>1, <2>2, ReadDigitsIs
  <2>4. QED
    BY <1>1, <1>2, <1>3, <2>1, <2>3, Zenon
<1> HIDE DEF t
<1>8. \A i \in 1 .. Len(t) : t[i] \in DigitCodes
  <2>1. ASSUME NEW i \in 1 .. Len(t) PROVE t[i] \in DigitCodes
    <3>1. CASE i = 1
      BY <1>2, <1>6, <3>1
    <3>2. CASE i # 1
      <4>1. PICK k \in 1 .. Len(d) : i = 1 + k
        <5>1. i - 1 \in 1 .. Len(d) /\ i = 1 + (i - 1)
          BY <1>5, <1>6, <3>2
        <5>2. QED
          BY <5>1
      <4>2. QED
        BY <1>3, <1>6, <4>1
    <3>3. QED
      BY <3>1, <3>2
  <2>2. QED
    BY <2>1
<1>9. Len(t) >= 1 /\ Len(t) >= left
  BY <1>3, <1>5, <1>6
<1>10. DigitsOut(t, n, left, base)
  BY <1>6, <1>7, <1>8, <1>9 DEF DigitsOut
<1>11. QED
  BY <1>10 DEF t, c

(* Every round comes nearer to the last one.                                *)
LEMMA RoundsEnd ==
  ASSUME NEW base \in 2 .. 16, NEW n \in Nat, NEW left \in Nat
  PROVE  LET q == n \div base
             l == IF left = 0 THEN 0 ELSE left - 1
         IN  /\ q \in 0 .. n /\ l \in 0 .. left
             /\ ~(q = 0 /\ left <= 1) => q + l < n + left
             /\ q = 0 => n \in 0 .. base - 1 /\ n % base = n
             /\ <<DigitChar(n % base)>> \in String
<1> DEFINE q == n \div base
           r == n % base
           l == IF left = 0 THEN 0 ELSE left - 1
<1>1. /\ r \in 0 .. base - 1 /\ q \in Nat /\ n = q * base + r
      /\ q <= n /\ (q # 0 => q < n)
  BY LastDigit
<1>2. l \in 0 .. left /\ (left > 1 => l < left)
  OBVIOUS
<1> HIDE DEF q, r, l
<1>3. ~(q = 0 /\ left <= 1) => q + l < n + left
  BY <1>1, <1>2
<1>4. q = 0 => n \in 0 .. base - 1 /\ r = n
  <2>1. ASSUME q = 0 PROVE q * base = 0
    BY <2>1
  <2>2. QED
    BY <1>1, <2>1
<1>5. r \in 0 .. 15
  BY <1>1
<1>6. <<DigitChar(r)>> \in String
  BY <1>5, DigitCharIs, ShortStrings
<1>7. q \in 0 .. n
  BY <1>1
<1>8. QED
  BY <1>2, <1>3, <1>4, <1>6, <1>7 DEF q, r, l

(* So all of them do.                                                       *)
LEMMA DigitsAreWritten ==
  ASSUME NEW base \in 2 .. 16, NEW pad \in Nat, NEW j \in Word
  PROVE  DigitsOut(Digits(j, base, pad), j, pad, base)
<1> DEFINE S == [n : Word, left : 0 .. pad]
           Stop == {at \in S : at.n \div base = 0 /\ at.left <= 1}
           m == [at \in S |-> at.n + at.left]
           next == [at \in S |-> IF at \in Stop THEN at
                                 ELSE [n |-> at.n \div base,
                                       left |-> IF at.left = 0 THEN 0 ELSE at.left - 1]]
           last == [at \in S |-> <<DigitChar(at.n % base)>>]
           step == [at \in S |-> [v \in String |-> <<DigitChar(at.n % base)>> \o v]]
           Body(f) == [at \in S |->
             <<DigitChar(at.n % base)>>
               \o (IF at.n \div base = 0 /\ at.left <= 1 THEN <<>>
                   ELSE f[[n |-> at.n \div base, left |-> IF at.left = 0 THEN 0 ELSE at.left - 1]])]
           Loop[at \in [n : Word, left : 0 .. pad]] ==
             <<DigitChar(at.n % base)>>
               \o (IF at.n \div base = 0 /\ at.left <= 1 THEN <<>>
                   ELSE Loop[[n |-> at.n \div base, left |-> IF at.left = 0 THEN 0 ELSE at.left - 1]])
<1>1. PICK w \in Nat : w = Wide
  BY WideIs
<1>2. ASSUME NEW at \in S
      PROVE  /\ at.n \in Nat /\ at.left \in 0 .. pad
             /\ <<DigitChar(at.n % base)>> \in String
             /\ at \notin Stop =>
                  /\ next[at] = [n |-> at.n \div base, left |-> IF at.left = 0 THEN 0 ELSE at.left - 1]
                  /\ next[at] \in S /\ next[at].n + next[at].left < at.n + at.left
             /\ at \in Stop => next[at] = at /\ at.n \in 0 .. base - 1 /\ at.n % base = at.n /\ at.left \in 0 .. 1
  <2>1. at.n \in 0 .. w - 1 /\ at.left \in 0 .. pad /\ at.n \in Nat
    BY <1>1 DEF Word
  <2> DEFINE q == at.n \div base
             l == IF at.left = 0 THEN 0 ELSE at.left - 1
  <2>2. /\ q \in 0 .. at.n /\ l \in 0 .. at.left
        /\ ~(q = 0 /\ at.left <= 1) => q + l < at.n + at.left
        /\ q = 0 => at.n \in 0 .. base - 1 /\ at.n % base = at.n
        /\ <<DigitChar(at.n % base)>> \in String
    <3>1. PICK n \in Nat, left \in Nat : n = at.n /\ left = at.left
      BY <2>1
    <3>2. QED
      BY <3>1, RoundsEnd
  <2>3. q \in 0 .. w - 1 /\ l \in 0 .. pad
    <3> HIDE DEF q, l
    <3>1. QED
      BY <2>1, <2>2
  <2>4. at \notin Stop => next[at] = [n |-> q, left |-> l] /\ ~(q = 0 /\ at.left <= 1)
    OBVIOUS
  <2>5. at \in Stop => next[at] = at /\ q = 0 /\ at.left <= 1
    OBVIOUS
  <2>6. [n |-> q, left |-> l] \in S
    <3> HIDE DEF q, l
    <3>1. QED
      BY <1>1, <2>3 DEF Word
  <2> HIDE DEF S, Stop, next, q, l
  <2>7. at \notin Stop => next[at] \in S /\ next[at].n = q /\ next[at].left = l
    BY <2>4, <2>6
  <2>8. at.left <= 1 => at.left \in 0 .. 1
    BY <2>1
  <2>9. QED
    BY <2>1, <2>2, <2>4, <2>5, <2>7, <2>8 DEF q, l
<1>3. Recursion(S, String, Stop, m, last, step, next)
  <2>1. m \in [S -> Nat]
    <3> HIDE DEF S, Stop, next
    <3>1. ASSUME NEW at \in S PROVE at.n + at.left \in Nat
      <4>1. at.n \in Nat /\ at.left \in 0 .. pad
        BY <1>2
      <4>2. QED
        BY <4>1
    <3>2. QED
      BY <3>1
  <2>2. next \in [S -> S]
    <3> HIDE DEF S, Stop
    <3>1. ASSUME NEW at \in S PROVE next[at] \in S
      <4> HIDE DEF next
      <4>1. QED
        BY <1>2
    <3>2. QED
      BY <3>1
  <2>3. last \in [S -> String]
    <3> HIDE DEF S
    <3>1. QED
      BY <1>2
  <2>4. step \in [S -> [String -> String]]
    <3> HIDE DEF S
    <3>1. ASSUME NEW at \in S, NEW v \in String PROVE <<DigitChar(at.n % base)>> \o v \in String
      BY <1>2, JoinedIs
    <3>2. QED
      BY <3>1
  <2>5. ASSUME NEW at \in S \ Stop PROVE m[next[at]] < m[at]
    <3>1. next[at] \in S /\ next[at].n + next[at].left < at.n + at.left
      BY <1>2
    <3>2. m[next[at]] = next[at].n + next[at].left /\ m[at] = at.n + at.left
      <4> HIDE DEF S, next
      <4>1. QED
        BY <3>1
    <3>3. QED
      BY <3>1, <3>2
  <2> HIDE DEF S, Stop, m, next, last, step
  <2>6. QED
    BY <2>1, <2>2, <2>3, <2>4, <2>5 DEF Recursion
<1>4. PICK f \in [S -> String] : \A x \in S : Recurs(f, x, Stop, last, step, next)
  <2> HIDE DEF S, Stop, m, next, last, step
  <2>1. QED
    BY <1>3, RecursionIsDefined
<1>5. ASSUME NEW at \in S
      PROVE  f[at] = <<DigitChar(at.n % base)>>
               \o (IF at.n \div base = 0 /\ at.left <= 1 THEN <<>>
                   ELSE f[[n |-> at.n \div base, left |-> IF at.left = 0 THEN 0 ELSE at.left - 1]])
  <2>1. f[at] = IF at \in Stop THEN last[at] ELSE step[at][f[next[at]]]
    BY <1>4 DEF Recurs
  <2>2. CASE at \in Stop
    <3>1. f[at] = <<DigitChar(at.n % base)>>
      BY <2>1, <2>2
    <3>2. <<DigitChar(at.n % base)>> \o <<>> = <<DigitChar(at.n % base)>>
      BY <1>2, ShortStrings
    <3>3. at.n \div base = 0 /\ at.left <= 1
      BY <2>2, Zenon
    <3> HIDE DEF S, Stop, next, last, step
    <3>4. QED
      BY <3>1, <3>2, <3>3
  <2>3. CASE at \notin Stop
    <3>1. ~(at.n \div base = 0 /\ at.left <= 1)
      BY <2>3
    <3>2. next[at] = [n |-> at.n \div base, left |-> IF at.left = 0 THEN 0 ELSE at.left - 1]
          /\ next[at] \in S
      BY <1>2, <2>3
    <3> HIDE DEF S, Stop, next
    <3>3. f[next[at]] \in String
      BY <3>2
    <3>4. step[at][f[next[at]]] = <<DigitChar(at.n % base)>> \o f[next[at]]
      BY <3>3
    <3> HIDE DEF last, step
    <3>5. QED
      BY <2>1, <2>3, <3>1, <3>2, <3>4
  <2>4. QED
    BY <2>2, <2>3
<1>6. f = Body(f)
  <2>1. f = [at \in S |-> f[at]]
    <3> HIDE DEF S
    <3>1. QED
      OBVIOUS
  <2> HIDE DEF S
  <2>2. QED
    BY <1>5, <2>1
<1>7. Loop = CHOOSE h : h = Body(h)
  OBVIOUS
<1>8. Loop = Body(Loop)
  <2> HIDE DEF Loop, Body
  <2>1. QED
    BY <1>6, <1>7
<1>9. Digits(j, base, pad) = Loop[[n |-> j, left |-> pad]]
  BY DEF Digits
<1> HIDE DEF Loop
<1>10. ASSUME NEW at \in S
       PROVE  Loop[at] = <<DigitChar(at.n % base)>>
                \o (IF at.n \div base = 0 /\ at.left <= 1 THEN <<>>
                    ELSE Loop[[n |-> at.n \div base, left |-> IF at.left = 0 THEN 0 ELSE at.left - 1]])
  <2> HIDE DEF S
  <2>1. QED
    BY <1>8
<1> DEFINE Wrong == {at \in S : ~DigitsOut(Loop[at], at.n, at.left, base)}
<1>11. ASSUME NEW at \in Wrong PROVE next[at] \in Wrong /\ m[next[at]] < m[at]
  <2>1. at \in S /\ ~DigitsOut(Loop[at], at.n, at.left, base)
    OBVIOUS
  <2>2. at \notin Stop
    <3>1. SUFFICES ASSUME at \in Stop PROVE FALSE
      OBVIOUS
    <3>2. at.n \in 0 .. base - 1 /\ at.n % base = at.n /\ at.left \in 0 .. 1
      BY <1>2, <2>1, <3>1
    <3>3. Loop[at] = <<DigitChar(at.n % base)>> \o <<>>
      <4>1. at.n \div base = 0 /\ at.left <= 1
        BY <3>1
      <4> HIDE DEF S, Stop, next
      <4>2. QED
        BY <1>10, <2>1, <4>1
    <3> HIDE DEF S, Stop, next
    <3>4. Loop[at] = <<DigitChar(at.n)>>
      BY <1>2, <2>1, <3>2, <3>3, ShortStrings
    <3>5. DigitsOut(<<DigitChar(at.n)>>, at.n, at.left, base)
      BY <3>2, LastIsWritten
    <3>6. QED
      BY <2>1, <3>4, <3>5
  <2>3. ~(at.n \div base = 0 /\ at.left <= 1)
    BY <2>1, <2>2
  <2>4. next[at] \in S /\ next[at].n + next[at].left < at.n + at.left
        /\ next[at] = [n |-> at.n \div base, left |-> IF at.left = 0 THEN 0 ELSE at.left - 1]
        /\ at.n \in Nat /\ at.left \in Nat
    <3>1. at.left \in 0 .. pad /\ at.n \in Nat
      BY <1>2, <2>1
    <3>2. next[at] \in S /\ next[at].n + next[at].left < at.n + at.left
          /\ next[at] = [n |-> at.n \div base, left |-> IF at.left = 0 THEN 0 ELSE at.left - 1]
      BY <1>2, <2>1, <2>2
    <3> HIDE DEF S, next
    <3>3. QED
      BY <3>1, <3>2
  <2>5. m[next[at]] < m[at]
    <3>1. m[next[at]] = next[at].n + next[at].left /\ m[at] = at.n + at.left
      <4> HIDE DEF S, next
      <4>1. QED
        BY <2>1, <2>4
    <3> HIDE DEF S, next, m
    <3>2. QED
      BY <2>4, <3>1
  <2>6. next[at] \in Wrong
    <3>1. SUFFICES ASSUME DigitsOut(Loop[next[at]], next[at].n, next[at].left, base) PROVE FALSE
      BY <2>4
    <3> DEFINE y == next[at]
    <3>2. y.n = at.n \div base /\ y.left = IF at.left = 0 THEN 0 ELSE at.left - 1
      BY <2>4
    <3>3. Loop[at] = <<DigitChar(at.n % base)>> \o Loop[y]
      <4> HIDE DEF S, next, Wrong
      <4>1. QED
        BY <1>10, <2>1, <2>3, <2>4
    <3> HIDE DEF y, S, next, Wrong
    <3>4. DigitsOut(Loop[y], at.n \div base, IF at.left = 0 THEN 0 ELSE at.left - 1, base)
      BY <3>1, <3>2 DEF y
    <3>5. DigitsOut(<<DigitChar(at.n % base)>> \o Loop[y], at.n, at.left, base)
      BY <2>4, <3>4, MoreIsWritten
    <3>6. QED
      BY <2>1, <3>3, <3>5
  <2>7. QED
    BY <2>5, <2>6
<1>12. GoesOn(S, m, next, Wrong)
  <2>1. m \in [S -> Nat]
    BY <1>3 DEF Recursion
  <2>2. Wrong \subseteq S
    OBVIOUS
  <2> HIDE DEF S, m, next, Wrong
  <2>3. QED
    BY <1>11, <2>1, <2>2 DEF GoesOn
<1>13. Wrong = {}
  <2> HIDE DEF S, m, next, Wrong
  <2>1. QED
    BY <1>12, NoLeastWrong
<1> DEFINE start == [n |-> j, left |-> pad]
<1>14. start \in S /\ start.n = j /\ start.left = pad
  OBVIOUS
<1> HIDE DEF start, S
<1>15. DigitsOut(Loop[start], j, pad, base)
  BY <1>13, <1>14
<1>16. QED
  BY <1>9, <1>15 DEF start

(* stack_trace.cc:37-95, for every number, base and width.                  *)
THEOREM ItoaAlwaysReadsBack ==
  ASSUME NEW x \in Int, NEW sz \in Nat, NEW base \in 2 .. 16, NEW pad \in Nat
  PROVE  ItoaReadsBack(Signed(x), sz, base, pad)
<1> DEFINE i == Signed(x)
           negative == i < 0 /\ base = 10
           j == Wrap(IF negative THEN -i ELSE i)
           digits == Digits(j, base, pad)
           sign == IF negative THEN <<45>> ELSE <<>>
           out == itoa_r(i, sz, base, pad)
<1>1. PICK h \in Nat : Wide = 2 * h /\ h >= 8
  BY WideIs
<1>2. i \in (-h) .. h - 1
  <2>1. Wrap(x) \in 0 .. Wide - 1
    <3>1. PICK w \in Nat \ {0} : w = Wide
      BY <1>1
    <3>2. x % w \in 0 .. w - 1
      OBVIOUS
    <3>3. QED
      BY <3>1, <3>2 DEF Wrap
  <2> DEFINE y == Wrap(x)
  <2>2. i = Signed(y)
    <3>1. y \in (-Wide) .. 2 * Wide - 1 /\ y < Wide /\ ~(y < 0)
      <4> HIDE DEF y
      <4>0. y \in 0 .. Wide - 1
        BY <2>1 DEF y
      <4>1. QED
        BY <1>1, <4>0
    <3>2. Wrap(y) = y
      <4> HIDE DEF y
      <4>1. QED
        BY <3>1, WrapIs
    <3>3. QED
      BY <3>2 DEF Signed
  <2> HIDE DEF y, i
  <2>3. y \in 0 .. Wide - 1
    BY <2>1 DEF y
  <2>4. PICK g \in Nat : Wide = 2 * g /\ Signed(y) = IF y < g THEN y ELSE y - Wide
    BY <2>3, SignedIs
  <2>5. g = h
    BY <1>1, <2>4
  <2>6. QED
    BY <1>1, <2>2, <2>3, <2>4, <2>5
<1> HIDE DEF i
<1>3. \A v \in (-h) .. h : Wrap(v) = (IF v < 0 THEN v + Wide ELSE v) /\ Wrap(v) \in Word
  <2>1. SUFFICES ASSUME NEW v \in (-h) .. h
                 PROVE  Wrap(v) = (IF v < 0 THEN v + Wide ELSE v) /\ Wrap(v) \in Word
    OBVIOUS
  <2>2. v \in (-Wide) .. 2 * Wide - 1 /\ v < Wide
    BY <1>1
  <2>3. Wrap(v) = IF v < 0 THEN v + Wide ELSE v
    BY <2>2, WrapIs
  <2>4. QED
    BY <1>1, <2>3 DEF Word
<1>4. (negative => j = -i) /\ (~negative => j = Wrap(i)) /\ j \in Word
  <2>1. CASE negative
    <3>1. -i \in (-h) .. h /\ ~(-i < 0)
      BY <1>2, <2>1
    <3>2. j = Wrap(-i)
      BY <2>1
    <3> HIDE DEF j
    <3>3. QED
      BY <1>3, <2>1, <3>1, <3>2
  <2>2. CASE ~negative
    <3>1. i \in (-h) .. h
      BY <1>2
    <3>2. j = Wrap(i)
      BY <2>2
    <3> HIDE DEF j
    <3>3. QED
      BY <1>3, <2>2, <3>1, <3>2
  <2>3. QED
    BY <2>1, <2>2
<1> HIDE DEF j
<1>5. DigitsOut(digits, j, pad, base)
  BY <1>4, DigitsAreWritten
<1> HIDE DEF digits
<1>6. /\ digits \in String /\ Len(digits) \in Nat /\ Len(digits) >= 1 /\ Len(digits) >= pad
      /\ \A k \in 1 .. Len(digits) : digits[k] \in DigitCodes
      /\ ReadDigits(Reverse(digits), base) = j
  BY <1>5, StringFacts DEF DigitsOut
<1> DEFINE r == Reverse(digits)
<1>7. r \in String /\ Len(r) = Len(digits) /\ r[1] # 45
  <2>1. r = [k \in 1 .. Len(digits) |-> digits[(Len(digits) - k) + 1]]
    BY DEF Reverse
  <2>2. PICK n \in Nat : n = Len(digits) /\ n >= 1
    BY <1>6
  <2>3. r = [k \in 1 .. n |-> digits[(n - k) + 1]]
    BY <2>1, <2>2
  <2>4. \A k \in 1 .. n : (n - k) + 1 \in 1 .. n
    OBVIOUS
  <2>5. \A k \in 1 .. n : digits[k] \in 0 .. 255
    BY <1>6, <2>2, StringFacts
  <2> HIDE DEF r
  <2>6. r \in [1 .. n -> 0 .. 255]
    BY <2>3, <2>4, <2>5
  <2>7. r \in String /\ Len(r) = n
    BY <2>6, IsSequence DEF String
  <2>8. 1 \in 1 .. n /\ (n - 1) + 1 = n /\ n \in 1 .. n
    BY <2>2
  <2>9. r[1] = digits[n]
    BY <2>3, <2>8
  <2>10. digits[n] \in DigitCodes
    BY <1>6, <2>2, <2>8
  <2>11. r[1] # 45
    BY <2>9, <2>10 DEF DigitCodes
  <2>12. QED
    BY <2>2, <2>7, <2>11
<1>8. ReadDigits(r, base) = j
  BY <1>6
<1>9. out = IF base \notin 2 .. 16 \/ 1 + Len(sign) + Len(digits) > sz THEN NULL ELSE sign \o r
  BY DEF itoa_r, digits, j
<1> HIDE DEF r, out
<1>10. SUFFICES ASSUME out # NULL
                PROVE  /\ Len(out) + 1 <= sz /\ Len(out) >= pad
                       /\ ReadBack(out, base) = IF base = 10 THEN i ELSE Wrap(i)
  BY DEF ItoaReadsBack, out, i
<1>11. out = sign \o r /\ 1 + Len(sign) + Len(digits) <= sz
  <2>1. ~(1 + Len(sign) + Len(digits) > sz) /\ out = sign \o r
    BY <1>9, <1>10
  <2>2. Len(sign) \in Nat
    <3>1. 45 \in 0 .. 255
      OBVIOUS
    <3>2. Len(<<45>>) = 1 /\ Len(<<>>) = 0
      BY <3>1, ShortStrings
    <3>3. QED
      BY <3>2
  <2> HIDE DEF sign
  <2>3. QED
    BY <1>6, <2>1, <2>2
<1>12. CASE negative
  <2>1. sign = <<45>> /\ <<45>> \in String /\ Len(<<45>>) = 1 /\ <<45>>[1] = 45
    <3>1. 45 \in 0 .. 255
      OBVIOUS
    <3>2. QED
      BY <1>12, <3>1, ShortStrings
  <2>2. out = <<45>> \o r
    BY <1>11, <2>1
  <2>3. out \in String /\ Len(out) = 1 + Len(r) /\ out[1] = 45
        /\ \A k \in 1 .. Len(r) : out[1 + k] = r[k]
    <3>1. 1 \in 1 .. Len(<<45>>)
      BY <2>1
    <3>2. out \in String /\ Len(out) = Len(<<45>>) + Len(r) /\ out[1] = <<45>>[1]
          /\ \A k \in 1 .. Len(r) : out[Len(<<45>>) + k] = r[k]
      BY <1>7, <2>1, <2>2, <3>1, JoinedIs
    <3>3. QED
      BY <2>1, <3>2
  <2>4. Tail(out) = r
    <3>1. out \in Seq(0 .. 255) /\ out # <<>>
      <4>1. Len(out) # 0
        BY <1>6, <1>7, <2>3
      <4>2. out # <<>>
        BY <4>1, ShortStrings
      <4>3. QED
        BY <2>3, <4>2 DEF String
    <3>2. PICK n \in Nat : n = Len(r)
      BY <1>6, <1>7
    <3>3. Len(out) = n + 1
      BY <2>3, <3>2
    <3>4. Tail(out) \in Seq(0 .. 255) /\ Len(Tail(out)) = n
          /\ \A k \in 1 .. n : Tail(out)[k] = out[k + 1]
      <4>1. /\ Tail(out) \in Seq(0 .. 255) /\ Len(Tail(out)) = Len(out) - 1
            /\ \A k \in 1 .. Len(Tail(out)) : Tail(out)[k] = out[k + 1]
        BY <3>1, HeadTailProperties
      <4>2. Len(out) - 1 = n
        BY <3>3
      <4>3. QED
        BY <4>1, <4>2, Zenon
    <3>5. \A k \in 1 .. n : out[k + 1] = r[k]
      <4>1. \A k \in 1 .. n : k + 1 = 1 + k
        OBVIOUS
      <4>2. QED
        BY <2>3, <3>2, <4>1
    <3>6. r \in Seq(0 .. 255) /\ Len(r) = n
      BY <1>7, <3>2 DEF String
    <3>7. QED
      BY <3>4, <3>5, <3>6, SeqEqual
  <2>5. ReadBack(out, base) = -j
    BY <1>8, <2>3, <2>4 DEF ReadBack
  <2>6. j = -i /\ base = 10
    BY <1>4, <1>12
  <2>7. -j = i
    BY <1>2, <2>6
  <2>8. Len(out) + 1 <= sz /\ Len(out) >= pad
    <3>1. 1 + 1 + Len(digits) <= sz
      BY <1>11, <2>1
    <3>2. QED
      BY <1>6, <1>7, <2>3, <3>1
  <2>9. QED
    BY <2>5, <2>6, <2>7, <2>8
<1>13. CASE ~negative
  <2>1. out = r
    <3>1. sign = <<>>
      BY <1>13
    <3>2. <<>> \o r = r
      BY <1>7, ShortStrings
    <3>3. QED
      BY <1>11, <3>1, <3>2
  <2>2. ReadBack(out, base) = j
    BY <1>7, <1>8, <2>1 DEF ReadBack
  <2>3. j = Wrap(i) /\ (base = 10 => Wrap(i) = i)
    <3>1. i \in (-h) .. h /\ (base = 10 => ~(i < 0))
      BY <1>2, <1>13
    <3>2. QED
      BY <1>3, <1>4, <1>13, <3>1
  <2>4. Len(out) + 1 <= sz /\ Len(out) >= pad
    <3>1. Len(sign) = 0
      <4>1. sign = <<>>
        BY <1>13
      <4>2. QED
        BY <4>1, ShortStrings
    <3> HIDE DEF sign
    <3>2. 1 + 0 + Len(digits) <= sz
      BY <1>11, <3>1
    <3>3. QED
      BY <1>6, <1>7, <2>1, <3>2
  <2>5. QED
    BY <2>2, <2>3, <2>4
<1>14. QED
  BY <1>12, <1>13

(* A word by its bytes is a number.                                         *)
LEMMA DecodedIsNumber ==
  ASSUME NEW s \in String
  PROVE  DecodeFixed(s) \in Int
<1>1. Reverse(s) \in String
  <2>1. 0 \in 0 .. 255
    OBVIOUS
  <2>2. QED
    BY <2>1, ReverseGrows, Zenon
<1>2. Reverse(s) \in Seq(Int)
  <2> DEFINE T == 0 .. 255
  <2>1. T \subseteq Int
    OBVIOUS
  <2>2. Reverse(s) \in Seq(T)
    BY <1>1 DEF String
  <2> HIDE DEF T
  <2>3. QED
    BY <2>1, <2>2, SeqMonotonic
<1>3. QED
  BY <1>2, OneDigitMore DEF DecodeFixed

(* utils/uint128_t.h, retry_policy.h, stack_trace.cc: on words of any width *)
(* differences, the order, retry intervals and itoa_r() are exact at the    *)
(* edges; equality is inverted, and a sum is wrong whenever anything is     *)
(* added to the low word.                                                   *)
THEOREM WordsAreAlwaysExact == TextSpec => []WordsAreExact
<1>1. ASSUME TextInv PROVE WordsAreExact
  <2>1. text \in String /\ Len(text) \in Nat /\ arg \in String /\ Len(arg) \in Nat
    BY <1>1, InputsAre, StringFacts
  <2>2. /\ \A i \in 1 .. Len(text) : text[i] \in Word
        /\ \A i \in 1 .. Len(arg) : arg[i] \in Word
    <3>1. \A s \in Seq(Chars) : \A i \in 1 .. Len(s) : s[i] \in Chars
      OBVIOUS
    <3>2. Chars \subseteq Word
      BY TextAssumption
    <3>3. QED
      BY <1>1, <3>1, <3>2 DEF TextInv
  <2>3. ASSUME Len(text) = 2, Len(arg) = 2
        PROVE  WideArithmetic(U(text[1], text[2]), U(arg[1], arg[2]))
    <3>1. text[1] \in Word /\ text[2] \in Word /\ arg[1] \in Word /\ arg[2] \in Word
      BY <2>2, <2>3
    <3>2. U(text[1], text[2]) \in WordPair /\ U(arg[1], arg[2]) \in WordPair
      BY <3>1 DEF U, WordPair
    <3>3. QED
      BY <3>2, WideArithmeticHolds
  <2>4. ASSUME Len(text) = 1, Len(arg) = 1 PROVE RetriesBackOff(Signed(text[1]), Signed(arg[1]))
    <3>1. text[1] \in Word /\ arg[1] \in Word
      BY <2>2, <2>4
    <3>2. Signed(text[1]) \in Int /\ Signed(arg[1]) \in Int
      <4>1. ASSUME NEW x \in Word PROVE Signed(x) \in Int
        <5>1. PICK w \in Nat : w = Wide
          BY WideIs
        <5>2. x \in 0 .. Wide - 1
          BY DEF Word
        <5>3. Signed(x) = x \/ Signed(x) = x - Wide
          BY <5>2, SignedIs
        <5>4. QED
          BY <5>1, <5>2, <5>3
      <4>2. QED
        BY <3>1, <4>1
    <3>3. QED
      BY <3>2, RetriesAlwaysBackOff
  <2>5. ASSUME NEW base \in {2, 10, 16}, NEW pad \in {0, 1, 3}, NEW sz \in 0 .. 10
        PROVE  ItoaReadsBack(Signed(DecodeFixed(text)), sz, base, pad)
    <3>1. base \in 2 .. 16 /\ pad \in Nat /\ sz \in Nat /\ DecodeFixed(text) \in Int
      BY <2>1, DecodedIsNumber
    <3>2. QED
      BY <3>1, ItoaAlwaysReadsBack
  <2>6. QED
    BY <2>3, <2>4, <2>5 DEF WordsAreExact
<1>2. QED
  BY <1>1, TextInvHolds, PTL

=============================================================================
