------------------------------ MODULE Numbers ------------------------------
(***************************************************************************)
(* Arithmetic on words: uint_t<128> of utils/uint128_t.h, itoa_r() of      *)
(* utils/stack_trace.cc and the interval of utils/retry_policy.h.  The     *)
(* width of a word is a parameter: what goes wrong at a carry or at the    *)
(* last bit goes wrong in a word of any width.                             *)
(***************************************************************************)
EXTENDS Integers, SequencesExt

CONSTANT Bits            \* of uint64_t, uintptr_t and int32_t alike

ASSUME BitsAssumption == Bits \in Nat /\ Bits >= 4

Pow2[k \in Nat] == IF k = 0 THEN 1 ELSE 2 * Pow2[k - 1]
Wide == Pow2[Bits]
Word == 0 .. Wide - 1
Wrap(x) == x % Wide            \* unsigned
Signed(x) == LET w == Wrap(x) IN IF w < Wide \div 2 THEN w ELSE w - Wide
Bit(b) == IF b THEN 1 ELSE 0

(* A number by its digits, the highest first: a shift for every digit.      *)
Packed(digits, base) ==
  LET Value[k \in 0 .. Len(digits)] == IF k = 0 THEN 0 ELSE Value[k - 1] * base + digits[k]
  IN  Value[Len(digits)]

(* uint_t<128>: two words.                                                  *)
U(hi, lo) == [hi |-> hi, lo |-> lo]
Add(x, y) ==
  LET lo == Wrap(x.lo + y.lo)
      carry == Bit(lo > x.lo)
  IN  U(Wrap(x.hi + y.hi + carry), lo)
(* Mutant: an equal low word borrows too. *)
SubBorrowsOften(x, y) ==
  LET lo == Wrap(x.lo - y.lo) IN U(Wrap(x.hi - y.hi - Bit(x.lo <= lo)), lo)
Sub(x, y) ==
  LET lo == Wrap(x.lo - y.lo)
      borrow == Bit(x.lo < lo)
  IN  U(Wrap(x.hi - y.hi - borrow), lo)
Eq(x, y) == x.lo # y.lo \/ x.hi # y.hi          \* operator==, as it is written
Ne(x, y) == ~Eq(x, y)
Lt(x, y) == x.hi < y.hi \/ (x.hi = y.hi /\ x.lo < y.lo)
Le(x, y) == x.hi < y.hi \/ (x.hi = y.hi /\ x.lo <= y.lo)
Gt(x, y) == ~Le(x, y)
Ge(x, y) == ~Lt(x, y)

(* ExponentialRetryPolicy: the shift and the product are of type int32_t.   *)
(* Their overflow is undefined; the model takes what the instructions give, *)
(* a wrap, and of that value the properties say only that max_ bounds it.   *)
GetRetryInterval(base, max, retry_count) ==
  LET shift == IF retry_count < Bits - 1 THEN retry_count ELSE Bits - 1
      interval == Signed(base * Signed(Pow2[shift]))
  IN  IF interval < max THEN interval ELSE max

(* itoa_r(): the digits come out lowest first behind the sign, and are then *)
(* turned round; a buffer of sz characters that will not hold them and the  *)
(* NUL gives NULL.                                                          *)
DigitChar(d) == IF d < 10 THEN 48 + d ELSE 87 + d
Digits(j, base, pad) ==
  LET Loop[at \in [n : Word, left : 0 .. pad]] ==
        <<DigitChar(at.n % base)>>
          \o (IF at.n \div base = 0 /\ at.left <= 1 THEN <<>>
              ELSE Loop[[n |-> at.n \div base, left |-> IF at.left = 0 THEN 0 ELSE at.left - 1]])
  IN  Loop[[n |-> j, left |-> pad]]
NULL == <<-1>>
itoa_r(i, sz, base, pad) ==
  LET negative == i < 0 /\ base = 10
      digits == Digits(Wrap(IF negative THEN -i ELSE i), base, pad)
      sign == IF negative THEN <<45>> ELSE <<>>
      Swapped == Reverse(digits)
  IN  IF base \notin 2 .. 16 \/ 1 + Len(sign) + Len(digits) > sz THEN NULL
      ELSE sign \o Swapped
-----------------------------------------------------------------------------
Number(x) == x.hi * Wide + x.lo

(* uint128_t.h:31-75, as it is: subtraction borrows exactly when it must,   *)
(* across the words, and the order is that of the numbers; but operator==   *)
(* and operator!= answer the opposite of what they are asked, and the carry *)
(* of operator+ is tested the wrong way round, so that a sum is right only  *)
(* when nothing is added to the low word.                                   *)
WideArithmetic(x, y) ==
  /\ Number(Sub(x, y)) = (Number(x) - Number(y)) % (Wide * Wide)
  /\ Lt(x, y) <=> Number(x) < Number(y)
  /\ Le(x, y) <=> Number(x) <= Number(y)
  /\ Gt(x, y) <=> Number(x) > Number(y)
  /\ Ge(x, y) <=> Number(x) >= Number(y)
  /\ Eq(x, y) <=> Number(x) # Number(y)
  /\ Ne(x, y) <=> Number(x) = Number(y)
  /\ Number(Add(x, y)) = (Number(x) + Number(y)) % (Wide * Wide) <=> y.lo = 0

(* retry_policy.h:23: an interval never exceeds the limit, and as long as   *)
(* nothing overflows it doubles until the limit is reached.                 *)
RetriesBackOff(base, max) ==
  \A n \in 0 .. Bits - 2 :
    /\ GetRetryInterval(base, max, n) <= max
    /\ base >= 0 /\ 2 * base * Pow2[n] < Wide \div 2 =>
         /\ GetRetryInterval(base, max, n) <= GetRetryInterval(base, max, n + 1)
         /\ GetRetryInterval(base, max, n) < max =>
              LET next == 2 * GetRetryInterval(base, max, n)
              IN  GetRetryInterval(base, max, n + 1) = IF next < max THEN next ELSE max

(* The number that a text stands for.                                       *)
DigitValue(c) == IF c < 58 THEN c - 48 ELSE c - 87
ReadDigits(digits, base) == Packed([i \in DOMAIN digits |-> DigitValue(digits[i])], base)
ReadBack(text, base) ==
  IF text[1] = 45 THEN -ReadDigits(Tail(text), base) ELSE ReadDigits(text, base)

(* stack_trace.cc:37-95: the text reads back as the number, the most        *)
(* negative one included, has at least the digits asked for, and with its   *)
(* NUL never needs more room than there is.                                 *)
ItoaReadsBack(i, sz, base, pad) ==
  LET text == itoa_r(i, sz, base, pad)
  IN  text # NULL => /\ Len(text) + 1 <= sz
                     /\ Len(text) >= pad
                     /\ ReadBack(text, base) = IF base = 10 THEN i ELSE Wrap(i)
=============================================================================
