---------------------------- MODULE StringPieces ----------------------------
(***************************************************************************)
(* BasicStringPiece of ds/string_piece.h and the functions on it in        *)
(* ds/string_piece.cc.  A piece is a view: a pointer into somebody's       *)
(* buffer, and a length.  The buffer is a sequence of character codes,     *)
(* positions count from zero, and npos is a position no text reaches.      *)
(***************************************************************************)
EXTENDS Integers, SequencesExt

CONSTANT npos            \* size_type(-1)

ASSUME NposAssumption == npos \in Nat

Lesser(a, b) == IF a < b THEN a ELSE b

(* A view and what it shows. *)
Piece(buffer, ptr, length) == [buffer |-> buffer, ptr |-> ptr, length |-> length]
NoBuffer == Piece(<<>>, 0, 0)
FromString(str) == Piece(str, 0, Len(str))
FromPiece(str, pos, len) == Piece(str.buffer, str.ptr + pos, Lesser(len, str.length - pos))
as_string(self) == SubSeq(self.buffer, self.ptr + 1, self.ptr + self.length)
At(self, i) == self.buffer[self.ptr + i + 1]
size(self) == self.length
empty(self) == self.length = 0

(* The operations that move a view. *)
assign(str, pos, len) == FromPiece(str, pos, len)
remove_prefix(self, n) == [self EXCEPT !.ptr = @ + n, !.length = @ - n]
remove_suffix(self, n) == [self EXCEPT !.length = @ - n]
isspace(c) == c = 32 \/ c \in 9 .. 13
(* How many characters, from the one at(0) on, the loop passes over. *)
Spaces(n, at(_)) == Min({k \in 0 .. n : k = n \/ ~isspace(at(k))})
trim_spaces(self) ==
  LET front == remove_prefix(self, Spaces(size(self), LAMBDA k : At(self, k)))
  IN  remove_suffix(front, Spaces(size(front), LAMBDA k : At(front, size(front) - 1 - k)))
front_or_0(self) == IF empty(self) THEN 0 ELSE At(self, 0)
back_or_0(self) == IF empty(self) THEN 0 ELSE At(self, size(self) - 1)

(* Comparison, by the first n characters of two texts and then by length. *)
wordmemcmp(p, p2, n) ==
  LET differ == {i \in 1 .. n : p[i] # p2[i]}
  IN  IF differ = {} THEN 0 ELSE IF p[Min(differ)] < p2[Min(differ)] THEN -1 ELSE 1
compare(self, x) ==
  LET r == wordmemcmp(as_string(self), as_string(x), Lesser(size(self), size(x)))
  IN  IF r # 0 THEN r
      ELSE IF size(self) < size(x) THEN -1 ELSE IF size(self) > size(x) THEN 1 ELSE 0
Equal(x, y) == size(x) = size(y) /\ wordmemcmp(as_string(x), as_string(y), size(x)) = 0
Less(x, y) ==
  LET r == wordmemcmp(as_string(x), as_string(y), Lesser(size(x), size(y)))
  IN  r < 0 \/ (r = 0 /\ size(x) < size(y))
AtMost(x, y) == ~Less(y, x)

starts_with(self, x) ==
  size(self) >= size(x) /\ wordmemcmp(as_string(self), as_string(x), size(x)) = 0
ends_with(self, x) ==
  /\ size(self) >= size(x)
  /\ wordmemcmp(as_string(remove_prefix(self, size(self) - size(x))), as_string(x), size(x)) = 0

(* Copies into a string, or into a buffer of n characters. *)
CopyToString(self) == IF empty(self) THEN <<>> ELSE as_string(self)
AppendToString(self, target) == IF empty(self) THEN target ELSE target \o as_string(self)
copy(self, n, pos) == SubSeq(as_string(self), pos + 1, pos + Lesser(size(self) - pos, n))

(* std::search and std::find_end: where s is first and last in the part    *)
(* [from, to) of self; both say "to" when it is nowhere.  An empty s is at  *)
(* the very beginning.                                                      *)
Matches(self, from, to, s) ==
  {i \in from .. to - size(s) : \A k \in 0 .. size(s) - 1 : At(self, i + k) = At(s, k)}
search(self, from, to, s) ==
  LET m == Matches(self, from, to, s) IN IF m = {} THEN to ELSE Min(m)
find_end(self, from, to, s) ==
  LET m == Matches(self, from, to, s) IN IF m = {} THEN to ELSE Max(m)

find(self, s, pos) ==
  IF pos > size(self) THEN npos
  ELSE LET xpos == search(self, pos, size(self), s)
       IN  IF xpos + size(s) <= size(self) THEN xpos ELSE npos

(* The scans for one character: up from pos, or down from pos or the end. *)
ScanUp(self, pos, Good(_)) ==
  LET hits == {i \in pos .. size(self) - 1 : Good(At(self, i))}
  IN  IF hits = {} THEN npos ELSE Min(hits)
ScanDown(self, pos, Good(_)) ==
  LET hits == {i \in 0 .. Lesser(pos, size(self) - 1) : Good(At(self, i))}
  IN  IF hits = {} THEN npos ELSE Max(hits)

find_char(self, c, pos) == ScanUp(self, pos, LAMBDA x : x = c)
rfind_char(self, c, pos) == ScanDown(self, pos, LAMBDA x : x = c)
find_first_not_of(self, c, pos) == ScanUp(self, pos, LAMBDA x : x # c)
find_last_not_of(self, c, pos) == ScanDown(self, pos, LAMBDA x : x # c)

(* Mutant: one position too far. *)
LastStartLate(self, s, pos) == Lesser(size(self) - size(s), pos + 1)
LastStart(self, s, pos) == Lesser(size(self) - size(s), pos)
rfind(self, s, pos) ==
  IF size(self) < size(s) THEN npos
  ELSE IF empty(s) THEN Lesser(size(self), pos)
  ELSE LET last == LastStart(self, s, pos) + size(s)
           result == find_end(self, 0, last, s)
       IN  IF result # last THEN result ELSE npos

substr(self, pos, n) ==
  LET p == Lesser(pos, size(self))
  IN  Piece(self.buffer, self.ptr + p, Lesser(n, size(self) - p))

(* hash<StringPiece>: one round for each character, kept as the sequence    *)
(* of what the rounds mix in.                                               *)
HashRounds(piece) == [i \in 1 .. size(piece) |-> At(piece, i - 1)]
-----------------------------------------------------------------------------
Backwards(self) == FromString(Reverse(as_string(self)))

(* string_piece.cc:59-134: searching forwards and backwards are two pieces  *)
(* of code with boundaries of their own; each is the mirror of the other,   *)
(* from every position, for an empty needle and for one that is too long.   *)
SearchesMirror(self, s) ==
  LET back == Backwards(self)
      Mirror(i, n) == IF i = npos THEN npos ELSE size(self) - n - i
  IN  /\ \A pos \in 0 .. size(self) - size(s) :
           rfind(self, s, pos)
             = Mirror(find(back, Backwards(s), size(self) - size(s) - pos), size(s))
      /\ \A pos \in size(self) - size(s) + 1 .. size(self) + 1 :
           size(s) <= size(self) => rfind(self, s, pos) = rfind(self, s, npos)
      /\ ~empty(self) => \A c \in ToSet(self.buffer), pos \in 0 .. size(self) - 1 :
           /\ rfind_char(self, c, pos) = Mirror(find_char(back, c, size(self) - 1 - pos), 1)
           /\ find_last_not_of(self, c, pos)
                = Mirror(find_first_not_of(back, c, size(self) - 1 - pos), 1)

(* string_piece.cc:59-70: walking from hit to hit, as every client of       *)
(* find() does, misses no occurrence and invents none.                      *)
HitsAreAll(self, s) ==
  {i \in 0 .. size(self) : find(self, s, i) = i}
    = {i \in 0 .. size(self) : starts_with(substr(self, i, npos), s)}

(* string_piece.h:179-187, 331-353: operator== is not written with compare()*)
(* nor with operator<; they must agree, or a sorted container of pieces is  *)
(* broken.                                                                  *)
OrderIsConsistent(x, y) ==
  /\ Less(x, y) <=> compare(x, y) < 0
  /\ Equal(x, y) <=> compare(x, y) = 0
  /\ compare(x, y) = -compare(y, x)
  /\ starts_with(x, y) => AtMost(y, x)
  /\ Equal(x, y) => HashRounds(x) = HashRounds(y)

(* string_piece.h:117-177: a view never leaves the view it was cut from.    *)
Within(inner, outer) ==
  /\ inner.ptr >= outer.ptr /\ inner.length >= 0
  /\ inner.ptr + inner.length <= outer.ptr + outer.length
ViewsStayInside(self) ==
  /\ Within(trim_spaces(self), self)
  /\ \A pos \in 0 .. size(self) + 1, n \in 0 .. size(self) + 1 :
       Within(substr(self, pos, n), self) /\ Within(substr(self, pos, npos), self)
  /\ \A pos \in 0 .. size(self), n \in 0 .. size(self) + 1 :
       /\ Within(assign(self, pos, n), self)
       /\ copy(self, n, pos) = as_string(substr(self, pos, n))
=============================================================================
