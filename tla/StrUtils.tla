------------------------------ MODULE StrUtils ------------------------------
(***************************************************************************)
(* utils/str_utils.cc, the escaping of utils/json_util.cc and the character *)
(* classes of utils/ascii.*: functions from strings to strings.  A string  *)
(* is a sequence of codes of unsigned characters; std::string's own search *)
(* functions are those of StringPieces.                                    *)
(*                                                                         *)
(* A loop over positions is a recursive function of the position: what the *)
(* code has built when it is done from there on.                           *)
(***************************************************************************)
EXTENDS StringPieces

FindIn(str, what, pos) == find(FromString(str), FromString(what), pos)
SubStr(str, pos, n) == as_string(substr(FromString(str), pos, n))
From(str, pos) == SubStr(str, pos, npos)
find_first_of(str, set, pos) ==
  ScanUp(FromString(str), pos, LAMBDA c : c \in ToSet(set))

(* replace(): the overload for one character changes it in place; the two   *)
(* others cut the string at every hit and go on behind the replacement.     *)
(* With an empty "what" the loop never ends: it is not called with one.     *)
replace_char(str, what, with) == [i \in DOMAIN str |-> IF str[i] = what THEN with ELSE str[i]]
replace(str1, what, with) ==
  LET Found(str, pos) == [str |-> str, index |-> FindIn(str, what, pos)]
      Loop[at \in [str : Seq(0 .. 255), index : Nat]] ==
        IF at.index = npos THEN at.str
        ELSE Loop[Found(SubStr(at.str, 0, at.index) \o with \o From(at.str, at.index + Len(what)),
                        at.index + Len(with))]
  IN  Loop[Found(str1, 0)]

(* split(): both overloads, with the set of their delimiters.  max counts   *)
(* down before it is compared with 1; from 0 it wraps around.               *)
split(str, delims, max) ==
  LET Parts[at \in [last : 0 .. Len(str), left : 0 .. npos]] ==
        LET pos == find_first_of(str, delims, at.last)
            rest == From(str, pos + 1)
            next == IF at.left = 0 THEN npos ELSE at.left - 1
        IN  IF pos = npos THEN <<From(str, at.last)>>
            ELSE <<SubStr(str, at.last, pos - at.last)>>
                   \o (IF next = 1 THEN <<rest>> ELSE Parts[[last |-> pos + 1, left |-> next]])
  IN  IF str = <<>> THEN <<>> ELSE Parts[[last |-> 0, left |-> max]]

(* Ascii's table: the classes of each of the 256 characters.                *)
ClassTable ==
  [c \in 0 .. 255 |->
     (IF c \in 65 .. 90 THEN {"Upper"} ELSE {}) \cup
     (IF c \in 97 .. 122 THEN {"Lower"} ELSE {}) \cup
     (IF c \in 48 .. 57 THEN {"Digit"} ELSE {}) \cup
     (IF c \in 48 .. 57 \cup 65 .. 70 \cup 97 .. 102 THEN {"HexDigit"} ELSE {}) \cup
     (IF c \in {9, 32} THEN {"Blank"} ELSE {}) \cup
     (IF c \in 9 .. 13 \cup {32} THEN {"Space"} ELSE {}) \cup
     (IF c \in 0 .. 31 \cup {127} THEN {"Control"} ELSE {}) \cup
     (IF c \in 33 .. 47 \cup 58 .. 64 \cup 91 .. 96 \cup 123 .. 126 THEN {"Punct"} ELSE {}) \cup
     (IF c \in 32 .. 126 THEN {"Print"} ELSE {}) \cup
     (IF c \in 33 .. 126 THEN {"Graph"} ELSE {})]
IncludesAny(c, mask) == ClassTable[c] \cap mask # {}
ToLower(c) == IF IncludesAny(c, {"Upper"}) THEN c + 32 ELSE c
ToUpper(c) == IF IncludesAny(c, {"Lower"}) THEN c - 32 ELSE c

(* Of the bytes above 127 std::tolower() and std::toupper() know nothing:    *)
(* char is signed, and a negative argument is undefined.  They leave them    *)
(* as they are, as the C locale does.                                        *)
toLower(str) == [i \in DOMAIN str |-> ToLower(str[i])]
toUpper(str) == [i \in DOMAIN str |-> ToUpper(str[i])]

(* Prefixes are looked for with find_first_of(), that is, by any character  *)
(* of theirs; suffixes with rfind(), from the end.                          *)
StartWithPrefix(str, prefix) == find_first_of(str, prefix, 0) = 0
RemovePrefix(str, prefix) ==
  IF StartWithPrefix(str, prefix)
  THEN IF Len(prefix) > Len(str) THEN "out_of_range" ELSE From(str, Len(prefix))
  ELSE str
(* Mutant: the position is not compared. *)
EndsAnywhere(str, suffix) ==
  /\ Len(suffix) <= Len(str)
  /\ rfind(FromString(str), FromString(suffix), npos) # npos
EndWithSuffix(str, suffix) ==
  /\ Len(suffix) <= Len(str)
  /\ LET pos == rfind(FromString(str), FromString(suffix), npos)
     IN  pos # npos /\ pos = Len(str) - Len(suffix)
RemoveSuffix(str, suffix) ==
  IF EndWithSuffix(str, suffix) THEN SubStr(str, 0, Len(str) - Len(suffix)) ELSE str

(* JsonUtil::Escape() first counts what it will need, and resizes the       *)
(* result to that many NULs before it appends to it.                        *)
EscapeCode == [c \in {12, 9, 13, 10, 8, 34, 92} |->
  CASE c = 12 -> 102 [] c = 9 -> 116 [] c = 13 -> 114 [] c = 10 -> 110 [] c = 8 -> 98
    [] OTHER -> c]
NeedEscape(v) == ToSet(v) \cap DOMAIN EscapeCode # {}
EscapeChar(c) == IF c \in DOMAIN EscapeCode THEN <<92, EscapeCode[c]>> ELSE <<c>>
EscapedSize(v) ==
  LET Count[i \in 0 .. Len(v)] == IF i = 0 THEN 0 ELSE Count[i - 1] + Len(EscapeChar(v[i]))
  IN  Count[Len(v)]
Escape(v) ==
  IF EscapedSize(v) = Len(v) THEN v
  ELSE [i \in 1 .. EscapedSize(v) |-> 0] \o FlattenSeq([i \in DOMAIN v |-> EscapeChar(v[i])])
-----------------------------------------------------------------------------
Join(parts, sep) ==
  Head(parts) \o FlattenSeq([k \in 1 .. Len(parts) - 1 |-> sep \o parts[k + 1]])

(* str_utils.cc:46-82: the parts joined by the delimiter are the string     *)
(* again, whatever the limit; with a limit of two or more there are at most *)
(* that many parts, and every part but the last is free of the delimiter.   *)
SplitLosesNothing(str, delim, max) ==
  LET parts == split(str, <<delim>>, max)
  IN  str # <<>> =>
        /\ Join(parts, <<delim>>) = str
        /\ max >= 2 => Len(parts) <= max
        /\ \A i \in 1 .. Len(parts) - 1 : delim \notin ToSet(parts[i])
        /\ Len(parts) < max \/ max < 2 => delim \notin ToSet(Last(parts))

(* str_utils.cc:16-44: replacing by cutting and replacing in place agree    *)
(* where both can be used, and replacing is splitting and joining again:    *)
(* nothing that a replacement brings in is replaced in its turn.  (With an  *)
(* empty "what" replace() does not end: nothing is said of that call.)      *)
ReplaceIsSplitAndJoin(str, what, with) ==
  /\ replace(str, <<what>>, with)
       = IF str = <<>> THEN <<>> ELSE Join(split(str, <<what>>, npos), with)
  /\ Len(with) = 1 => replace(str, <<what>>, with) = replace_char(str, what, with[1])

(* str_utils.cc:111-143: a suffix is recognised like StringPiece does it    *)
(* and can be taken off and put on again.  A prefix is recognised only if   *)
(* it is one character: of a longer one, any character at the front will do.*)
AffixesAgree(str, affix) ==
  /\ EndWithSuffix(str, affix) <=> ends_with(FromString(str), FromString(affix))
  /\ EndWithSuffix(str, affix) => RemoveSuffix(str, affix) \o affix = str
  /\ Len(affix) = 1 =>
       (StartWithPrefix(str, affix) <=> starts_with(FromString(str), FromString(affix)))
  /\ affix # <<>> /\ starts_with(FromString(str), FromString(affix)) =>
       StartWithPrefix(str, affix) /\ affix \o RemovePrefix(str, affix) = str

(* json_util.cc:10-82: what needs no escaping is left alone; of the rest,   *)
(* what stands behind the NULs reads back as the text, and is as long as    *)
(* was counted.                                                             *)
Unescape(v) ==
  LET Read[i \in 1 .. Len(v) + 2] ==
        IF i > Len(v) THEN <<>>
        ELSE IF v[i] = 92
        THEN <<CHOOSE c \in DOMAIN EscapeCode : EscapeCode[c] = v[i + 1]>> \o Read[i + 2]
        ELSE <<v[i]>> \o Read[i + 1]
  IN  Read[1]
EscapeKeepsText(v) ==
  LET nuls == EscapedSize(v)
  IN  IF NeedEscape(v)
      THEN Unescape(SubSeq(Escape(v), nuls + 1, 2 * nuls)) = v /\ Len(Escape(v)) = 2 * nuls
      ELSE Escape(v) = v

(* ascii.cc:3-134, str_utils.cc:84-108: the table is consistent with itself *)
(* and with the two conversions that use it.                                *)
CaseIsStable(str) ==
  /\ toLower(toUpper(toLower(str))) = toLower(str)
  /\ \A i \in DOMAIN str :
       /\ IncludesAny(str[i], {"Graph"}) <=> IncludesAny(str[i], {"Upper", "Lower", "Digit", "Punct"})
       /\ ClassTable[str[i]] \cap {"Control", "Print"} # {} <=> str[i] < 128
       /\ toLower(str)[i] # str[i] => toUpper(toLower(str))[i] = str[i]
=============================================================================
