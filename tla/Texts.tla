------------------------------- MODULE Texts -------------------------------
(***************************************************************************)
(* Inputs for the functions on strings, bytes and words: two texts that    *)
(* grow one character at a time, until every pair of short texts has been  *)
(* there.                                                                  *)
(***************************************************************************)
EXTENDS Digests

CONSTANTS Chars,              \* the codes the inputs are made of
          MaxText, MaxArg     \* bounds: their lengths

(* A character fits into a byte and into a word.                            *)
(* No text is so long that one of its positions could be npos, not even one *)
(* in which a string was put in the place of every character.               *)
ASSUME TextAssumption == /\ Chars \subseteq Byte \cap Word
                         /\ MaxText \in Nat /\ MaxArg \in Nat
                         /\ MaxText + 1 < npos /\ MaxArg + 1 < npos
                         /\ MaxText * (MaxArg + 2) + 1 < npos

VARIABLES text, arg           \* the inputs

textVars == <<text, arg>>

GrowText == /\ Len(text) < MaxText
            /\ \E c \in Chars : text' = Append(text, c)
            /\ UNCHANGED arg
GrowArg == /\ Len(arg) < MaxArg
           /\ \E c \in Chars : arg' = Append(arg, c)
           /\ UNCHANGED text

TextInit == text = <<>> /\ arg = <<>>
TextNext == GrowText \/ GrowArg
TextSpec == TextInit /\ [][TextNext]_textVars
-----------------------------------------------------------------------------
(* ds/string_piece.*: searching, comparing and cutting views is exact.      *)
ViewsAreExact ==
  /\ SearchesMirror(FromString(text), FromString(arg))
  /\ HitsAreAll(FromString(text), FromString(arg))
  /\ OrderIsConsistent(FromString(text), FromString(arg))
  /\ ViewsStayInside(FromPiece(FromString(text), Lesser(1, Len(text)), npos))

(* utils/str_utils.cc, json_util.cc, ascii.*: what the functions on strings *)
(* take apart can be put together again.                                    *)
StringsAreKept ==
  /\ \A c \in Chars, max \in 0 .. 3 : SplitLosesNothing(text, c, max)
  /\ \A c \in Chars : ReplaceIsSplitAndJoin(text, c, arg)
  /\ AffixesAgree(text, arg)
  /\ EscapeKeepsText(text)
  /\ CaseIsStable(text)

(* utils/encoding.*, hash.cc: what is encoded can be decoded, and every     *)
(* byte enters murmur3_hash(), Hash(), hmac() and the digests.  Not so      *)
(* quick_hash() with a size, of which only the length and the first byte    *)
(* count, and the overloads for string_view, which read on behind the view. *)
BytesAreKept ==
  /\ CodecsReadBack(text) /\ CodecsReadBack(text \o text)
  /\ EveryByteCounts(text, arg) /\ EveryByteCounts(text, text \o arg)
  /\ SomeHashesMissBytes(text, arg) /\ SomeHashesMissBytes(text, text \o arg)
  /\ KeysAreNormalised(arg, text)

(* utils/uint128_t.h, retry_policy.h, stack_trace.cc: words at their edges, *)
(* with the two faults of uint128_t.h that WideArithmetic states: equality  *)
(* is inverted, and a sum that touches the low word has a wrong carry.      *)
WordsAreExact ==
  /\ Len(text) = 2 /\ Len(arg) = 2 =>
       WideArithmetic(U(text[1], text[2]), U(arg[1], arg[2]))
  /\ Len(text) = 1 /\ Len(arg) = 1 => RetriesBackOff(Signed(text[1]), Signed(arg[1]))
  /\ Len(text) \in 1 .. 2 /\ arg = <<>> =>
       \A base \in {2, 10, 16}, pad \in {0, 1, 3}, sz \in 0 .. 10 :
         ItoaReadsBack(Signed(DecodeFixed(text)), sz, base, pad)
=============================================================================
