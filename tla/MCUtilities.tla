----------------------------- MODULE MCUtilities -----------------------------
(***************************************************************************)
(* The classes and functions of ds/ and utils/ that no thread waits in.    *)
(* They have nothing to do with each other: a behaviour is one of one part.*)
(* The functions on strings, bytes and words are evaluated over all short  *)
(* inputs, the two texts of Texts.                                         *)
(***************************************************************************)
EXTENDS Storage, Texts

VARIABLE part                 \* which part this behaviour is about

utilVars == <<part, textVars, storageVars>>

(* A digest of two bytes that depends on every byte and on their order.     *)
ToyDigest(m) == LET h == FoldLeft(LAMBDA s, b : (31 * s + b + 7) % 65521, Len(m), m)
                IN  <<h \div 256, h % 256>>

UtilInit ==
  part \in {"text"} \cup StoragePart /\ TextInit /\ StorageInit
UtilNext ==
  /\ UNCHANGED part
  /\ \/ part = "text" /\ TextNext /\ UNCHANGED storageVars
     \/ StepOf(part) /\ UNCHANGED textVars
UtilSpec == UtilInit /\ [][UtilNext]_utilVars
=============================================================================
