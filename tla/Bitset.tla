------------------------------- MODULE Bitset -------------------------------
(***************************************************************************)
(* The bit sets of porcupine/bitset.go: a slice of words of W bits.  Bit    *)
(* pos is bit pos % W of word pos / W.  A bitset here is a value, so clone  *)
(* is the identity.                                                         *)
(***************************************************************************)
EXTENDS Integers, Sequences, FiniteSets, Bitwise
LOCAL INSTANCE SequencesExt

CONSTANT W      \* the width of a word, 64 in the code

newBitset(bits) == [k \in 1 .. bits \div W + (IF bits % W # 0 THEN 1 ELSE 0) |-> 0]

\* bitsetIndex: the word, counted from 1, and the mask of pos in it.
major(pos) == pos \div W + 1
mask(pos) == 2 ^ (pos % W)

set(b, pos) == [b EXCEPT ![major(pos)] = @ | mask(pos)]

clear(b, pos) == [b EXCEPT ![major(pos)] = (@ | mask(pos)) - mask(pos)]

get(b, pos) == (b[major(pos)] & mask(pos)) # 0

\* The positions that are set.
members(b) == {pos \in 0 .. Len(b) * W - 1 : get(b, pos)}

popcnt(b) == Cardinality(members(b))

hash(b) == FoldLeft(LAMBDA h, v : h ^^ v, popcnt(b), b)

equals(b, b2) == Len(b) = Len(b2) /\ \A i \in DOMAIN b : b[i] = b2[i]
=============================================================================
