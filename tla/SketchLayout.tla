----------------------------- MODULE SketchLayout -----------------------------
(***************************************************************************)
(* How the count-min sketch of src/db/admission/count_min_sketch.rs lays   *)
(* out its counters: lanes of a few bits, packed into words.  The widths   *)
(* are parameters; the code has 4 bits, 16 lanes to a 64-bit word.         *)
(***************************************************************************)
EXTENDS Integers, Sequences

CONSTANTS
  Hashes,     \* key hashes
  Indices,    \* hash -> the lanes it is counted in (four mixed indices)
  LaneBits,   \* 4
  WordLanes,  \* 16
  NumWords,   \* words.len()
  ResetAt     \* reset_at

\* 1 << n
Pow2[n \in Nat] == IF n = 0 THEN 1 ELSE 2 * Pow2[n - 1]

Words == 0..(NumWords - 1)
Lanes == 0..(NumWords * WordLanes - 1)
Top   == Pow2[LaneBits] - 1  \* NIBBLE_MASK, where a lane saturates

ASSUME LayoutConstants ==
  /\ {LaneBits, WordLanes, NumWords, ResetAt} \subseteq Nat \ {0}
  /\ Hashes # {}
  /\ \A h \in Hashes : Indices[h] \in Seq(Lanes) /\ Indices[h] # <<>>

\* word_shift: the word of a lane, and what one counts for in it.
WordOf(i) == i \div WordLanes
Place(j) == Pow2[LaneBits * j]
One(i) == Place(i % WordLanes)

\* The j-th lane of a word, lowest first.
LaneOf(word, j) == (word \div Place(j)) % Pow2[LaneBits]
Unpacked(word) == [j \in 0..(WordLanes - 1) |-> LaneOf(word, j)]

\* & MASK_NIBBLES_64: every lane without its top bit.
Masked(word) ==
  CHOOSE m \in 0..(Place(WordLanes) - 1) :
    \A j \in 0..(WordLanes - 1) : LaneOf(m, j) = LaneOf(word, j) % Pow2[LaneBits - 1]
=============================================================================
