------------------------------- MODULE Bitmap -------------------------------
(***************************************************************************)
(* kern/lib/bitmap.c: a set of numbers below nbits kept in words, whose    *)
(* last word may have bits that are no number.  A word is the set of the   *)
(* offsets of its bits that are 1.  Callers unmark what they were given    *)
(* and mark what is free, as the asserts demand.                           *)
(***************************************************************************)
EXTENDS Kernel, Integers

CONSTANTS BITS_PER_WORD,
          MaxBits          \* bound: the size of a bitmap

ASSUME BitmapSizes == {BITS_PER_WORD, MaxBits} \subseteq Nat \ {0}

VARIABLES nbits, v,
          given   \* the numbers that callers have

bitmap_vars == <<nbits, v, given>>

DIVROUNDUP(a, b) == (a + b - 1) \div b
words == DIVROUNDUP(nbits, BITS_PER_WORD)
WORD_ALLBITS == 0..(BITS_PER_WORD - 1)

\* Mutant of overbits: a bitmap whose size is no multiple of the word has one
\* number too many.
overbits_less(n) == LET ix == DIVROUNDUP(n, BITS_PER_WORD) - 1 IN (n - ix * BITS_PER_WORD) + 1

\* The first bit of the last word that is no number.
overbits(n) == LET ix == DIVROUNDUP(n, BITS_PER_WORD) - 1 IN n - ix * BITS_PER_WORD

\* bitmap_create: all free but the leftover bits at the end.
BitmapInit ==
    /\ nbits \in 1..MaxBits
    /\ v = [ix \in 0..(words - 1) |->
              IF nbits \div BITS_PER_WORD < words /\ ix = words - 1
              THEN {j \in WORD_ALLBITS : j >= overbits(nbits)} ELSE {}]
    /\ given = {}

ix_of(index) == index \div BITS_PER_WORD
mask_of(index) == index % BITS_PER_WORD

\* bitmap_alloc: the first bit that is 0 in the first word that has one; no
\* number when all words are full.
bitmap_alloc ==
    \E ix \in DOMAIN v, offset \in WORD_ALLBITS :
        /\ v[ix] # WORD_ALLBITS /\ \A i \in 0..(ix - 1) : v[i] = WORD_ALLBITS
        /\ offset \notin v[ix] /\ 0..(offset - 1) \subseteq v[ix]
        /\ v' = [v EXCEPT ![ix] = @ \cup {offset}]
        /\ given' = given \cup {ix * BITS_PER_WORD + offset}
        /\ UNCHANGED nbits

bitmap_isset(index) == mask_of(index) \in v[ix_of(index)]

bitmap_mark(index) ==
    /\ ~bitmap_isset(index)
    /\ v' = [v EXCEPT ![ix_of(index)] = @ \cup {mask_of(index)}]
    /\ given' = given \cup {index}
    /\ UNCHANGED nbits

bitmap_unmark(index) ==
    /\ bitmap_isset(index)
    /\ v' = [v EXCEPT ![ix_of(index)] = @ \ {mask_of(index)}]
    /\ given' = given \ {index}
    /\ UNCHANGED nbits

BitmapNext == \/ bitmap_alloc
              \/ \E index \in 0..(nbits - 1) : bitmap_mark(index)
              \/ \E index \in given : bitmap_unmark(index)

BitmapBehaviour == BitmapInit /\ [][BitmapNext]_bitmap_vars

----------------------------------------------------------------------------
(* Properties *)

\* The words stand for exactly what was given out, every number of it below
\* nbits, and the leftover bits stay set: bitmap_alloc has a number to give as
\* long as there is one, and never one that is beyond the end or given already.
BitmapOK ==
    subject = "bitmap" =>
      /\ given \subseteq 0..(nbits - 1)
      /\ \A index \in 0..(nbits - 1) : bitmap_isset(index) <=> index \in given
      /\ \A index \in nbits..(words * BITS_PER_WORD - 1) : bitmap_isset(index)
      /\ (\A ix \in DOMAIN v : v[ix] = WORD_ALLBITS) <=> given = 0..(nbits - 1)
=============================================================================
