------------------------------ MODULE DedupBits ------------------------------
(***************************************************************************)
(* The bitset of the receive window as the code stores it: an array of     *)
(* words that is shifted by one bit at a time                              *)
(* (crates/ub-transport/src/dedup.rs).  `window` runs the set-based        *)
(* operators of DedupWindow on the same calls.                             *)
(***************************************************************************)
EXTENDS DedupWindow

CONSTANTS
    WordBits,      \* 64 in the code
    Words,         \* 16 in the code
    MaxSeq         \* bound: the sequence numbers the window is called with

ASSUME BitsAssumption ==
    /\ WordBits \in Nat \ {0}
    /\ Words \in Nat \ {0}
    /\ WindowSize <= WordBits * Words       \* the assertion of with_window_size
    /\ MaxSeq \in Nat

VARIABLES
    next_expected, \* the first number not yet received
    words,         \* words[i]: the i-th word of the bitset
    window         \* the window of DedupWindow after the same calls

vars == <<next_expected, words, window>>

is_bit_set(ws, offset) ==
    offset < WindowSize /\ (ws[offset \div WordBits] \div 2^(offset % WordBits)) % 2 = 1

set_bit(ws, offset) ==
    IF offset >= WindowSize \/ is_bit_set(ws, offset) THEN ws
    ELSE [ws EXCEPT ![offset \div WordBits] = @ + 2^(offset % WordBits)]

\* A mistake to compare with: no bit crosses a word boundary.
slide_one_no_carry(ws) == [i \in 0 .. Words - 1 |-> ws[i] \div 2]

\* The words are rewritten in increasing order, so each one reads the low bit
\* of a word that has not been shifted yet.
slide_one(ws) ==
    [i \in 0 .. Words - 1 |->
        (ws[i] \div 2) + (IF i + 1 < Words THEN (ws[i + 1] % 2) * 2^(WordBits - 1) ELSE 0)]

RECURSIVE Slide(_, _)
Slide(n, ws) ==
    IF is_bit_set(ws, 0) THEN Slide(n + 1, slide_one(ws))
    ELSE [next_expected |-> n, words |-> ws]

bits_check(seq) ==
    CASE seq < next_expected -> "AlreadySeen"
      [] seq = next_expected -> "InOrder"
      [] seq - next_expected >= WindowSize -> "BeyondWindow"
      [] OTHER -> IF is_bit_set(words, seq - next_expected)
                  THEN "AlreadySeen" ELSE "OutOfOrder"

bits_is_seen(seq) == seq < next_expected \/ is_bit_set(words, seq - next_expected)

MarkAndAdvance(seq) ==
    LET after == Slide(next_expected, set_bit(words, seq - next_expected))
    IN  IF seq < next_expected \/ seq - next_expected >= WindowSize
        THEN UNCHANGED <<next_expected, words>>
        ELSE /\ next_expected' = after.next_expected
             /\ words' = after.words

Init ==
    /\ next_expected = 1
    /\ words = [i \in 0 .. Words - 1 |-> 0]
    /\ window = new_window(1)

Next ==
    \E seq \in 0 .. MaxSeq :
        /\ MarkAndAdvance(seq)
        /\ window' = mark_and_advance(window, seq)

Spec == Init /\ [][Next]_vars

-----------------------------------------------------------------------------
(* Properties *)

\* Whatever the calls, the words, the shifts across word boundaries and the
\* sliding loop answer check and is_seen as the set of received numbers does.
BitsAgree ==
    /\ next_expected = window.next_expected
    /\ \A seq \in 0 .. MaxSeq + WindowSize :
           /\ bits_check(seq) = check(window, seq)
           /\ bits_is_seen(seq) = is_seen(window, seq)
=============================================================================
