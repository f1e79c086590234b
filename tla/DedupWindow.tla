----------------------------- MODULE DedupWindow -----------------------------
(***************************************************************************)
(* The receive window of a reliable session                                *)
(* (crates/ub-transport/src/dedup.rs).                                     *)
(*                                                                         *)
(* The code keeps next_expected and a bitset whose bit i stands for the    *)
(* sequence number next_expected + i.  Here the bitset is the set of the   *)
(* sequence numbers whose bit is set.  DedupBits models the words and the  *)
(* shifts themselves and is checked to implement this module.              *)
(***************************************************************************)
EXTENDS Integers

CONSTANT WindowSize        \* 1024 in the code

ASSUME WindowAssumption == WindowSize \in Nat \ {0}

Window == [next_expected : Nat, seen : SUBSET Nat]

new_window(initial_seq) == [next_expected |-> initial_seq, seen |-> {}]

check(w, seq) ==
    CASE seq < w.next_expected               -> "AlreadySeen"
      [] seq = w.next_expected               -> "InOrder"
      [] seq >= w.next_expected + WindowSize -> "BeyondWindow"
      [] OTHER -> IF seq \in w.seen THEN "AlreadySeen" ELSE "OutOfOrder"

\* Where the loop `while self.is_bit_set(0) { self.slide_one(); }` stops.
FirstUnseen(n, S) ==
    CHOOSE m \in n .. n + WindowSize :
        m \notin S /\ \A k \in n .. m - 1 : k \in S

mark_and_advance(w, seq) ==
    IF seq < w.next_expected \/ seq >= w.next_expected + WindowSize
    THEN w
    ELSE LET marked == w.seen \cup {seq}
             n      == FirstUnseen(w.next_expected, marked)
         IN  [next_expected |-> n, seen |-> {k \in marked : k >= n}]

is_seen(w, seq) == seq < w.next_expected \/ seq \in w.seen
=============================================================================
