------------------------------ MODULE Selection ------------------------------
(***************************************************************************)
(* What std::copy_if, std::remove_copy_if and std::stable_partition take   *)
(* from a list: the elements that satisfy a condition, here those in a     *)
(* set, in the order of the list.  SequencesExt!SelectSeq says the same,   *)
(* with an operator where this has a set that proofs can speak of.         *)
(***************************************************************************)
EXTENDS Integers, Sequences

Selected(s, S) ==
    LET taken[i \in 0..Len(s)] ==
            IF i = 0 THEN <<>>
            ELSE IF s[i] \in S THEN Append(taken[i - 1], s[i])
            ELSE taken[i - 1]
    IN  taken[Len(s)]
=============================================================================
