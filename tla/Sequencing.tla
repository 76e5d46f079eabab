----------------------------- MODULE Sequencing -----------------------------
(* The loops that keep some elements of a list, in their order.  SelectSeq    *)
(* says the same of a test; of a set of elements, the laws of the result can  *)
(* be proved (SequenceProofs).                                                *)
EXTENDS Naturals, Sequences

(* The elements of s that are in T. *)
Only(s, T) ==
    LET only[i \in 0 .. Len(s)] ==
          IF i = 0 THEN << >>
          ELSE IF s[i] \in T THEN Append(only[i - 1], s[i])
          ELSE only[i - 1]
    IN  only[Len(s)]
=============================================================================
