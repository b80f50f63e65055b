-------------------------------- MODULE Sums --------------------------------
(* Sums of sequences of whole numbers. *)
EXTENDS Integers, Sequences

Total(s) ==
  LET t[i \in 0..Len(s)] == IF i = 0 THEN 0 ELSE t[i - 1] + s[i]
  IN t[Len(s)]
=============================================================================
