--------------------------------- MODULE Parts ---------------------------------
(* Subsequences by index, as a recursive function, which can be proved about.  *)
EXTENDS Integers, Sequences

(* The elements of s at the indices I, in their order.                     *)
Part(s, I) ==
  LET part[n \in 0..Len(s)] ==
        IF n = 0 THEN <<>> ELSE IF n \in I THEN Append(part[n - 1], s[n]) ELSE part[n - 1]
  IN  part[Len(s)]
================================================================================
