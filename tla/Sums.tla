-------------------------------- MODULE Sums --------------------------------
(***************************************************************************)
(* Positions in a byte stream that is made of pieces of different sizes.   *)
(***************************************************************************)
EXTENDS Integers, Sequences

\* Where pieces of these sizes end when they are put one after the other.
Ends(sizes) ==
  LET end[k \in 0 .. Len(sizes)] == IF k = 0 THEN 0 ELSE end[k - 1] + sizes[k]
  IN end
=============================================================================
