------------------------------- MODULE Lists --------------------------------
(* Loops over lists.                                                       *)
EXTENDS Naturals, Sequences

(* A loop that appends the elements of s that are in S to an empty list.   *)
Filtered(s, S) ==
  LET kept[n \in 0..Len(s)] ==
        IF n = 0 THEN <<>>
        ELSE IF s[n] \in S THEN Append(kept[n - 1], s[n])
        ELSE kept[n - 1]
  IN  kept[Len(s)]
=============================================================================
