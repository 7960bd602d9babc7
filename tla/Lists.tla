------------------------------- MODULE Lists -------------------------------
(***************************************************************************)
(* Parts of a list: the loops of the program that append to a new list the *)
(* items of another one that meet a condition.  A recursive function and a *)
(* set of positions take the place of SelectSeq and its predicate, of      *)
(* which nothing can be proved.                                            *)
(***************************************************************************)
EXTENDS Integers, Sequences

\* The elements of s whose positions are in I, in their order.
Kept(s, I) ==
    LET kept[n \in 0 .. Len(s)] ==
            IF n = 0 THEN <<>>
            ELSE IF n \in I THEN Append(kept[n - 1], s[n]) ELSE kept[n - 1]
    IN  kept[Len(s)]

=============================================================================
