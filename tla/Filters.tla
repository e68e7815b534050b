------------------------------- MODULE Filters -------------------------------
(***************************************************************************)
(* What Array.filter leaves of a list.  SelectSeq says the same; this one  *)
(* is a recursive function, of which facts can be proved for every list.   *)
(***************************************************************************)
EXTENDS Naturals, Sequences

\* The members of s that are in T, in their order.
Those(s, T) ==
    LET those[n \in 0..Len(s)] ==
            IF n = 0 THEN <<>>
            ELSE IF s[n] \in T THEN Append(those[n - 1], s[n]) ELSE those[n - 1]
    IN those[Len(s)]
=============================================================================
