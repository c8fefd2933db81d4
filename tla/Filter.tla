------------------------------- MODULE Filter -------------------------------
(* Array.prototype.filter, as the sessions of the coding agent use it.       *)
EXTENDS Integers, Sequences

(* The elements of s that are in kept, in their order: what filter() gives.  *)
Only(s, kept) ==
  LET upTo[n \in 0..Len(s)] ==
        IF n = 0 THEN <<>>
        ELSE IF s[n] \in kept THEN Append(upTo[n-1], s[n]) ELSE upTo[n-1]
  IN  upTo[Len(s)]
=============================================================================
