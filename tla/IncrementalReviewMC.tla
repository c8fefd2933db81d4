------------------------- MODULE IncrementalReviewMC -------------------------
(* A small instance of IncrementalReview for TLC: rules that match the line  *)
(* "bad", two of them in a row, and "bad" at the start of a block, as        *)
(* SELECT\s+\* may span two lines and ^\t stands at the start of a text; and *)
(* a warning without a pattern.                                              *)
EXTENDS IncrementalReview

MatchesBad ==
  [one_line  |-> {text \in Texts : \E i \in DOMAIN text : text[i] = "bad"},
   two_lines |-> {text \in Texts : HasPart(text, <<"bad", "bad">>)},
   anchored  |-> {text \in Texts : text[1] = "bad"}]
=============================================================================
