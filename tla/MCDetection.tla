---------------------------- MODULE MCDetection ----------------------------
(* Small instances of Detection: one match with a few goals and a card.     *)
EXTENDS Detection

CONSTANTS p1, p2, g1, g2, c1

ASide == [x \in Goal \cup Card |-> IF x = c1 THEN "away" ELSE "home"]

\* Discovered before kick-off, or with a goal on the score.
EarlyOrLate == {<<>>, <<g1>>}
\* Discovered with a goal on the score.
Late == {<<g1>>}
\* Discovered before kick-off.
Early == {<<>>}
=============================================================================
