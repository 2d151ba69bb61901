--------------------------- MODULE MCRequestBudget ---------------------------
(* Values for the constants of RequestBudget that a cfg cannot write.       *)
EXTENDS RequestBudget, TLC

CONSTANTS c1, c2

OneProcess == c1 :> "p" @@ c2 :> "p"
=============================================================================
