----------------------------- MODULE MCDelivery -----------------------------
(* Small instances of Delivery: the two team events of one kick-off and,    *)
(* in the larger instance, a goal of the same match.                        *)
EXTENDS Delivery, TLC

CONSTANTS w1, w2, kickA, kickB, goalA, p1, p2, teamA, teamB, u1, m1

AnEventMatch == [e \in Event |-> m1]
AnEventType == [e \in Event |-> IF e = goalA THEN "goal" ELSE "kickoff"]
AnEventTeam == [e \in Event |-> IF e = kickB THEN teamB ELSE teamA]
APushUser == [p \in Push |-> u1]

WorkerSymmetry == Permutations(Worker)
=============================================================================
