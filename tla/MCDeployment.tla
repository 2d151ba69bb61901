----------------------------- MODULE MCDeployment -----------------------------
(* A small instance of Deployment: the two team events of one kick-off,     *)
(* recorded before or after the upgrade.                                    *)
EXTENDS Deployment, TLC

CONSTANTS w1, w2, kickA, kickB, goalA, p1, p2, teamA, teamB, u1, m1

AnEventMatch == [e \in Event |-> m1]
AnEventType == [e \in Event |-> IF e = goalA THEN "goal" ELSE "kickoff"]
AnEventTeam == [e \in Event |-> IF e = kickB THEN teamB ELSE teamA]
APushUser == [p \in Push |-> u1]

WorkerSymmetry == Permutations(Worker)
=============================================================================
