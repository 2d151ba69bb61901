---------------------------- MODULE MCPollSchedule ----------------------------
(* Two fixtures of one date, with the policy's constants scaled down: one with *)
(* a fixed kickoff, one whose kickoff is unknown until discovery stores it.    *)
EXTENDS PollSchedule

CONSTANTS m1, m2

MCMatch == {m1, m2}
MCKickoffs == [m \in MCMatch |-> IF m = m1 THEN {1} ELSE {NoTime, 2}]
=============================================================================
