----------------------------- MODULE MCDiscovery -----------------------------
(* Two teams that meet tomorrow; one of them also plays today.  The plan ends    *)
(* before the third date.                                                        *)
EXTENDS Discovery

CONSTANTS a, b, today, tomorrow

MCTeam == {a, b}
MCFixture == {today, tomorrow}
MCPlays == [f \in MCFixture |-> IF f = today THEN {a} ELSE {a, b}]
MCDay == [f \in MCFixture |-> IF f = today THEN 0 ELSE 1]
MCPlanDays == {0, 1}
=============================================================================
