---------------------------- MODULE AlertLedger ----------------------------
(***************************************************************************)
(* What alert delivery promises, without workers, locks or transactions:    *)
(* an alert (a slot: one goal, one card, one kick-off of a match) is open    *)
(* towards a device at most once at a time, never after its outcome is       *)
(* recorded, and an event is not closed over an open alert.                  *)
(***************************************************************************)
EXTENDS Naturals

CONSTANTS Event, Push, SlotOf

VARIABLES
    processed,      \* events that are closed
    registered,     \* devices that exist
    known,          \* devices that ever existed
    outcomes,       \* <<event, push>>: recorded outcomes
    open,           \* <<event, push>>: taken by the service, not recorded yet
    accepted,       \* how often the service took the alert of a slot
    lost            \* how many of those were never recorded

vars == <<processed, registered, known, outcomes, open, accepted, lost>>

SlotSet == {SlotOf[e] : e \in Event}

Init ==
    /\ processed = [e \in Event |-> FALSE]
    /\ registered \subseteq Push
    /\ known = registered
    /\ outcomes = {}
    /\ open = {}
    /\ accepted = [sp \in SlotSet \X Push |-> 0]
    /\ lost = [sp \in SlotSet \X Push |-> 0]

\* The alert may be offered to the device.
Clear(e, p) ==
    /\ ~ processed[e]
    /\ \A f \in Event : SlotOf[f] = SlotOf[e] => <<f, p>> \notin outcomes \cup open

Accept(e, p) ==
    /\ Clear(e, p)
    /\ open' = open \cup {<<e, p>>}
    /\ accepted' = [accepted EXCEPT ![<<SlotOf[e], p>>] = @ + 1]
    /\ UNCHANGED <<processed, registered, known, outcomes, lost>>

AcceptUnrecorded(e, p) ==
    /\ Clear(e, p)
    /\ accepted' = [accepted EXCEPT ![<<SlotOf[e], p>>] = @ + 1]
    /\ lost' = [lost EXCEPT ![<<SlotOf[e], p>>] = @ + 1]
    /\ UNCHANGED <<processed, registered, known, outcomes, open>>

Record(e, p) ==
    /\ <<e, p>> \in open
    /\ open' = open \ {<<e, p>>}
    /\ outcomes' = outcomes \cup ({<<e, p>>} \cap (Event \X registered))
    /\ UNCHANGED <<processed, registered, known, accepted, lost>>

Lose(e, p) ==
    /\ <<e, p>> \in open
    /\ open' = open \ {<<e, p>>}
    /\ lost' = [lost EXCEPT ![<<SlotOf[e], p>>] = @ + 1]
    /\ UNCHANGED <<processed, registered, known, outcomes, accepted>>

Refuse(e, p) ==
    /\ Clear(e, p)
    /\ outcomes' = outcomes \cup ({<<e, p>>} \cap (Event \X registered))
    /\ UNCHANGED <<processed, registered, known, open, accepted, lost>>

Forget(p) ==
    /\ registered' = registered \ {p}
    /\ outcomes' = {r \in outcomes : r[2] # p}
    /\ UNCHANGED <<processed, known, open, accepted, lost>>

Enroll(p) ==
    /\ p \notin known
    /\ registered' = registered \cup {p}
    /\ known' = known \cup {p}
    /\ UNCHANGED <<processed, outcomes, open, accepted, lost>>

Process(e) ==
    /\ \A p \in Push : <<e, p>> \notin open
    /\ processed' = [processed EXCEPT ![e] = TRUE]
    /\ UNCHANGED <<registered, known, outcomes, open, accepted, lost>>

Next ==
    \/ \E e \in Event : Process(e)
    \/ \E p \in Push : Forget(p) \/ Enroll(p)
    \/ \E e \in Event, p \in Push :
          \/ Accept(e, p)
          \/ AcceptUnrecorded(e, p)
          \/ Record(e, p)
          \/ Lose(e, p)
          \/ Refuse(e, p)

Spec == Init /\ [][Next]_vars
=============================================================================
