----------------------------- MODULE Deployment -----------------------------
(***************************************************************************)
(* Delivery while instances come up on a database of an earlier release:    *)
(* app/notification_schema.py installs the two notification ledgers before  *)
(* an instance delivers anything, and events that were recorded before the  *)
(* column delivered_at existed count as delivered.  A worker of Delivery is *)
(* here an instance that makes one call after another; its steps are those  *)
(* of Delivery, restricted to the events that are recorded and open.        *)
(***************************************************************************)
EXTENDS Delivery

VARIABLES
    schema,         \* the parts of the schema that are installed
    recorded,       \* rows of match_events
    historical,     \* history: those from before delivered_at
    stamped,        \* rows whose delivered_at was set by the upgrade itself
    upgradeLock,    \* holder of the advisory lock of the upgrades
    doing,          \* the part an instance is at, or "ready" to deliver
    step            \* looking, waiting for the lock, or holding it

upgrade == <<schema, recorded, historical, stamped, upgradeLock, doing, step>>
deploymentVars == <<vars, upgrade>>

Parts == {"receipts", "outcomes"}

DeploymentInit ==
    /\ Init
    /\ schema \in {{}, {"receipts"}}
    /\ recorded = {}
    /\ historical = {}
    /\ stamped = {}
    /\ upgradeLock = None
    /\ doing = [w \in Worker |-> "receipts"]
    /\ step = [w \in Worker |-> "look"]

----------------------------------------------------------------------------
(* _ensure_receipts_schema, then the rest of _ensure_schema: a check, and   *)
(* the same check again under the lock.                                     *)

Forward(w) ==
    /\ doing' = [doing EXCEPT ![w] = IF @ = "receipts" THEN "outcomes" ELSE "ready"]
    /\ step' = [step EXCEPT ![w] = "look"]

Look(w) ==
    /\ doing[w] # "ready"
    /\ step[w] = "look"
    /\ IF doing[w] \in schema
       THEN Forward(w)
       ELSE step' = [step EXCEPT ![w] = "wait"] /\ UNCHANGED doing
    /\ UNCHANGED <<vars, schema, recorded, historical, stamped, upgradeLock>>

LockUpgrade(w) ==
    /\ step[w] = "wait"
    /\ upgradeLock = None
    /\ upgradeLock' = w
    /\ step' = [step EXCEPT ![w] = "locked"]
    /\ UNCHANGED <<vars, schema, recorded, historical, stamped, doing>>

\* Mutant of Install: neither the check under the lock nor IF NOT EXISTS.
InstallAgain(w) ==
    /\ step[w] = "locked"
    /\ schema' = schema \cup {doing[w]}
    /\ stamped' = IF doing[w] = "receipts" THEN stamped \cup recorded ELSE stamped
    /\ upgradeLock' = None
    /\ Forward(w)
    /\ UNCHANGED <<vars, recorded, historical>>

\* The new column has the default now() for the rows that are there, and none
\* for the rows to come.
Install(w) ==
    /\ step[w] = "locked"
    /\ schema' = schema \cup {doing[w]}
    /\ stamped' = IF doing[w] = "receipts" /\ "receipts" \notin schema THEN recorded ELSE stamped
    /\ upgradeLock' = None
    /\ Forward(w)
    /\ UNCHANGED <<vars, recorded, historical>>

FromTheStart(w) ==
    /\ doing' = [doing EXCEPT ![w] = "receipts"]
    /\ step' = [step EXCEPT ![w] = "look"]

\* The instance stops during an upgrade, which rolls back.
Abort(w) ==
    /\ doing[w] # "ready"
    /\ step[w] # "look"
    /\ FromTheStart(w)
    /\ upgradeLock' = IF upgradeLock = w THEN None ELSE upgradeLock
    /\ UNCHANGED <<vars, schema, recorded, historical, stamped>>

\* A cron run is over; the next one begins with the schema.
NextRun(w) ==
    /\ doing[w] = "ready"
    /\ pc[w] = "idle"
    /\ FromTheStart(w)
    /\ UNCHANGED <<vars, schema, recorded, historical, stamped, upgradeLock>>

----------------------------------------------------------------------------

\* record_event_if_new, by a poller of any release.
RecordEvent(e) ==
    /\ e \notin recorded
    /\ recorded' = recorded \cup {e}
    /\ historical' = IF "receipts" \in schema THEN historical ELSE historical \cup {e}
    /\ UNCHANGED <<vars, schema, stamped, upgradeLock, doing, step>>

\* A call finds delivered_at of its event unset, and is made after the upgrade.
Deliver(w) ==
    /\ doing[w] = "ready"
    /\ WorkerStep(w)
    /\ pc[w] = "idle" => ev'[w] \in recorded \ stamped
    /\ UNCHANGED upgrade

DeploymentNext ==
    \/ UserStep /\ UNCHANGED upgrade
    \/ \E e \in Event : RecordEvent(e)
    \/ \E w \in Worker :
        \/ Look(w)
        \/ LockUpgrade(w)
        \/ Install(w)
        \/ Abort(w)
        \/ NextRun(w)
        \/ Deliver(w)

DeploymentSpec == DeploymentInit /\ [][DeploymentNext]_deploymentVars

----------------------------------------------------------------------------

\* README: previously recorded events are treated as historical during
\* migration and are not replayed.  No call is ever made for one, however many
\* instances upgrade at once, stop and start again; and what was recorded after
\* the upgrade is never closed by it, without an alert.
HistoryStaysSilent ==
    /\ \A w \in Worker : ev[w] \notin historical
    /\ stamped \subseteq historical
=============================================================================
