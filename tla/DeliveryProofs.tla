--------------------------- MODULE DeliveryProofs ---------------------------
(* Theorems about Delivery, for any numbers of workers, events and devices,   *)
(* and about Deployment, which adds the upgrade of the schema: it implements   *)
(* Delivery, so that every theorem about Delivery holds for it, and no event   *)
(* from before the upgrade is ever taken up.                                   *)
EXTENDS Deployment, TLAPS

----------------------------------------------------------------------------
(* Slots.                                                                   *)

\* Every event's alert is one of the slots that are counted.
LEMMA SlotInSlots == \A e \in Event : Slot(e) \in Slots
  BY DEF Slots

\* Events of one slot are of one match and one type; a goal or a card has a
\* slot to itself.
LEMMA SameSlot ==
    ASSUME NEW e \in Event, NEW f \in Event, Slot(e) = Slot(f)
    PROVE  /\ EventMatch[e] = EventMatch[f]
           /\ Lifecycle(e) <=> Lifecycle(f)
           /\ ~ Lifecycle(e) => e = f
<1>1. EventMatch[e] = EventMatch[f] /\ EventType[e] = EventType[f]
  BY DEF Slot
<1>2. Lifecycle(e) <=> Lifecycle(f)
  BY <1>1 DEF Lifecycle
<1>3. ASSUME ~ Lifecycle(e) PROVE e = f
  BY <1>2, <1>3 DEF Slot
<1> QED
  BY <1>1, <1>2, <1>3

\* Counting one more keeps a table of naturals one.
LEMMA CountOneMore ==
    ASSUME NEW D, NEW f \in [D -> Nat], NEW k
    PROVE  [f EXCEPT ![k] = @ + 1] \in [D -> Nat]
<1> DEFINE g == [f EXCEPT ![k] = @ + 1]
<1>1. ASSUME NEW x \in D PROVE g[x] \in Nat
  <2>1. CASE x = k
    BY <2>1
  <2>2. CASE x # k
    BY <2>2
  <2> QED
    BY <2>1, <2>2
<1>2. g = [x \in D |-> g[x]]
  OBVIOUS
<1> HIDE DEF g
<1>3. g \in [D -> Nat]
  BY <1>1, <1>2
<1> QED
  BY <1>3 DEF g

----------------------------------------------------------------------------
(* Types.                                                                   *)

\* The tables, locks and histories start out with their types.
LEMMA InitType == Init => TypeOK
  BY DeliveryAssumption DEF Init, TypeOK, Topics

\* Every step of a worker or a user keeps the types.
LEMMA TypeStep == TypeOK /\ [Next]_vars => TypeOK'
<1> SUFFICES ASSUME TypeOK, [Next]_vars PROVE TypeOK'
  OBVIOUS
<1> USE DeliveryAssumption, SlotInSlots
<1>1. ASSUME NEW w \in Worker, NEW e \in Event, Start(w, e) PROVE TypeOK'
  BY <1>1 DEF TypeOK, Start, tables, locks, history
<1>2. ASSUME NEW w \in Worker, Resolve(w) PROVE TypeOK'
  BY <1>2 DEF TypeOK, Resolve, Targets, tables, locks, history
<1>3. ASSUME NEW w \in Worker, NEW p \in Push, NextDevice(w, p) PROVE TypeOK'
  BY <1>3 DEF TypeOK, NextDevice, tables, locks, history
<1>4. ASSUME NEW w \in Worker, LockMatch(w) PROVE TypeOK'
  BY <1>4 DEF TypeOK, LockMatch, tables, history
<1>5. ASSUME NEW w \in Worker, LockEvent(w) PROVE TypeOK'
  BY <1>5 DEF TypeOK, LockEvent, tables, history
<1>6. ASSUME NEW w \in Worker, SkipDevice(w) PROVE TypeOK'
  BY <1>6 DEF TypeOK, SkipDevice, EndDevice, Release, tables, history
<1>7. ASSUME NEW w \in Worker, SendAccepted(w) PROVE TypeOK'
  <2>1. accepted' \in [Slots \X Push -> Nat] /\ lost' \in [Slots \X Push -> Nat]
    BY <1>7, CountOneMore DEF TypeOK, SendAccepted, history
  <2> QED
    BY <1>7, <2>1 DEF TypeOK, SendAccepted, tables, locks
<1>8. ASSUME NEW w \in Worker, SendTerminal(w) PROVE TypeOK'
  BY <1>8 DEF TypeOK, SendTerminal, tables, locks, history
<1>9. ASSUME NEW w \in Worker, SendExpired(w) PROVE TypeOK'
  BY <1>9 DEF TypeOK, SendExpired, DropPush, EndDevice, Release, history
<1>10. ASSUME NEW w \in Worker, SendRetry(w) PROVE TypeOK'
  BY <1>10 DEF TypeOK, SendRetry, EndDevice, Release, tables, history
<1>11. ASSUME NEW w \in Worker, SendLost(w) PROVE TypeOK'
  <2>1. accepted' \in [Slots \X Push -> Nat] /\ lost' \in [Slots \X Push -> Nat]
    BY <1>11, CountOneMore DEF TypeOK, SendLost, history
  <2> QED
    BY <1>11, <2>1 DEF TypeOK, SendLost, EndDevice, Release, tables
<1>12. ASSUME NEW w \in Worker, CommitDevice(w) PROVE TypeOK'
  BY <1>12 DEF TypeOK, CommitDevice, EndDevice, Release, history
<1>13. ASSUME NEW w \in Worker, GiveUp(w) PROVE TypeOK'
  BY <1>13 DEF TypeOK, GiveUp, Leave, tables, locks, history
<1>14. ASSUME NEW w \in Worker, Complete(w) PROVE TypeOK'
  BY <1>14 DEF TypeOK, Complete, Leave, locks, history
<1>15. ASSUME NEW w \in Worker, Crash(w) PROVE TypeOK'
  <2>1. accepted' \in [Slots \X Push -> Nat] /\ lost' \in [Slots \X Push -> Nat]
    <3> DEFINE k == <<Slot(ev[w]), cur[w]>>
    <3>1. /\ [accepted EXCEPT ![k] = @ + 1] \in [Slots \X Push -> Nat]
          /\ [lost EXCEPT ![k] = @ + 1] \in [Slots \X Push -> Nat]
      BY CountOneMore DEF TypeOK
    <3>2. /\ accepted' \in {accepted, [accepted EXCEPT ![k] = @ + 1]}
          /\ lost' \in {lost, [lost EXCEPT ![k] = @ + 1]}
      BY <1>15 DEF Crash, history
    <3> HIDE DEF k
    <3> QED
      BY <3>1, <3>2 DEF TypeOK
  <2> QED
    BY <1>15, <2>1 DEF TypeOK, Crash, Leave, Release, tables, history
<1>16. ASSUME NEW u \in User, NEW t \in Team, NEW topics \in SUBSET Topics,
              EditFollowing(u, t, topics)
       PROVE TypeOK'
  BY <1>16 DEF TypeOK, EditFollowing, Edit, locks, worker, history
<1>17. ASSUME NEW u \in User, NEW m \in Match, ToggleMute(u, m) PROVE TypeOK'
  BY <1>17 DEF TypeOK, ToggleMute, Edit, locks, worker, history
<1>18. ASSUME NEW p \in Push, RegisterDevice(p) PROVE TypeOK'
  BY <1>18 DEF TypeOK, RegisterDevice, Edit, locks, worker, history
<1>19. ASSUME NEW p \in Push, RemoveDevice(p) PROVE TypeOK'
  BY <1>19 DEF TypeOK, RemoveDevice, DropPush, Edit, locks, worker, history
<1>20. CASE UNCHANGED vars
  BY <1>20 DEF TypeOK, vars, tables, locks, worker, history
<1> QED
  BY <1>1, <1>2, <1>3, <1>4, <1>5, <1>6, <1>7, <1>8, <1>9, <1>10, <1>11, <1>12,
     <1>13, <1>14, <1>15, <1>16, <1>17, <1>18, <1>19, <1>20
  DEF Next, WorkerStep, UserStep

\* Every variable keeps its type.
THEOREM TypeCorrect == Spec => []TypeOK
  BY InitType, TypeStep, PTL DEF Spec

----------------------------------------------------------------------------
(* The inductive invariant.                                                 *)

\* A call under way has an event, and a device once it has picked one.
WorkerInv ==
    \A w \in Worker :
        /\ pc[w] # "idle" => ev[w] \in Event
        /\ pc[w] \in {"match", "event", "send", "commit"} => cur[w] \in Push
        /\ pc[w] = "commit" => result[w] \in {"accepted", "terminal"}

\* From the re-check to the receipt the event row is locked and, for a
\* lifecycle alert, the match row, which is locked first.
LockInv ==
    \A w \in Worker :
        /\ Sending(w) => eventLock[ev[w]] = w
        /\ (Sending(w) \/ pc[w] = "event") /\ Lifecycle(ev[w])
              => matchLock[EventMatch[ev[w]]] = w

\* What the re-check found stays true up to the receipt.
RecheckInv ==
    \A w \in Worker : Sending(w) => ~ delivered[ev[w]] /\ ~ Settled(ev[w], cur[w])

\* Ids are not reused: receipts and workers only know ids handed out already.
IdInv ==
    /\ pushes \subseteq usedIds
    /\ \A w \in Worker : todo[w] \subseteq usedIds /\ cur[w] \in usedIds \cup {None}
    /\ receipts \cup terminals \subseteq Event \X pushes
    /\ \A s \in Slots, p \in Push \ usedIds : accepted[<<s, p>>] = 0

\* An acceptance not yet matched by a receipt.
InFlight(w) == pc[w] = "commit" /\ result[w] = "accepted"

\* A receipt, or the open transaction about to write it, stands for the one
\* acceptance that is not lost.
Counted(s, p) ==
    \/ \E e \in Event : Slot(e) = s /\ <<e, p>> \in receipts
    \/ \E w \in Worker : InFlight(w) /\ Slot(ev[w]) = s /\ cur[w] = p

CountInv ==
    \A s \in Slots, p \in pushes :
        /\ accepted[<<s, p>>] <= lost[<<s, p>>] + 1
        /\ accepted[<<s, p>>] > lost[<<s, p>>] => Counted(s, p)

\* The conjunction is inductive; AtMostOncePlusLost alone is not, since a step
\* may count an acceptance on top of one the tables have no trace of.
IInv ==
    /\ TypeOK
    /\ WorkerInv
    /\ LockInv
    /\ RecheckInv
    /\ IdInv
    /\ OneOutcome
    /\ CountInv

\* A call keeps its event to its end, and its device until the device is done.
LEMMA WorkerStepInv == TypeOK /\ WorkerInv /\ [Next]_vars => WorkerInv'
<1> SUFFICES ASSUME TypeOK, WorkerInv, [Next]_vars PROVE WorkerInv'
  OBVIOUS
<1> USE DeliveryAssumption DEF TypeOK, WorkerInv
<1>1. ASSUME NEW w \in Worker, NEW e \in Event, Start(w, e) PROVE WorkerInv'
  BY <1>1 DEF Start, tables, locks, history
<1>2. ASSUME NEW w \in Worker, Resolve(w) PROVE WorkerInv'
  BY <1>2 DEF Resolve, Targets, tables, locks, history
<1>3. ASSUME NEW w \in Worker, NEW p \in Push, NextDevice(w, p) PROVE WorkerInv'
  BY <1>3 DEF NextDevice, tables, locks, history
<1>4. ASSUME NEW w \in Worker, LockMatch(w) PROVE WorkerInv'
  BY <1>4 DEF LockMatch, tables, history
<1>5. ASSUME NEW w \in Worker, LockEvent(w) PROVE WorkerInv'
  BY <1>5 DEF LockEvent, tables, history
<1>6. ASSUME NEW w \in Worker, SkipDevice(w) PROVE WorkerInv'
  BY <1>6 DEF SkipDevice, EndDevice, Release, tables, history
<1>7. ASSUME NEW w \in Worker, SendAccepted(w) PROVE WorkerInv'
  BY <1>7 DEF SendAccepted, tables, locks
<1>8. ASSUME NEW w \in Worker, SendTerminal(w) PROVE WorkerInv'
  BY <1>8 DEF SendTerminal, tables, locks, history
<1>9. ASSUME NEW w \in Worker, SendExpired(w) PROVE WorkerInv'
  BY <1>9 DEF SendExpired, DropPush, EndDevice, Release, history
<1>10. ASSUME NEW w \in Worker, SendRetry(w) PROVE WorkerInv'
  BY <1>10 DEF SendRetry, EndDevice, Release, tables, history
<1>11. ASSUME NEW w \in Worker, SendLost(w) PROVE WorkerInv'
  BY <1>11 DEF SendLost, EndDevice, Release, tables
<1>12. ASSUME NEW w \in Worker, CommitDevice(w) PROVE WorkerInv'
  BY <1>12 DEF CommitDevice, EndDevice, Release, history
<1>13. ASSUME NEW w \in Worker, GiveUp(w) PROVE WorkerInv'
  BY <1>13 DEF GiveUp, Leave, tables, locks, history
<1>14. ASSUME NEW w \in Worker, Complete(w) PROVE WorkerInv'
  BY <1>14 DEF Complete, Leave, locks, history
<1>15. ASSUME NEW w \in Worker, Crash(w) PROVE WorkerInv'
  BY <1>15 DEF Crash, Leave, Release, tables, history
<1>16. ASSUME NEW u \in User, NEW t \in Team, NEW topics \in SUBSET Topics,
              EditFollowing(u, t, topics)
       PROVE WorkerInv'
  BY <1>16 DEF EditFollowing, Edit, locks, worker, history
<1>17. ASSUME NEW u \in User, NEW m \in Match, ToggleMute(u, m) PROVE WorkerInv'
  BY <1>17 DEF ToggleMute, Edit, locks, worker, history
<1>18. ASSUME NEW p \in Push, RegisterDevice(p) PROVE WorkerInv'
  BY <1>18 DEF RegisterDevice, Edit, locks, worker, history
<1>19. ASSUME NEW p \in Push, RemoveDevice(p) PROVE WorkerInv'
  BY <1>19 DEF RemoveDevice, DropPush, Edit, locks, worker, history
<1>20. CASE UNCHANGED vars
  BY <1>20 DEF vars, tables, locks, worker, history
<1> QED
  BY <1>1, <1>2, <1>3, <1>4, <1>5, <1>6, <1>7, <1>8, <1>9, <1>10, <1>11, <1>12,
     <1>13, <1>14, <1>15, <1>16, <1>17, <1>18, <1>19, <1>20
  DEF Next, WorkerStep, UserStep

\* A lock is taken before the state that needs it and given back only after it.
LEMMA LockStepInv == TypeOK /\ WorkerInv /\ LockInv /\ [Next]_vars => LockInv'
<1> SUFFICES ASSUME TypeOK, WorkerInv, LockInv, [Next]_vars PROVE LockInv'
  OBVIOUS
<1> USE DeliveryAssumption DEF TypeOK, WorkerInv, LockInv, Sending, Lifecycle
<1>1. ASSUME NEW w \in Worker, NEW e \in Event, Start(w, e) PROVE LockInv'
  BY <1>1 DEF Start, tables, locks, history
<1>2. ASSUME NEW w \in Worker, Resolve(w) PROVE LockInv'
  BY <1>2 DEF Resolve, Targets, tables, locks, history
<1>3. ASSUME NEW w \in Worker, NEW p \in Push, NextDevice(w, p) PROVE LockInv'
  BY <1>3 DEF NextDevice, tables, locks, history
<1>4. ASSUME NEW w \in Worker, LockMatch(w) PROVE LockInv'
  BY <1>4 DEF LockMatch, tables, history
<1>5. ASSUME NEW w \in Worker, LockEvent(w) PROVE LockInv'
  BY <1>5 DEF LockEvent, tables, history
<1>6. ASSUME NEW w \in Worker, SkipDevice(w) PROVE LockInv'
  BY <1>6 DEF SkipDevice, EndDevice, Release, tables, history
<1>7. ASSUME NEW w \in Worker, SendAccepted(w) PROVE LockInv'
  BY <1>7 DEF SendAccepted, tables, locks
<1>8. ASSUME NEW w \in Worker, SendTerminal(w) PROVE LockInv'
  BY <1>8 DEF SendTerminal, tables, locks, history
<1>9. ASSUME NEW w \in Worker, SendExpired(w) PROVE LockInv'
  BY <1>9 DEF SendExpired, DropPush, EndDevice, Release, history
<1>10. ASSUME NEW w \in Worker, SendRetry(w) PROVE LockInv'
  BY <1>10 DEF SendRetry, EndDevice, Release, tables, history
<1>11. ASSUME NEW w \in Worker, SendLost(w) PROVE LockInv'
  BY <1>11 DEF SendLost, EndDevice, Release, tables
<1>12. ASSUME NEW w \in Worker, CommitDevice(w) PROVE LockInv'
  BY <1>12 DEF CommitDevice, EndDevice, Release, history
<1>13. ASSUME NEW w \in Worker, GiveUp(w) PROVE LockInv'
  BY <1>13 DEF GiveUp, Leave, tables, locks, history
<1>14. ASSUME NEW w \in Worker, Complete(w) PROVE LockInv'
  BY <1>14 DEF Complete, Leave, locks, history
<1>15. ASSUME NEW w \in Worker, Crash(w) PROVE LockInv'
  BY <1>15 DEF Crash, Leave, Release, tables, history
<1>16. ASSUME NEW u \in User, NEW t \in Team, NEW topics \in SUBSET Topics,
              EditFollowing(u, t, topics)
       PROVE LockInv'
  BY <1>16 DEF EditFollowing, Edit, locks, worker, history
<1>17. ASSUME NEW u \in User, NEW m \in Match, ToggleMute(u, m) PROVE LockInv'
  BY <1>17 DEF ToggleMute, Edit, locks, worker, history
<1>18. ASSUME NEW p \in Push, RegisterDevice(p) PROVE LockInv'
  BY <1>18 DEF RegisterDevice, Edit, locks, worker, history
<1>19. ASSUME NEW p \in Push, RemoveDevice(p) PROVE LockInv'
  BY <1>19 DEF RemoveDevice, DropPush, Edit, locks, worker, history
<1>20. CASE UNCHANGED vars
  BY <1>20 DEF vars, tables, locks, worker, history
<1> QED
  BY <1>1, <1>2, <1>3, <1>4, <1>5, <1>6, <1>7, <1>8, <1>9, <1>10, <1>11, <1>12,
     <1>13, <1>14, <1>15, <1>16, <1>17, <1>18, <1>19, <1>20
  DEF Next, WorkerStep, UserStep

\* Two sending workers with one slot would both own its match row or its event row.
LEMMA LockedSends == TypeOK /\ WorkerInv /\ LockInv => SerializedSends
<1> SUFFICES ASSUME TypeOK, WorkerInv, LockInv,
                    NEW v \in Worker, NEW w \in Worker, v # w, Sending(v), Sending(w),
                    Slot(ev[v]) = Slot(ev[w])
             PROVE  FALSE
  BY DEF SerializedSends
<1>1. ev[v] \in Event /\ ev[w] \in Event
  BY DEF WorkerInv, Sending
<1>2. eventLock[ev[v]] = v /\ eventLock[ev[w]] = w
  BY DEF LockInv
<1>3. CASE Lifecycle(ev[v])
  BY <1>1, <1>3, SameSlot DEF LockInv
<1>4. CASE ~ Lifecycle(ev[v])
  BY <1>1, <1>2, <1>4, SameSlot
<1> QED
  BY <1>3, <1>4

\* Nobody else can write an outcome of a slot whose locks are held.
LEMMA RecheckStepInv ==
    TypeOK /\ WorkerInv /\ LockInv /\ RecheckInv /\ [Next]_vars => RecheckInv'
<1> SUFFICES ASSUME TypeOK, WorkerInv, LockInv, RecheckInv, SerializedSends, [Next]_vars
             PROVE  RecheckInv'
  BY LockedSends
<1>0. ASSUME receipts' \cup terminals' \subseteq receipts \cup terminals,
             delivered' = delivered,
             \A v \in Worker : Sending(v)' =>
                 Sending(v) /\ ev'[v] = ev[v] /\ cur'[v] = cur[v]
      PROVE  RecheckInv'
  BY <1>0 DEF RecheckInv, Settled
<1> USE DeliveryAssumption DEF TypeOK, Sending
<1>1. ASSUME NEW w \in Worker, NEW e \in Event, Start(w, e) PROVE RecheckInv'
  BY <1>0, <1>1 DEF Start, tables, locks, history
<1>2. ASSUME NEW w \in Worker, Resolve(w) PROVE RecheckInv'
  BY <1>0, <1>2 DEF Resolve, Targets, tables, locks, history
<1>3. ASSUME NEW w \in Worker, NEW p \in Push, NextDevice(w, p) PROVE RecheckInv'
  BY <1>0, <1>3 DEF NextDevice, tables, locks, history
<1>4. ASSUME NEW w \in Worker, LockMatch(w) PROVE RecheckInv'
  BY <1>0, <1>4 DEF LockMatch, tables, history
<1>5. ASSUME NEW w \in Worker, LockEvent(w) PROVE RecheckInv'
  BY <1>5 DEF RecheckInv, Settled, NeedsSend, LockEvent, tables
<1>6. ASSUME NEW w \in Worker, SkipDevice(w) PROVE RecheckInv'
  BY <1>0, <1>6 DEF SkipDevice, EndDevice, Release, tables, history
<1>7. ASSUME NEW w \in Worker, SendAccepted(w) PROVE RecheckInv'
  BY <1>0, <1>7 DEF SendAccepted, tables, locks
<1>8. ASSUME NEW w \in Worker, SendTerminal(w) PROVE RecheckInv'
  BY <1>0, <1>8 DEF SendTerminal, tables, locks, history
<1>9. ASSUME NEW w \in Worker, SendExpired(w) PROVE RecheckInv'
  BY <1>0, <1>9 DEF SendExpired, DropPush, EndDevice, Release, history
<1>10. ASSUME NEW w \in Worker, SendRetry(w) PROVE RecheckInv'
  BY <1>0, <1>10 DEF SendRetry, EndDevice, Release, tables, history
<1>11. ASSUME NEW w \in Worker, SendLost(w) PROVE RecheckInv'
  BY <1>0, <1>11 DEF SendLost, EndDevice, Release, tables
<1>12. ASSUME NEW w \in Worker, CommitDevice(w) PROVE RecheckInv'
  <2> SUFFICES ASSUME NEW v \in Worker, Sending(v)'
               PROVE  ~ delivered'[ev'[v]] /\ ~ Settled(ev[v], cur[v])'
    BY DEF RecheckInv
  <2>1. /\ v # w /\ Sending(v)
        /\ ev'[v] = ev[v] /\ cur'[v] = cur[v] /\ delivered' = delivered
    BY <1>12 DEF CommitDevice, EndDevice
  <2>2. Slot(ev[v]) # Slot(ev[w])
    BY <1>12, <2>1 DEF SerializedSends, CommitDevice
  <2>3. receipts' \cup terminals' \subseteq receipts \cup terminals \cup {<<ev[w], cur[w]>>}
    BY <1>12 DEF CommitDevice
  <2>4. ~ delivered[ev[v]] /\ ~ Settled(ev[v], cur[v])
    BY <2>1 DEF RecheckInv
  <2> QED
    BY <2>1, <2>2, <2>3, <2>4 DEF Settled
<1>13. ASSUME NEW w \in Worker, GiveUp(w) PROVE RecheckInv'
  BY <1>0, <1>13 DEF GiveUp, Leave, tables, locks, history
<1>14. ASSUME NEW w \in Worker, Complete(w) PROVE RecheckInv'
  <2> SUFFICES ASSUME NEW v \in Worker, Sending(v)'
               PROVE  ~ delivered'[ev'[v]] /\ ~ Settled(ev[v], cur[v])'
    BY DEF RecheckInv
  <2>1. /\ Sending(v) /\ ev[v] \in Event
        /\ ev'[v] = ev[v] /\ cur'[v] = cur[v]
        /\ receipts' = receipts /\ terminals' = terminals
    BY <1>14 DEF Complete, Leave, WorkerInv
  <2>2. ev[v] # ev[w]
    BY <1>14, <2>1 DEF Complete, LockInv
  <2>3. ~ delivered[ev[v]] /\ ~ Settled(ev[v], cur[v])
    BY <2>1 DEF RecheckInv
  <2> QED
    BY <1>14, <2>1, <2>2, <2>3 DEF Settled, Complete
<1>15. ASSUME NEW w \in Worker, Crash(w) PROVE RecheckInv'
  BY <1>0, <1>15 DEF Crash, Leave, Release, tables, history
<1>16. ASSUME NEW u \in User, NEW t \in Team, NEW topics \in SUBSET Topics,
              EditFollowing(u, t, topics)
       PROVE RecheckInv'
  BY <1>0, <1>16 DEF EditFollowing, Edit, locks, worker, history
<1>17. ASSUME NEW u \in User, NEW m \in Match, ToggleMute(u, m) PROVE RecheckInv'
  BY <1>0, <1>17 DEF ToggleMute, Edit, locks, worker, history
<1>18. ASSUME NEW p \in Push, RegisterDevice(p) PROVE RecheckInv'
  BY <1>0, <1>18 DEF RegisterDevice, Edit, locks, worker, history
<1>19. ASSUME NEW p \in Push, RemoveDevice(p) PROVE RecheckInv'
  BY <1>0, <1>19 DEF RemoveDevice, DropPush, Edit, locks, worker, history
<1>20. CASE UNCHANGED vars
  BY <1>0, <1>20 DEF vars, tables, locks, worker, history
<1> QED
  BY <1>1, <1>2, <1>3, <1>4, <1>5, <1>6, <1>7, <1>8, <1>9, <1>10, <1>11, <1>12,
     <1>13, <1>14, <1>15, <1>16, <1>17, <1>18, <1>19, <1>20
  DEF Next, WorkerStep, UserStep

\* Ids of devices are never used again.
LEMMA IdStepInv == TypeOK /\ WorkerInv /\ IdInv /\ [Next]_vars => IdInv'
<1> SUFFICES ASSUME TypeOK, WorkerInv, IdInv, [Next]_vars PROVE IdInv'
  OBVIOUS
<1> USE DeliveryAssumption DEF TypeOK, WorkerInv, IdInv
<1>1. ASSUME NEW w \in Worker, NEW e \in Event, Start(w, e) PROVE IdInv'
  BY <1>1 DEF Start, tables, locks, history
<1>2. ASSUME NEW w \in Worker, Resolve(w) PROVE IdInv'
  BY <1>2 DEF Resolve, Targets, tables, locks, history
<1>3. ASSUME NEW w \in Worker, NEW p \in Push, NextDevice(w, p) PROVE IdInv'
  BY <1>3 DEF NextDevice, tables, locks, history
<1>4. ASSUME NEW w \in Worker, LockMatch(w) PROVE IdInv'
  BY <1>4 DEF LockMatch, tables, history
<1>5. ASSUME NEW w \in Worker, LockEvent(w) PROVE IdInv'
  BY <1>5 DEF LockEvent, tables, history
<1>6. ASSUME NEW w \in Worker, SkipDevice(w) PROVE IdInv'
  BY <1>6 DEF SkipDevice, EndDevice, Release, tables, history
<1>7. ASSUME NEW w \in Worker, SendAccepted(w) PROVE IdInv'
  BY <1>7 DEF SendAccepted, tables, locks
<1>8. ASSUME NEW w \in Worker, SendTerminal(w) PROVE IdInv'
  BY <1>8 DEF SendTerminal, tables, locks, history
<1>9. ASSUME NEW w \in Worker, SendExpired(w) PROVE IdInv'
  BY <1>9 DEF SendExpired, DropPush, EndDevice, Release, history
<1>10. ASSUME NEW w \in Worker, SendRetry(w) PROVE IdInv'
  BY <1>10 DEF SendRetry, EndDevice, Release, tables, history
<1>11. ASSUME NEW w \in Worker, SendLost(w) PROVE IdInv'
  BY <1>11 DEF SendLost, EndDevice, Release, tables
<1>12. ASSUME NEW w \in Worker, CommitDevice(w) PROVE IdInv'
  BY <1>12 DEF CommitDevice, EndDevice, Release, history
<1>13. ASSUME NEW w \in Worker, GiveUp(w) PROVE IdInv'
  BY <1>13 DEF GiveUp, Leave, tables, locks, history
<1>14. ASSUME NEW w \in Worker, Complete(w) PROVE IdInv'
  BY <1>14 DEF Complete, Leave, locks, history
<1>15. ASSUME NEW w \in Worker, Crash(w) PROVE IdInv'
  BY <1>15 DEF Crash, Leave, Release, tables, history
<1>16. ASSUME NEW u \in User, NEW t \in Team, NEW topics \in SUBSET Topics,
              EditFollowing(u, t, topics)
       PROVE IdInv'
  BY <1>16 DEF EditFollowing, Edit, locks, worker, history
<1>17. ASSUME NEW u \in User, NEW m \in Match, ToggleMute(u, m) PROVE IdInv'
  BY <1>17 DEF ToggleMute, Edit, locks, worker, history
<1>18. ASSUME NEW p \in Push, RegisterDevice(p) PROVE IdInv'
  BY <1>18 DEF RegisterDevice, Edit, locks, worker, history
<1>19. ASSUME NEW p \in Push, RemoveDevice(p) PROVE IdInv'
  BY <1>19 DEF RemoveDevice, DropPush, Edit, locks, worker, history
<1>20. CASE UNCHANGED vars
  BY <1>20 DEF vars, tables, locks, worker, history
<1> QED
  BY <1>1, <1>2, <1>3, <1>4, <1>5, <1>6, <1>7, <1>8, <1>9, <1>10, <1>11, <1>12,
     <1>13, <1>14, <1>15, <1>16, <1>17, <1>18, <1>19, <1>20
  DEF Next, WorkerStep, UserStep

\* An outcome is written only for a slot that the re-check found without one.
LEMMA OutcomeStepInv ==
    TypeOK /\ WorkerInv /\ RecheckInv /\ OneOutcome /\ [Next]_vars => OneOutcome'
<1> SUFFICES ASSUME TypeOK, WorkerInv, RecheckInv, OneOutcome, [Next]_vars
             PROVE  OneOutcome'
  OBVIOUS
<1>0. ASSUME receipts' \subseteq receipts, terminals' \subseteq terminals
      PROVE  OneOutcome'
  BY <1>0 DEF OneOutcome
<1> USE DeliveryAssumption DEF TypeOK
<1>1. ASSUME NEW w \in Worker, NEW e \in Event, Start(w, e) PROVE OneOutcome'
  BY <1>0, <1>1 DEF Start, tables, locks, history
<1>2. ASSUME NEW w \in Worker, Resolve(w) PROVE OneOutcome'
  BY <1>0, <1>2 DEF Resolve, Targets, tables, locks, history
<1>3. ASSUME NEW w \in Worker, NEW p \in Push, NextDevice(w, p) PROVE OneOutcome'
  BY <1>0, <1>3 DEF NextDevice, tables, locks, history
<1>4. ASSUME NEW w \in Worker, LockMatch(w) PROVE OneOutcome'
  BY <1>0, <1>4 DEF LockMatch, tables, history
<1>5. ASSUME NEW w \in Worker, LockEvent(w) PROVE OneOutcome'
  BY <1>0, <1>5 DEF LockEvent, tables, history
<1>6. ASSUME NEW w \in Worker, SkipDevice(w) PROVE OneOutcome'
  BY <1>0, <1>6 DEF SkipDevice, EndDevice, Release, tables, history
<1>7. ASSUME NEW w \in Worker, SendAccepted(w) PROVE OneOutcome'
  BY <1>0, <1>7 DEF SendAccepted, tables, locks
<1>8. ASSUME NEW w \in Worker, SendTerminal(w) PROVE OneOutcome'
  BY <1>0, <1>8 DEF SendTerminal, tables, locks, history
<1>9. ASSUME NEW w \in Worker, SendExpired(w) PROVE OneOutcome'
  BY <1>0, <1>9 DEF SendExpired, DropPush, EndDevice, Release, history
<1>10. ASSUME NEW w \in Worker, SendRetry(w) PROVE OneOutcome'
  BY <1>0, <1>10 DEF SendRetry, EndDevice, Release, tables, history
<1>11. ASSUME NEW w \in Worker, SendLost(w) PROVE OneOutcome'
  BY <1>0, <1>11 DEF SendLost, EndDevice, Release, tables
<1>12. ASSUME NEW w \in Worker, CommitDevice(w) PROVE OneOutcome'
  <2>1. ~ Settled(ev[w], cur[w]) /\ ev[w] \in Event
    BY <1>12 DEF RecheckInv, WorkerInv, Sending, CommitDevice
  <2>2. \/ /\ receipts' \subseteq receipts \cup {<<ev[w], cur[w]>>}
           /\ terminals' = terminals
        \/ /\ terminals' \subseteq terminals \cup {<<ev[w], cur[w]>>}
           /\ receipts' = receipts
    BY <1>12 DEF CommitDevice
  <2> QED
    BY <2>1, <2>2 DEF OneOutcome, Settled
<1>13. ASSUME NEW w \in Worker, GiveUp(w) PROVE OneOutcome'
  BY <1>0, <1>13 DEF GiveUp, Leave, tables, locks, history
<1>14. ASSUME NEW w \in Worker, Complete(w) PROVE OneOutcome'
  BY <1>0, <1>14 DEF Complete, Leave, locks, history
<1>15. ASSUME NEW w \in Worker, Crash(w) PROVE OneOutcome'
  BY <1>0, <1>15 DEF Crash, Leave, Release, tables, history
<1>16. ASSUME NEW u \in User, NEW t \in Team, NEW topics \in SUBSET Topics,
              EditFollowing(u, t, topics)
       PROVE OneOutcome'
  BY <1>0, <1>16 DEF EditFollowing, Edit, locks, worker, history
<1>17. ASSUME NEW u \in User, NEW m \in Match, ToggleMute(u, m) PROVE OneOutcome'
  BY <1>0, <1>17 DEF ToggleMute, Edit, locks, worker, history
<1>18. ASSUME NEW p \in Push, RegisterDevice(p) PROVE OneOutcome'
  BY <1>0, <1>18 DEF RegisterDevice, Edit, locks, worker, history
<1>19. ASSUME NEW p \in Push, RemoveDevice(p) PROVE OneOutcome'
  BY <1>0, <1>19 DEF RemoveDevice, DropPush, Edit, locks, worker, history
<1>20. CASE UNCHANGED vars
  BY <1>0, <1>20 DEF vars, tables, locks, worker, history
<1> QED
  BY <1>1, <1>2, <1>3, <1>4, <1>5, <1>6, <1>7, <1>8, <1>9, <1>10, <1>11, <1>12,
     <1>13, <1>14, <1>15, <1>16, <1>17, <1>18, <1>19, <1>20
  DEF Next, WorkerStep, UserStep

\* Each acceptance that is counted is matched by a receipt, by the open transaction or by
\* a loss.
LEMMA CountStepInv ==
    IInv /\ [Next]_vars => CountInv'
<1> SUFFICES ASSUME TypeOK, WorkerInv, RecheckInv, IdInv, CountInv, SerializedSends,
                    [Next]_vars
             PROVE  CountInv'
  BY LockedSends DEF IInv
<1>0. ASSUME accepted' = accepted, lost' = lost, pushes' \subseteq pushes,
             \A r \in receipts : r[2] \in pushes' => r \in receipts',
             \A v \in Worker : InFlight(v) =>
                 InFlight(v)' /\ ev'[v] = ev[v] /\ cur'[v] = cur[v]
      PROVE  CountInv'
  <2>1. \A s \in Slots, p \in pushes' : Counted(s, p) => Counted(s, p)'
    BY <1>0 DEF Counted
  <2> QED
    BY <1>0, <2>1 DEF CountInv
<1> USE DeliveryAssumption DEF TypeOK
<1>1. ASSUME NEW w \in Worker, NEW e \in Event, Start(w, e) PROVE CountInv'
  BY <1>0, <1>1 DEF Start, tables, locks, history, InFlight
<1>2. ASSUME NEW w \in Worker, Resolve(w) PROVE CountInv'
  BY <1>0, <1>2 DEF Resolve, Targets, tables, locks, history, InFlight
<1>3. ASSUME NEW w \in Worker, NEW p \in Push, NextDevice(w, p) PROVE CountInv'
  BY <1>0, <1>3 DEF NextDevice, tables, locks, history, InFlight
<1>4. ASSUME NEW w \in Worker, LockMatch(w) PROVE CountInv'
  BY <1>0, <1>4 DEF LockMatch, tables, history, InFlight
<1>5. ASSUME NEW w \in Worker, LockEvent(w) PROVE CountInv'
  BY <1>0, <1>5 DEF LockEvent, tables, history, InFlight
<1>6. ASSUME NEW w \in Worker, SkipDevice(w) PROVE CountInv'
  BY <1>0, <1>6 DEF SkipDevice, EndDevice, Release, tables, history, InFlight
<1>7. ASSUME NEW w \in Worker, SendAccepted(w) PROVE CountInv'
  <2> DEFINE k == <<Slot(ev[w]), cur[w]>>
  <2>1. /\ ev[w] \in Event /\ cur[w] \in Push /\ k \in Slots \X Push
        /\ ~ Settled(ev[w], cur[w])
    BY <1>7, SlotInSlots DEF WorkerInv, RecheckInv, Sending, SendAccepted
  <2>2. /\ accepted' = [accepted EXCEPT ![k] = @ + 1]
        /\ lost' = lost /\ pushes' = pushes /\ receipts' = receipts
        /\ ev' = ev /\ cur' = cur
        /\ InFlight(w)'
        /\ \A v \in Worker : InFlight(v) => InFlight(v)'
    BY <1>7 DEF SendAccepted, tables, InFlight
  <2>3. ~ Counted(Slot(ev[w]), cur[w])
    <3>1. \A v \in Worker : InFlight(v) /\ cur[v] = cur[w] => Slot(ev[v]) # Slot(ev[w])
      BY <1>7 DEF SerializedSends, Sending, SendAccepted, InFlight
    <3> QED
      BY <2>1, <3>1 DEF Counted, Settled
  <2> SUFFICES ASSUME NEW s \in Slots, NEW p \in pushes
               PROVE  /\ accepted'[<<s, p>>] <= lost'[<<s, p>>] + 1
                      /\ accepted'[<<s, p>>] > lost'[<<s, p>>] => Counted(s, p)'
    BY <2>2 DEF CountInv
  <2>4. /\ accepted[<<s, p>>] \in Nat /\ lost[<<s, p>>] \in Nat
        /\ accepted[<<s, p>>] <= lost[<<s, p>>] + 1
        /\ accepted[<<s, p>>] > lost[<<s, p>>] => Counted(s, p)
    BY DEF CountInv
  <2>5. CASE <<s, p>> = k
    <3>1. accepted[<<s, p>>] <= lost[<<s, p>>]
      BY <2>3, <2>4, <2>5
    <3>2. accepted'[<<s, p>>] = accepted[<<s, p>>] + 1
      BY <2>1, <2>2, <2>5
    <3>3. Counted(s, p)'
      BY <2>2, <2>5 DEF Counted
    <3> QED
      BY <2>2, <2>4, <3>1, <3>2, <3>3
  <2>6. CASE <<s, p>> # k
    <3>1. accepted'[<<s, p>>] = accepted[<<s, p>>]
      BY <2>2, <2>6
    <3>2. Counted(s, p) => Counted(s, p)'
      BY <2>2 DEF Counted
    <3> QED
      BY <2>2, <2>4, <3>1, <3>2
  <2> QED
    BY <2>5, <2>6
<1>8. ASSUME NEW w \in Worker, SendTerminal(w) PROVE CountInv'
  BY <1>0, <1>8 DEF SendTerminal, tables, locks, history, InFlight
<1>9. ASSUME NEW w \in Worker, SendExpired(w) PROVE CountInv'
  BY <1>0, <1>9 DEF SendExpired, DropPush, EndDevice, Release, history, InFlight
<1>10. ASSUME NEW w \in Worker, SendRetry(w) PROVE CountInv'
  BY <1>0, <1>10 DEF SendRetry, EndDevice, Release, tables, history, InFlight
<1>11. ASSUME NEW w \in Worker, SendLost(w) PROVE CountInv'
  <2> DEFINE k == <<Slot(ev[w]), cur[w]>>
  <2>1. /\ accepted' = [accepted EXCEPT ![k] = @ + 1]
        /\ lost' = [lost EXCEPT ![k] = @ + 1]
        /\ pushes' = pushes /\ receipts' = receipts
        /\ \A v \in Worker : InFlight(v) =>
              InFlight(v)' /\ ev'[v] = ev[v] /\ cur'[v] = cur[v]
    BY <1>11 DEF SendLost, EndDevice, tables, InFlight
  <2> SUFFICES ASSUME NEW s \in Slots, NEW p \in pushes
               PROVE  /\ accepted'[<<s, p>>] <= lost'[<<s, p>>] + 1
                      /\ accepted'[<<s, p>>] > lost'[<<s, p>>] => Counted(s, p)'
    BY <2>1 DEF CountInv
  <2>2. /\ accepted[<<s, p>>] \in Nat /\ lost[<<s, p>>] \in Nat
        /\ accepted[<<s, p>>] <= lost[<<s, p>>] + 1
        /\ accepted[<<s, p>>] > lost[<<s, p>>] => Counted(s, p)
    BY DEF CountInv
  <2>3. Counted(s, p) => Counted(s, p)'
    BY <2>1 DEF Counted
  <2>4. \/ accepted'[<<s, p>>] = accepted[<<s, p>>] /\ lost'[<<s, p>>] = lost[<<s, p>>]
        \/ /\ accepted'[<<s, p>>] = accepted[<<s, p>>] + 1
           /\ lost'[<<s, p>>] = lost[<<s, p>>] + 1
    BY <2>1
  <2> QED
    BY <2>2, <2>3, <2>4
<1>12. ASSUME NEW w \in Worker, CommitDevice(w) PROVE CountInv'
  <2>1. /\ accepted' = accepted /\ lost' = lost /\ pushes' = pushes
        /\ receipts \subseteq receipts'
        /\ ev' = ev
        /\ \A v \in Worker : InFlight(v) /\ v # w => InFlight(v)' /\ cur'[v] = cur[v]
    BY <1>12 DEF CommitDevice, EndDevice, InFlight, history
  <2>2. InFlight(w) /\ cur[w] \in pushes => <<ev[w], cur[w]>> \in receipts'
    BY <1>12 DEF CommitDevice, InFlight, WorkerInv
  <2>3. ev[w] \in Event
    BY <1>12 DEF CommitDevice, WorkerInv
  <2>4. \A s \in Slots, p \in pushes : Counted(s, p) => Counted(s, p)'
    BY <2>1, <2>2, <2>3 DEF Counted
  <2> QED
    BY <2>1, <2>4 DEF CountInv
<1>13. ASSUME NEW w \in Worker, GiveUp(w) PROVE CountInv'
  BY <1>0, <1>13 DEF GiveUp, Leave, tables, locks, history, InFlight
<1>14. ASSUME NEW w \in Worker, Complete(w) PROVE CountInv'
  BY <1>0, <1>14 DEF Complete, Leave, locks, history, InFlight
<1>15. ASSUME NEW w \in Worker, Crash(w) PROVE CountInv'
  <2> DEFINE k == <<Slot(ev[w]), cur[w]>>
  <2>1. /\ pushes' = pushes /\ receipts' = receipts
        /\ \A v \in Worker : InFlight(v) /\ v # w =>
              InFlight(v)' /\ ev'[v] = ev[v] /\ cur'[v] = cur[v]
    BY <1>15 DEF Crash, Leave, tables, InFlight
  <2>2. \/ /\ InFlight(w) /\ accepted' = accepted
           /\ lost' = [lost EXCEPT ![k] = @ + 1]
        \/ /\ ~ InFlight(w)
           /\ accepted' = [accepted EXCEPT ![k] = @ + 1]
           /\ lost' = [lost EXCEPT ![k] = @ + 1]
        \/ ~ InFlight(w) /\ accepted' = accepted /\ lost' = lost
    BY <1>15 DEF Crash, InFlight, history
  <2> SUFFICES ASSUME NEW s \in Slots, NEW p \in pushes
               PROVE  /\ accepted'[<<s, p>>] <= lost'[<<s, p>>] + 1
                      /\ accepted'[<<s, p>>] > lost'[<<s, p>>] => Counted(s, p)'
    BY <2>1 DEF CountInv
  <2>3. /\ accepted[<<s, p>>] \in Nat /\ lost[<<s, p>>] \in Nat
        /\ accepted[<<s, p>>] <= lost[<<s, p>>] + 1
        /\ accepted[<<s, p>>] > lost[<<s, p>>] => Counted(s, p)
    BY DEF CountInv
  <2>4. Counted(s, p) /\ ~ (InFlight(w) /\ k = <<s, p>>) => Counted(s, p)'
    BY <2>1 DEF Counted
  <2>5. CASE InFlight(w) /\ k = <<s, p>>
    <3>1. accepted'[<<s, p>>] = accepted[<<s, p>>] /\ lost'[<<s, p>>] = lost[<<s, p>>] + 1
      BY <2>2, <2>5
    <3> QED
      BY <2>3, <3>1
  <2>6. CASE ~ (InFlight(w) /\ k = <<s, p>>)
    <3>1. \/ /\ accepted'[<<s, p>>] = accepted[<<s, p>>]
             /\ lost'[<<s, p>>] = lost[<<s, p>>]
          \/ /\ accepted'[<<s, p>>] = accepted[<<s, p>>] + 1
             /\ lost'[<<s, p>>] = lost[<<s, p>>] + 1
      <4>1. CASE k = <<s, p>>
        BY <2>2, <2>6, <4>1
      <4>2. CASE k # <<s, p>>
        <5>1. /\ accepted' = accepted \/ accepted' = [accepted EXCEPT ![k] = @ + 1]
              /\ lost' = lost \/ lost' = [lost EXCEPT ![k] = @ + 1]
          BY <2>2
        <5> HIDE DEF k
        <5>2. accepted'[<<s, p>>] = accepted[<<s, p>>] /\ lost'[<<s, p>>] = lost[<<s, p>>]
          BY <4>2, <5>1
        <5> QED
          BY <5>2
      <4> QED
        BY <4>1, <4>2
    <3> QED
      BY <2>3, <2>4, <2>6, <3>1
  <2> QED
    BY <2>5, <2>6
<1>16. ASSUME NEW u \in User, NEW t \in Team, NEW topics \in SUBSET Topics,
              EditFollowing(u, t, topics)
       PROVE CountInv'
  BY <1>0, <1>16 DEF EditFollowing, Edit, locks, worker, history, InFlight
<1>17. ASSUME NEW u \in User, NEW m \in Match, ToggleMute(u, m) PROVE CountInv'
  BY <1>0, <1>17 DEF ToggleMute, Edit, locks, worker, history, InFlight
<1>18. ASSUME NEW p \in Push, RegisterDevice(p) PROVE CountInv'
  <2>1. /\ accepted' = accepted /\ lost' = lost /\ receipts' = receipts
        /\ pushes' = pushes \cup {p} /\ p \notin usedIds
        /\ pc' = pc /\ ev' = ev /\ cur' = cur /\ result' = result
    BY <1>18 DEF RegisterDevice, Edit, worker, history
  <2>2. \A s \in Slots : accepted[<<s, p>>] = 0 /\ lost[<<s, p>>] \in Nat
    BY <2>1 DEF IdInv
  <2>3. \A s \in Slots, q \in pushes : Counted(s, q) => Counted(s, q)'
    BY <2>1 DEF Counted, InFlight
  <2> SUFFICES ASSUME NEW s \in Slots, NEW q \in pushes'
               PROVE  /\ accepted[<<s, q>>] <= lost[<<s, q>>] + 1
                      /\ accepted[<<s, q>>] > lost[<<s, q>>] => Counted(s, q)'
    BY <2>1 DEF CountInv
  <2>4. CASE q = p
    BY <2>2, <2>4
  <2>5. CASE q # p
    BY <2>1, <2>3, <2>5 DEF CountInv
  <2> QED
    BY <2>4, <2>5
<1>19. ASSUME NEW p \in Push, RemoveDevice(p) PROVE CountInv'
  BY <1>0, <1>19 DEF RemoveDevice, DropPush, Edit, locks, worker, history, InFlight
<1>20. CASE UNCHANGED vars
  BY <1>0, <1>20 DEF InFlight, vars, tables, locks, worker, history
<1> QED
  BY <1>1, <1>2, <1>3, <1>4, <1>5, <1>6, <1>7, <1>8, <1>9, <1>10, <1>11, <1>12,
     <1>13, <1>14, <1>15, <1>16, <1>17, <1>18, <1>19, <1>20
  DEF Next, WorkerStep, UserStep

----------------------------------------------------------------------------
(* The theorems.                                                            *)

\* The inductive invariant holds at the start.
LEMMA InitInv == Init => IInv
<1> SUFFICES ASSUME Init PROVE IInv
  OBVIOUS
<1>1. TypeOK
  BY InitType
<1>2. WorkerInv /\ LockInv /\ RecheckInv /\ OneOutcome
  BY DEF Init, WorkerInv, LockInv, RecheckInv, OneOutcome, Sending
<1>3. IdInv /\ CountInv
  BY DeliveryAssumption DEF Init, IdInv, CountInv
<1> QED
  BY <1>1, <1>2, <1>3 DEF IInv

\* The inductive invariant is kept by every step.
LEMMA StepInv == IInv /\ [Next]_vars => IInv'
  BY TypeStep, WorkerStepInv, LockStepInv, RecheckStepInv, IdStepInv,
     OutcomeStepInv, CountStepInv
  DEF IInv

\* The inductive invariant holds in every state that is reached.
LEMMA InvHolds == Spec => []IInv
  BY InitInv, StepInv, PTL DEF Spec

\* No two calls ever have the same alert open towards the push service.
THEOREM Serialized == Spec => []SerializedSends
<1>1. IInv => SerializedSends
  BY LockedSends DEF IInv
<1> QED
  BY InvHolds, <1>1, PTL

\* One row at most stands for a device's outcome of an alert.
THEOREM SingleOutcome == Spec => []OneOutcome
<1>1. IInv => OneOutcome
  BY DEF IInv
<1> QED
  BY InvHolds, <1>1, PTL

\* A registered device is alerted at most once more than acceptances were lost.
THEOREM AtMostOnce == Spec => []AtMostOncePlusLost
<1>1. IInv => AtMostOncePlusLost
  BY DEF IInv, CountInv, AtMostOncePlusLost
<1> QED
  BY InvHolds, <1>1, PTL

\* Counting for a device that has no outcome leaves the counts of devices that
\* have one alone.
LEMMA NotTwice ==
    ASSUME TypeOK, NEW f \in Event, NEW q, ~ Settled(f, q),
           accepted' \in {accepted, [accepted EXCEPT ![<<Slot(f), q>>] = @ + 1]}
    PROVE  \A e \in Event, p \in Push :
               Settled(e, p) => accepted'[<<Slot(e), p>>] = accepted[<<Slot(e), p>>]
<1> SUFFICES ASSUME NEW e \in Event, NEW p \in Push, Settled(e, p)
             PROVE  accepted'[<<Slot(e), p>>] = accepted[<<Slot(e), p>>]
  OBVIOUS
<1> DEFINE j == <<Slot(e), p>>
          k == <<Slot(f), q>>
<1>1. j # k
  BY DEF Settled
<1>2. j \in DOMAIN accepted /\ accepted' \in {accepted, [accepted EXCEPT ![k] = @ + 1]}
  BY SlotInSlots DEF TypeOK
<1> HIDE DEF j, k
<1>3. accepted'[j] = accepted[j]
  BY <1>1, <1>2
<1> QED
  BY <1>3 DEF j

\* No step counts an acceptance for a device that has an outcome.
LEMMA FinalStep ==
    IInv /\ [Next]_vars =>
        \A e \in Event, p \in Push :
            Settled(e, p) => accepted'[<<Slot(e), p>>] = accepted[<<Slot(e), p>>]
<1> DEFINE Final == \A e \in Event, p \in Push :
        Settled(e, p) => accepted'[<<Slot(e), p>>] = accepted[<<Slot(e), p>>]
<1> SUFFICES ASSUME IInv, TypeOK, [Next]_vars PROVE Final
  BY DEF IInv
<1>0. ASSUME accepted' = accepted PROVE Final
  BY <1>0
<1>1. ASSUME NEW w \in Worker, NEW e \in Event, Start(w, e) PROVE Final
  BY <1>0, <1>1 DEF Start, tables, locks, history
<1>2. ASSUME NEW w \in Worker, Resolve(w) PROVE Final
  BY <1>0, <1>2 DEF Resolve, Targets, tables, locks, history
<1>3. ASSUME NEW w \in Worker, NEW p \in Push, NextDevice(w, p) PROVE Final
  BY <1>0, <1>3 DEF NextDevice, tables, locks, history
<1>4. ASSUME NEW w \in Worker, LockMatch(w) PROVE Final
  BY <1>0, <1>4 DEF LockMatch, tables, history
<1>5. ASSUME NEW w \in Worker, LockEvent(w) PROVE Final
  BY <1>0, <1>5 DEF LockEvent, tables, history
<1>6. ASSUME NEW w \in Worker, SkipDevice(w) PROVE Final
  BY <1>0, <1>6 DEF SkipDevice, EndDevice, Release, tables, history
<1>7. ASSUME NEW w \in Worker, SendAccepted(w) PROVE Final
  <2>1. (~ Settled(ev[w], cur[w]) /\ ev[w] \in Event) \/ accepted' = accepted
    BY <1>7 DEF SendAccepted, IInv, RecheckInv, WorkerInv, Sending, history
  <2>2. accepted' \in {accepted, [accepted EXCEPT ![<<Slot(ev[w]), cur[w]>>] = @ + 1]}
    BY <1>7 DEF SendAccepted, history
  <2> QED
    BY <2>1, <2>2, NotTwice
<1>8. ASSUME NEW w \in Worker, SendTerminal(w) PROVE Final
  BY <1>0, <1>8 DEF SendTerminal, tables, locks, history
<1>9. ASSUME NEW w \in Worker, SendExpired(w) PROVE Final
  BY <1>0, <1>9 DEF SendExpired, DropPush, EndDevice, Release, history
<1>10. ASSUME NEW w \in Worker, SendRetry(w) PROVE Final
  BY <1>0, <1>10 DEF SendRetry, EndDevice, Release, tables, history
<1>11. ASSUME NEW w \in Worker, SendLost(w) PROVE Final
  <2>1. (~ Settled(ev[w], cur[w]) /\ ev[w] \in Event) \/ accepted' = accepted
    BY <1>11 DEF SendLost, IInv, RecheckInv, WorkerInv, Sending, history
  <2>2. accepted' \in {accepted, [accepted EXCEPT ![<<Slot(ev[w]), cur[w]>>] = @ + 1]}
    BY <1>11 DEF SendLost, history
  <2> QED
    BY <2>1, <2>2, NotTwice
<1>12. ASSUME NEW w \in Worker, CommitDevice(w) PROVE Final
  BY <1>0, <1>12 DEF CommitDevice, EndDevice, Release, history
<1>13. ASSUME NEW w \in Worker, GiveUp(w) PROVE Final
  BY <1>0, <1>13 DEF GiveUp, Leave, tables, locks, history
<1>14. ASSUME NEW w \in Worker, Complete(w) PROVE Final
  BY <1>0, <1>14 DEF Complete, Leave, locks, history
<1>15. ASSUME NEW w \in Worker, Crash(w) PROVE Final
  <2>1. (~ Settled(ev[w], cur[w]) /\ ev[w] \in Event) \/ accepted' = accepted
    BY <1>15 DEF Crash, IInv, RecheckInv, WorkerInv, Sending, history
  <2>2. accepted' \in {accepted, [accepted EXCEPT ![<<Slot(ev[w]), cur[w]>>] = @ + 1]}
    BY <1>15 DEF Crash, history
  <2> QED
    BY <2>1, <2>2, NotTwice
<1>16. ASSUME NEW u \in User, NEW t \in Team, NEW topics \in SUBSET Topics,
              EditFollowing(u, t, topics)
       PROVE Final
  BY <1>0, <1>16 DEF EditFollowing, Edit, locks, worker, history
<1>17. ASSUME NEW u \in User, NEW m \in Match, ToggleMute(u, m) PROVE Final
  BY <1>0, <1>17 DEF ToggleMute, Edit, locks, worker, history
<1>18. ASSUME NEW p \in Push, RegisterDevice(p) PROVE Final
  BY <1>0, <1>18 DEF RegisterDevice, Edit, locks, worker, history
<1>19. ASSUME NEW p \in Push, RemoveDevice(p) PROVE Final
  BY <1>0, <1>19 DEF RemoveDevice, DropPush, Edit, locks, worker, history
<1>20. CASE UNCHANGED vars
  BY <1>0, <1>20 DEF vars, tables, locks, worker, history
<1> QED
  BY <1>1, <1>2, <1>3, <1>4, <1>5, <1>6, <1>7, <1>8, <1>9, <1>10, <1>11, <1>12,
     <1>13, <1>14, <1>15, <1>16, <1>17, <1>18, <1>19, <1>20
  DEF Next, WorkerStep, UserStep

\* A device with a committed outcome of an alert is never sent it again.
THEOREM FinalOutcome == Spec => OutcomeIsFinal
<1>1. IInv /\ [Next]_vars =>
        [\A e \in Event, p \in Push :
            Settled(e, p) => accepted'[<<Slot(e), p>>] = accepted[<<Slot(e), p>>]]_vars
  BY FinalStep
<1> QED
  BY InvHolds, <1>1, PTL DEF Spec, OutcomeIsFinal

----------------------------------------------------------------------------
(* Completion.                                                              *)

\* The device has gone, has an outcome, or came to an event already completed.
Resolved(e, p) == p \notin pushes \/ delivered[e] \/ Settled(e, p)

\* Every device a call is done with is resolved, unless the call has failed.
DoneInv ==
    \A w \in Worker :
        /\ targets[w] \subseteq usedIds
        /\ pc[w] \in {"idle", "resolve"} => targets[w] = {}
        /\ ~ failed[w] => \A p \in targets[w] \ todo[w] : Resolved(ev[w], p)

\* IInv is needed too: no device comes back under an id a call knows.
ResolvedInv == IInv /\ DoneInv

\* Completed events stay completed, no device comes back under its old id, and
\* outcomes go only with their device.
Lasting ==
    /\ \A e \in Event : delivered[e] => delivered'[e]
    /\ pushes' \cap usedIds \subseteq pushes
    /\ usedIds \subseteq usedIds'
    /\ \A e \in Event, p \in pushes' :
          /\ <<e, p>> \in receipts => <<e, p>> \in receipts'
          /\ <<e, p>> \in terminals => <<e, p>> \in terminals'

\* Hence a device once resolved for an event stays so.
LEMMA ResolvedStays ==
    ASSUME Lasting, NEW e \in Event, NEW p \in usedIds, Resolved(e, p)
    PROVE  Resolved(e, p)'
<1>1. CASE p \in pushes' /\ Settled(e, p)
  <2>1. PICK f \in Event : Slot(f) = Slot(e) /\ <<f, p>> \in receipts \cup terminals
    BY <1>1 DEF Settled
  <2>2. <<f, p>> \in receipts' \cup terminals'
    BY <1>1, <2>1 DEF Lasting
  <2> QED
    BY <2>1, <2>2 DEF Settled, Resolved, Slot, Lifecycle
<1> QED
  BY <1>1 DEF Resolved, Lasting

\* A step of other workers or users, or one after which a worker has not done
\* with more devices than before, keeps DoneInv.
LEMMA NoneMoreDone ==
    ASSUME TypeOK, WorkerInv, DoneInv, Lasting,
           \A w \in Worker :
               \/ ev'[w] = ev[w] /\ targets'[w] = targets[w] /\ todo'[w] = todo[w]
                  /\ (pc'[w] \in {"idle", "resolve"} => pc[w] \in {"idle", "resolve"})
                  /\ (failed[w] => failed'[w])
               \/ targets'[w] \subseteq todo'[w] /\ targets'[w] \subseteq usedIds'
                  /\ (pc'[w] \in {"idle", "resolve"} => targets'[w] = {})
    PROVE  DoneInv'
<1> SUFFICES ASSUME NEW w \in Worker
             PROVE  /\ targets'[w] \subseteq usedIds'
                    /\ pc'[w] \in {"idle", "resolve"} => targets'[w] = {}
                    /\ ~ failed'[w] =>
                          \A p \in targets'[w] \ todo'[w] : Resolved(ev[w], p)'
  BY DEF DoneInv
<1>1. CASE targets'[w] \subseteq todo'[w]
  BY <1>1 DEF Lasting, DoneInv
<1>2. CASE ev'[w] = ev[w] /\ targets'[w] = targets[w] /\ todo'[w] = todo[w]
           /\ (pc'[w] \in {"idle", "resolve"} => pc[w] \in {"idle", "resolve"})
           /\ (failed[w] => failed'[w])
  <2>1. targets'[w] \subseteq usedIds'
    BY <1>2 DEF DoneInv, Lasting
  <2>2. pc'[w] \in {"idle", "resolve"} => targets'[w] = {}
    BY <1>2 DEF DoneInv
  <2>3. ASSUME ~ failed'[w], NEW p \in targets'[w] \ todo'[w] PROVE Resolved(ev[w], p)'
    <3> PICK e \in Event : e = ev[w]
      BY <1>2, <2>3 DEF DoneInv, WorkerInv
    <3>1. p \in usedIds /\ Resolved(e, p)
      BY <1>2, <2>3 DEF DoneInv
    <3>2. Resolved(e, p)'
      BY <3>1, ResolvedStays
    <3> QED
      BY <1>2, <3>2 DEF Resolved, Settled
  <2> QED
    BY <2>1, <2>2, <2>3
<1> QED
  BY <1>1, <1>2

\* The end of a device adds it to those the call is done with.
LEMMA OneMoreDone ==
    ASSUME TypeOK, WorkerInv, DoneInv, Lasting,
           NEW w \in Worker, EndDevice(w), pc[w] \in {"event", "send", "commit"},
           \A v \in Worker : failed[v] => failed'[v],
           NEW e \in Event, NEW q \in Push, e = ev[w], q = cur[w],
           ~ failed'[w] => Resolved(e, q)'
    PROVE  DoneInv'
<1>1. /\ ev' = ev /\ targets' = targets
      /\ pc' = [pc EXCEPT ![w] = "loop"]
      /\ todo' = [todo EXCEPT ![w] = @ \ {cur[w]}]
      /\ cur' = [cur EXCEPT ![w] = None]
  BY DEF EndDevice
<1> SUFFICES ASSUME NEW v \in Worker
             PROVE  /\ targets'[v] \subseteq usedIds'
                    /\ pc'[v] \in {"idle", "resolve"} => targets'[v] = {}
                    /\ ~ failed'[v] =>
                          \A p \in targets'[v] \ todo'[v] : Resolved(ev[v], p)'
  BY DEF DoneInv
<1>2. targets'[v] \subseteq usedIds'
  BY <1>1 DEF DoneInv, Lasting
<1>3. pc'[v] \in {"idle", "resolve"} => targets'[v] = {}
  BY <1>1 DEF DoneInv, TypeOK
<1>4. ASSUME ~ failed'[v], NEW p \in targets'[v] \ todo'[v] PROVE Resolved(ev[v], p)'
  <2>1. CASE p \in targets[v] \ todo[v]
    <3> PICK f \in Event : f = ev[v]
      BY <2>1 DEF DoneInv, WorkerInv
    <3>1. p \in usedIds /\ Resolved(f, p)
      BY <1>4, <2>1 DEF DoneInv
    <3>2. Resolved(f, p)'
      BY <3>1, ResolvedStays
    <3> QED
      BY <1>1, <3>2 DEF Resolved, Settled
  <2>2. CASE p \notin targets[v] \ todo[v]
    <3>1. v = w /\ p = cur[w]
      BY <1>1, <1>4, <2>2 DEF TypeOK
    <3> QED
      BY <1>1, <1>4, <3>1 DEF Resolved, Settled
  <2> QED
    BY <2>1, <2>2
<1> QED
  BY <1>2, <1>3, <1>4

\* No call is under way at the start.
LEMMA DoneInit == Init => DoneInv
  BY DEF Init, DoneInv

\* Every step keeps DoneInv.
LEMMA DoneStepInv == ResolvedInv /\ [Next]_vars => DoneInv'
<1> SUFFICES ASSUME IInv, TypeOK, WorkerInv, IdInv, DoneInv, [Next]_vars PROVE DoneInv'
  BY DEF ResolvedInv, IInv
<1>0. UNCHANGED <<delivered, pushes, usedIds, receipts, terminals>> => Lasting
  BY DEF Lasting
<1>1. ASSUME NEW w \in Worker, NEW e \in Event, Start(w, e) PROVE DoneInv'
  <2>1. targets[w] = {} /\ targets' = targets /\ usedIds' = usedIds /\ Lasting
    BY <1>0, <1>1 DEF Start, tables, DoneInv
  <2> QED
    BY <1>1, <2>1, NoneMoreDone DEF Start, TypeOK
<1>2. ASSUME NEW w \in Worker, Resolve(w) PROVE DoneInv'
  <2>1. Targets(ev[w]) \subseteq usedIds /\ usedIds' = usedIds /\ Lasting
    BY <1>0, <1>2 DEF Resolve, tables, Targets, IdInv
  <2> QED
    BY <1>2, <2>1, NoneMoreDone DEF Resolve, TypeOK
<1>3. ASSUME NEW w \in Worker, NEW p \in Push, NextDevice(w, p) PROVE DoneInv'
  BY <1>0, <1>3, NoneMoreDone DEF NextDevice, TypeOK, tables
<1>4. ASSUME NEW w \in Worker, LockMatch(w) PROVE DoneInv'
  BY <1>0, <1>4, NoneMoreDone DEF LockMatch, TypeOK, tables
<1>5. ASSUME NEW w \in Worker, LockEvent(w) PROVE DoneInv'
  BY <1>0, <1>5, NoneMoreDone DEF LockEvent, TypeOK, tables
<1>6. ASSUME NEW w \in Worker, SkipDevice(w) PROVE DoneInv'
  <2>1. PICK e \in Event, q \in Push : e = ev[w] /\ q = cur[w]
    BY <1>6 DEF SkipDevice, WorkerInv
  <2>2. UNCHANGED <<delivered, pushes, usedIds, receipts, terminals, failed>> /\ Lasting
    BY <1>0, <1>6 DEF SkipDevice, tables
  <2>3. Resolved(e, q)
    BY <1>6, <2>1 DEF SkipDevice, NeedsSend, Resolved
  <2>4. Resolved(e, q)'
    BY <2>2, <2>3 DEF Resolved, Settled, Slot, Lifecycle
  <2> QED
    BY <1>6, <2>1, <2>2, <2>4, OneMoreDone DEF SkipDevice
<1>7. ASSUME NEW w \in Worker, SendAccepted(w) PROVE DoneInv'
  BY <1>0, <1>7, NoneMoreDone DEF SendAccepted, TypeOK, tables
<1>8. ASSUME NEW w \in Worker, SendTerminal(w) PROVE DoneInv'
  BY <1>0, <1>8, NoneMoreDone DEF SendTerminal, TypeOK, tables
<1>9. ASSUME NEW w \in Worker, SendExpired(w) PROVE DoneInv'
  <2>1. PICK e \in Event, q \in Push : e = ev[w] /\ q = cur[w]
    BY <1>9 DEF SendExpired, WorkerInv
  <2>2. Lasting /\ failed' = failed /\ q \notin pushes'
    BY <1>9, <2>1 DEF SendExpired, DropPush, Lasting
  <2> QED
    BY <1>9, <2>1, <2>2, OneMoreDone DEF SendExpired, Resolved
<1>10. ASSUME NEW w \in Worker, SendRetry(w) PROVE DoneInv'
  <2>1. PICK e \in Event, q \in Push : e = ev[w] /\ q = cur[w]
    BY <1>10 DEF SendRetry, WorkerInv
  <2>2. Lasting /\ failed' = [failed EXCEPT ![w] = TRUE]
    BY <1>0, <1>10 DEF SendRetry, tables
  <2> QED
    BY <1>10, <2>1, <2>2, OneMoreDone DEF SendRetry, TypeOK
<1>11. ASSUME NEW w \in Worker, SendLost(w) PROVE DoneInv'
  <2>1. PICK e \in Event, q \in Push : e = ev[w] /\ q = cur[w]
    BY <1>11 DEF SendLost, WorkerInv
  <2>2. Lasting /\ failed' = [failed EXCEPT ![w] = TRUE]
    BY <1>0, <1>11 DEF SendLost, tables
  <2> QED
    BY <1>11, <2>1, <2>2, OneMoreDone DEF SendLost, TypeOK
<1>12. ASSUME NEW w \in Worker, CommitDevice(w) PROVE DoneInv'
  <2>1. PICK e \in Event, q \in Push : e = ev[w] /\ q = cur[w]
    BY <1>12 DEF CommitDevice, WorkerInv
  <2>2. Lasting /\ failed' = failed /\ pushes' = pushes
    BY <1>12 DEF CommitDevice, Lasting
  <2>3. q \in pushes => <<e, q>> \in receipts' \cup terminals'
    BY <1>12, <2>1 DEF CommitDevice
  <2>4. Resolved(e, q)'
    BY <2>2, <2>3 DEF Resolved, Settled, Slot, Lifecycle
  <2> QED
    BY <1>12, <2>1, <2>2, <2>4, OneMoreDone DEF CommitDevice
<1>13. ASSUME NEW w \in Worker, GiveUp(w) PROVE DoneInv'
  BY <1>0, <1>13, NoneMoreDone DEF GiveUp, Leave, TypeOK, tables
<1>14. ASSUME NEW w \in Worker, Complete(w) PROVE DoneInv'
  <2>1. Lasting
    BY <1>14 DEF Complete, Lasting, TypeOK
  <2> QED
    BY <1>14, <2>1, NoneMoreDone DEF Complete, Leave, TypeOK
<1>15. ASSUME NEW w \in Worker, Crash(w) PROVE DoneInv'
  BY <1>0, <1>15, NoneMoreDone DEF Crash, Leave, TypeOK, tables
<1>16. ASSUME NEW u \in User, NEW t \in Team, NEW topics \in SUBSET Topics,
              EditFollowing(u, t, topics)
       PROVE DoneInv'
  BY <1>0, <1>16, NoneMoreDone DEF EditFollowing, Edit, worker
<1>17. ASSUME NEW u \in User, NEW m \in Match, ToggleMute(u, m) PROVE DoneInv'
  BY <1>0, <1>17, NoneMoreDone DEF ToggleMute, Edit, worker
<1>18. ASSUME NEW p \in Push, RegisterDevice(p) PROVE DoneInv'
  <2>1. Lasting
    BY <1>18 DEF RegisterDevice, Edit, Lasting, IdInv
  <2> QED
    BY <1>18, <2>1, NoneMoreDone DEF RegisterDevice, Edit, worker
<1>19. ASSUME NEW p \in Push, RemoveDevice(p) PROVE DoneInv'
  <2>1. Lasting
    BY <1>19 DEF RemoveDevice, DropPush, Edit, Lasting
  <2> QED
    BY <1>19, <2>1, NoneMoreDone DEF RemoveDevice, Edit, worker
<1>20. CASE UNCHANGED vars
  BY <1>0, <1>20, NoneMoreDone DEF vars, tables, worker
<1> QED
  BY <1>1, <1>2, <1>3, <1>4, <1>5, <1>6, <1>7, <1>8, <1>9, <1>10, <1>11, <1>12,
     <1>13, <1>14, <1>15, <1>16, <1>17, <1>18, <1>19, <1>20
  DEF Next, WorkerStep, UserStep

\* Only Complete sets delivered_at, with every target of its call resolved.
LEMMA CompletionStep ==
    ResolvedInv /\ [Next]_vars =>
        \A e \in Event :
            ~ delivered[e] /\ delivered'[e] =>
                \E w \in Worker :
                    /\ ev[w] = e
                    /\ \A p \in targets[w] : p \notin pushes \/ Settled(e, p)
<1> SUFFICES ASSUME TypeOK, DoneInv, [Next]_vars, delivered' # delivered,
                    NEW e \in Event, ~ delivered[e], delivered'[e]
             PROVE  \E w \in Worker :
                        /\ ev[w] = e
                        /\ \A p \in targets[w] : p \notin pushes \/ Settled(e, p)
  BY DEF ResolvedInv, IInv
<1>1. ASSUME NEW w \in Worker, WorkerStep(w) PROVE Complete(w)
  BY <1>1 DEF WorkerStep, Start, Resolve, NextDevice, LockMatch, LockEvent, SkipDevice,
              SendAccepted, SendTerminal, SendExpired, SendRetry, SendLost, CommitDevice,
              GiveUp, Crash, tables
<1>2. ~ UserStep /\ ~ UNCHANGED vars
  BY DEF UserStep, EditFollowing, ToggleMute, RegisterDevice, RemoveDevice, Edit, vars, tables
<1>3. PICK w \in Worker : Complete(w)
  BY <1>1, <1>2 DEF Next
<1>4. ev[w] = e
  BY <1>3 DEF Complete, TypeOK
<1>5. \A p \in targets[w] : Resolved(ev[w], p)
  BY <1>3 DEF Complete, DoneInv
<1> QED
  BY <1>4, <1>5 DEF Resolved

\* An event is completed only by a call all of whose targets have an outcome or
\* have gone.
THEOREM CompletionJustified == Spec => CompletionSound
<1>1. Init => ResolvedInv
  BY InitInv, DoneInit DEF ResolvedInv
<1>2. ResolvedInv /\ [Next]_vars => ResolvedInv'
  BY StepInv, DoneStepInv DEF ResolvedInv
<1>3. ResolvedInv /\ [Next]_vars =>
        [\A e \in Event :
            ~ delivered[e] /\ delivered'[e] =>
                \E w \in Worker :
                    /\ ev[w] = e
                    /\ \A p \in targets[w] : p \notin pushes \/ Settled(e, p)]_vars
  BY CompletionStep
<1> QED
  BY <1>1, <1>2, <1>3, PTL DEF Spec, CompletionSound

----------------------------------------------------------------------------
(* What is owed.                                                            *)

\* Once users have made their last change, whoever is to be told of a call's
\* event is among the call's targets.
WholeInv ==
    \A w \in Worker :
        pc[w] \notin {"idle", "resolve"} => Targets(ev[w]) \subseteq targets[w]

\* Calls add nobody to those who are to be told.
LEMMA NobodyAdded ==
    ASSUME NEW w \in Worker, WorkerStep(w)
    PROVE  \A e \in Event \cup {None} : Targets(e)' \subseteq Targets(e)
<1> SUFFICES pushes' \subseteq pushes /\ wants' = wants /\ muted' = muted
  BY DEF Targets, Topic, Lifecycle
<1>1. CASE SendExpired(w)
  BY <1>1 DEF SendExpired, DropPush
<1>2. CASE ~ SendExpired(w)
  BY <1>2 DEF WorkerStep, Start, Resolve, NextDevice, LockMatch, LockEvent, SkipDevice,
              SendAccepted, SendTerminal, SendRetry, SendLost, CommitDevice, GiveUp, Complete,
              Crash, tables
<1> QED
  BY <1>1, <1>2

\* Its targets are read once, and are the call's own from then on.
LEMMA WholeStep ==
    ASSUME TypeOK, WholeInv, NEW w \in Worker, WorkerStep(w)
    PROVE  WholeInv'
<1> DEFINE Kept(v) ==
        /\ pc[v] \notin {"idle", "resolve"}
        /\ ev'[v] = ev[v]
        /\ targets'[v] = targets[v]
<1>1. \A e \in Event \cup {None} : Targets(e)' \subseteq Targets(e)
  BY NobodyAdded
<1>2. ASSUME NEW v \in Worker, v # w, pc'[v] \notin {"idle", "resolve"} PROVE Kept(v)
  BY <1>2 DEF WorkerStep, Start, Resolve, NextDevice, LockMatch, LockEvent, SkipDevice,
              SendAccepted, SendTerminal, SendExpired, SendRetry, SendLost, CommitDevice,
              GiveUp, Complete, Crash, Leave, EndDevice, TypeOK
<1>3. ASSUME ~ Resolve(w), pc'[w] \notin {"idle", "resolve"} PROVE Kept(w)
  BY <1>3 DEF WorkerStep, Start, NextDevice, LockMatch, LockEvent, SkipDevice,
              SendAccepted, SendTerminal, SendExpired, SendRetry, SendLost, CommitDevice,
              GiveUp, Complete, Crash, Leave, EndDevice, TypeOK
<1>4. ASSUME Resolve(w) PROVE ev'[w] = ev[w] /\ targets'[w] = Targets(ev[w])
  BY <1>4 DEF Resolve, TypeOK
<1>5. ASSUME NEW v \in Worker, pc'[v] \notin {"idle", "resolve"},
             NEW e \in Event \cup {None}, e = ev[v]
      PROVE  ev'[v] = e /\ Targets(e)' \subseteq targets'[v]
  <2>1. ev'[v] = e /\ Targets(e) \subseteq targets'[v]
    <3>1. CASE v = w /\ Resolve(w)
      BY <1>4, <1>5, <3>1
    <3>2. CASE ~ (v = w /\ Resolve(w))
      BY <1>2, <1>3, <1>5, <3>2 DEF WholeInv
    <3> QED
      BY <3>1, <3>2
  <2> QED
    BY <1>1, <2>1
<1>6. \A v \in Worker : ev[v] \in Event \cup {None}
  BY DEF TypeOK
<1> QED
  BY <1>5, <1>6 DEF WholeInv, Targets, Topic, Lifecycle

\* So a call that completes an event leaves no device of it owed by anyone.
LEMMA NothingOwed ==
    ASSUME TypeOK, DoneInv, WholeInv, NEW w \in Worker, Complete(w), ~ delivered[ev[w]]
    PROVE  \A v \in Worker : ev[v] = ev[w] => Owed(v) = {}
<1>1. Targets(ev[w]) \subseteq targets[w]
  BY DEF Complete, WholeInv
<1>2. \A p \in targets[w] : p \notin pushes \/ Settled(ev[w], p)
  BY DEF Complete, DoneInv, Resolved
<1>3. \A p \in Targets(ev[w]) : Settled(ev[w], p)
  BY <1>1, <1>2 DEF Targets
<1> QED
  BY <1>3 DEF Owed

\* Once users have made their last change no event is completed over a device
\* whose last attempt is to be retried, not even by another call.
THEOREM RetryableKept == FairSpec => RetryableStaysPending
<1> DEFINE Quiet == \E w \in Worker : WorkerStep(w)
           Clear ==
              \A e \in Event :
                 ~ delivered[e] /\ delivered'[e] =>
                    \A w \in Worker : ev[w] = e => Owed(w) = {}
<1>1. Init => ResolvedInv /\ WholeInv
  BY InitInv, DoneInit DEF ResolvedInv, WholeInv, Init
<1>2. ResolvedInv /\ [Quiet]_vars => ResolvedInv'
  BY StepInv, DoneStepInv DEF ResolvedInv, Next
<1>3. ResolvedInv /\ WholeInv /\ [Quiet]_vars => WholeInv'
  <2>1. CASE UNCHANGED vars
    BY <2>1 DEF WholeInv, Targets, Topic, Lifecycle, vars, tables, worker
  <2> QED
    BY <2>1, WholeStep DEF ResolvedInv, IInv
<1>4. ResolvedInv /\ WholeInv /\ [Quiet]_vars => [Clear]_vars
  <2> SUFFICES ASSUME TypeOK, DoneInv, WholeInv, NEW w \in Worker, WorkerStep(w),
                      NEW e \in Event, ~ delivered[e], delivered'[e]
               PROVE  \A v \in Worker : ev[v] = e => Owed(v) = {}
    BY DEF ResolvedInv, IInv
  <2>1. Complete(w)
    BY DEF WorkerStep, Start, Resolve, NextDevice, LockMatch, LockEvent, SkipDevice,
           SendAccepted, SendTerminal, SendExpired, SendRetry, SendLost, CommitDevice,
           GiveUp, Crash, tables
  <2>2. ev[w] = e
    BY <2>1 DEF Complete, TypeOK
  <2> QED
    BY <2>1, <2>2, NothingOwed
<1> QED
  BY <1>1, <1>2, <1>3, <1>4, PTL DEF FairSpec, RetryableStaysPending

----------------------------------------------------------------------------
(* Waiting for rows.                                                        *)

\* A row is locked by a call that is past it, at one device.
HeldInv ==
    /\ \A m \in Match : matchLock[m] # None => pc[matchLock[m]] \in {"event", "send", "commit"}
    /\ \A e \in Event : eventLock[e] # None => Sending(eventLock[e])

\* The match row is locked before the event row, and both are given back with the
\* device's transaction.
LEMMA HeldStep == TypeOK /\ WorkerInv /\ HeldInv /\ [Next]_vars => HeldInv'
<1> SUFFICES ASSUME TypeOK, WorkerInv, HeldInv, [Next]_vars PROVE HeldInv'
  OBVIOUS
<1> USE DeliveryAssumption DEF TypeOK, WorkerInv, HeldInv, Sending
<1>1. ASSUME NEW w \in Worker, NEW e \in Event, Start(w, e) PROVE HeldInv'
  BY <1>1 DEF Start, locks
<1>2. ASSUME NEW w \in Worker, Resolve(w) PROVE HeldInv'
  BY <1>2 DEF Resolve, locks
<1>3. ASSUME NEW w \in Worker, NEW p \in Push, NextDevice(w, p) PROVE HeldInv'
  BY <1>3 DEF NextDevice, locks
<1>4. ASSUME NEW w \in Worker, LockMatch(w) PROVE HeldInv'
  BY <1>4 DEF LockMatch
<1>5. ASSUME NEW w \in Worker, LockEvent(w) PROVE HeldInv'
  BY <1>5 DEF LockEvent
<1>6. ASSUME NEW w \in Worker, EndDevice(w) PROVE HeldInv'
  BY <1>6 DEF EndDevice, Release
<1>7. ASSUME NEW w \in Worker, SendAccepted(w) PROVE HeldInv'
  BY <1>7 DEF SendAccepted, locks
<1>8. ASSUME NEW w \in Worker, SendTerminal(w) PROVE HeldInv'
  BY <1>8 DEF SendTerminal, locks
<1>9. ASSUME NEW w \in Worker, GiveUp(w) \/ Complete(w) PROVE HeldInv'
  BY <1>9 DEF GiveUp, Complete, Leave, locks
<1>10. ASSUME NEW w \in Worker, Crash(w) PROVE HeldInv'
  BY <1>10 DEF Crash, Leave, Release
<1>11. CASE UserStep
  BY <1>11 DEF UserStep, EditFollowing, ToggleMute, RegisterDevice, RemoveDevice, DropPush,
               Edit, locks, worker
<1>12. CASE UNCHANGED vars
  BY <1>12 DEF vars, locks, worker
<1> QED
  BY <1>1, <1>2, <1>3, <1>4, <1>5, <1>6, <1>7, <1>8, <1>9, <1>10, <1>11, <1>12
  DEF Next, WorkerStep, SkipDevice, SendExpired, SendRetry, SendLost, CommitDevice

\* Who waits for an event row waits for a call that is sending, and who waits for
\* a match row waits for one that waits for an event row at most.
THEOREM WaitsAreShort == Spec => []NoCircularWait
<1>1. Init => HeldInv
  BY DEF Init, HeldInv
<1>2. IInv /\ HeldInv /\ [Next]_vars => HeldInv'
  BY HeldStep DEF IInv
<1>3. IInv /\ HeldInv => NoCircularWait
  <2> SUFFICES ASSUME IInv, HeldInv, NEW v \in Worker, NEW w \in Worker, WaitsFor(v, w)
               PROVE  \/ Sending(w)
                      \/ pc[w] = "event" /\ \A x \in Worker : WaitsFor(w, x) => Sending(x)
    BY DEF NoCircularWait
  <2> USE DeliveryAssumption
  <2>1. \A u \in Worker : pc[u] # "idle" => ev[u] \in Event /\ EventMatch[ev[u]] \in Match
    BY DEF IInv, WorkerInv
  <2>2. ASSUME NEW u \in Worker, NEW x \in Worker, WaitsFor(u, x), pc[u] # "match"
        PROVE  Sending(x)
    BY <2>1, <2>2 DEF WaitsFor, HeldInv
  <2>3. CASE pc[v] # "match"
    BY <2>2, <2>3
  <2>4. CASE pc[v] = "match"
    <3>1. pc[w] \in {"event", "send", "commit"}
      BY <2>1, <2>4 DEF WaitsFor, HeldInv
    <3>2. CASE Sending(w)
      BY <3>2
    <3>3. CASE pc[w] = "event"
      BY <2>2, <3>3
    <3> QED
      BY <3>1, <3>2, <3>3 DEF Sending
  <2> QED
    BY <2>3, <2>4
<1> QED
  BY <1>1, <1>2, <1>3, InvHolds, PTL DEF Spec

----------------------------------------------------------------------------
(* Delivery implements AlertLedger.                                         *)

\* The ledger's alerts are the slots.
LEMMA LedgerSlots ==
    /\ Ledger!SlotSet = Slots
    /\ \A e \in Event : [f \in Event |-> Slot(f)][e] = Slot(e)
  BY DEF Ledger!SlotSet, Slots

\* An alert is open while a transaction has an acceptance to record.
LEMMA OpenIsInFlight == OpenAlerts = {<<ev[w], cur[w]>> : w \in {v \in Worker : InFlight(v)}}
  BY DEF OpenAlerts, InFlight

\* Nothing is open, recorded or counted at the start.
LEMMA LedgerInit == Init => Ledger!Init
<1> SUFFICES ASSUME Init PROVE Ledger!Init
  OBVIOUS
<1>1. OpenAlerts = {}
  BY DEF Init, OpenAlerts
<1> QED
  BY <1>1, LedgerSlots, DeliveryAssumption DEF Init, Ledger!Init

\* A step that opens and closes no transaction with an acceptance leaves the
\* open alerts alone.
LEMMA OpenSame ==
    ASSUME \A w \in Worker :
               /\ InFlight(w)' <=> InFlight(w)
               /\ InFlight(w) => ev'[w] = ev[w] /\ cur'[w] = cur[w]
    PROVE  OpenAlerts' = OpenAlerts
<1>1. OpenAlerts' = {<<ev'[w], cur'[w]>> : w \in {v \in Worker : InFlight(v)'}}
  BY DEF OpenAlerts, InFlight
<1> QED
  BY <1>1, OpenIsInFlight

\* The end of an open transaction closes its alert, and no other one.
LEMMA OpenEnds ==
    ASSUME SerializedSends, NEW w \in Worker, InFlight(w), ~ InFlight(w)',
           \A v \in Worker : v # w => (InFlight(v)' <=> InFlight(v))
                                      /\ ev'[v] = ev[v] /\ cur'[v] = cur[v]
    PROVE  /\ <<ev[w], cur[w]>> \in OpenAlerts
           /\ OpenAlerts' = OpenAlerts \ {<<ev[w], cur[w]>>}
<1>1. OpenAlerts' = {<<ev'[v], cur'[v]>> : v \in {v \in Worker : InFlight(v)'}}
  BY DEF OpenAlerts, InFlight
<1>2. \A v \in Worker : v # w /\ InFlight(v) => ev[v] # ev[w]
  BY DEF SerializedSends, InFlight, Sending
<1> QED
  BY <1>1, <1>2, OpenIsInFlight

\* A worker that sends may offer the alert to the device.
LEMMA SenderIsClear ==
    ASSUME IInv, NEW w \in Worker, NEW e \in Event, e = ev[w], Sending(w), ~ InFlight(w)
    PROVE  Ledger!Clear(e, cur[w])
<1>1. ~ delivered[e] /\ ~ Settled(e, cur[w])
  BY DEF IInv, RecheckInv
<1>2. ASSUME NEW f \in Event, Slot(f) = Slot(e), <<f, cur[w]>> \in OpenAlerts PROVE FALSE
  <2>1. PICK v \in Worker : InFlight(v) /\ f = ev[v]
    BY <1>2, OpenIsInFlight
  <2>2. v # w /\ Sending(v)
    BY <2>1 DEF InFlight, Sending
  <2> QED
    BY <1>2, <2>1, <2>2, LockedSends DEF IInv, SerializedSends
<1>3. \A f \in Event : Slot(f) = Slot(e) => <<f, cur[w]>> \notin receipts \cup terminals
  BY <1>1 DEF Settled
<1> QED
  BY <1>1, <1>2, <1>3, LedgerSlots DEF Ledger!Clear

\* Every step of a worker or a user is a step of the ledger or a stutter.
LEMMA LedgerStep == IInv /\ [Next]_vars => [Ledger!Next]_(Ledger!vars)
<1> SUFFICES ASSUME IInv, TypeOK, WorkerInv, LockInv, SerializedSends, [Next]_vars
             PROVE  [Ledger!Next]_(Ledger!vars)
  BY LockedSends DEF IInv
<1>0. ASSUME UNCHANGED <<delivered, pushes, usedIds, receipts, terminals, accepted, lost>>,
             OpenAlerts' = OpenAlerts
      PROVE  UNCHANGED Ledger!vars
  BY <1>0 DEF Ledger!vars
<1>1. ASSUME NEW w \in Worker, NEW e \in Event, Start(w, e) PROVE UNCHANGED Ledger!vars
  BY <1>0, <1>1, OpenSame DEF Start, InFlight, TypeOK, tables, history
<1>2. ASSUME NEW w \in Worker, Resolve(w) PROVE UNCHANGED Ledger!vars
  BY <1>0, <1>2, OpenSame DEF Resolve, InFlight, TypeOK, tables, history
<1>3. ASSUME NEW w \in Worker, NEW p \in Push, NextDevice(w, p) PROVE UNCHANGED Ledger!vars
  BY <1>0, <1>3, OpenSame DEF NextDevice, InFlight, TypeOK, tables, history
<1>4. ASSUME NEW w \in Worker, LockMatch(w) PROVE UNCHANGED Ledger!vars
  BY <1>0, <1>4, OpenSame DEF LockMatch, InFlight, TypeOK, tables, history
<1>5. ASSUME NEW w \in Worker, LockEvent(w) PROVE UNCHANGED Ledger!vars
  BY <1>0, <1>5, OpenSame DEF LockEvent, InFlight, TypeOK, tables, history
<1>6. ASSUME NEW w \in Worker, SkipDevice(w) PROVE UNCHANGED Ledger!vars
  BY <1>0, <1>6, OpenSame DEF SkipDevice, EndDevice, InFlight, TypeOK, tables, history
<1>7. ASSUME NEW w \in Worker, SendAccepted(w) PROVE Ledger!Next
  <2>1. PICK e \in Event, p \in Push : e = ev[w] /\ p = cur[w]
    BY <1>7 DEF SendAccepted, WorkerInv
  <2>2. Ledger!Clear(e, p)
    BY <1>7, <2>1, SenderIsClear DEF SendAccepted, Sending, InFlight
  <2>3. OpenAlerts' = OpenAlerts \cup {<<e, p>>}
    <3>1. /\ InFlight(w)' /\ ~ InFlight(w) /\ ev' = ev /\ cur' = cur
          /\ \A v \in Worker : v # w => (InFlight(v)' <=> InFlight(v))
      BY <1>7 DEF SendAccepted, InFlight, TypeOK
    <3>2. OpenAlerts' = {<<ev'[v], cur'[v]>> : v \in {v \in Worker : InFlight(v)'}}
      BY DEF OpenAlerts, InFlight
    <3> QED
      BY <2>1, <3>1, <3>2, OpenIsInFlight
  <2>4. Ledger!Accept(e, p)
    BY <1>7, <2>1, <2>2, <2>3, LedgerSlots DEF SendAccepted, Ledger!Accept, tables
  <2> QED
    BY <2>4 DEF Ledger!Next
<1>8. ASSUME NEW w \in Worker, SendTerminal(w) PROVE UNCHANGED Ledger!vars
  BY <1>0, <1>8, OpenSame DEF SendTerminal, InFlight, TypeOK, tables, history
<1>9. ASSUME NEW w \in Worker, SendExpired(w) PROVE Ledger!Next
  <2>1. PICK p \in Push : p = cur[w]
    BY <1>9 DEF SendExpired, WorkerInv
  <2>2. OpenAlerts' = OpenAlerts
    BY <1>9, OpenSame DEF SendExpired, EndDevice, InFlight, TypeOK
  <2>3. Ledger!Forget(p)
    BY <1>9, <2>1, <2>2 DEF SendExpired, DropPush, Ledger!Forget, history
  <2> QED
    BY <2>3 DEF Ledger!Next
<1>10. ASSUME NEW w \in Worker, SendRetry(w) PROVE UNCHANGED Ledger!vars
  BY <1>0, <1>10, OpenSame DEF SendRetry, EndDevice, InFlight, TypeOK, tables, history
<1>11. ASSUME NEW w \in Worker, SendLost(w) PROVE Ledger!Next
  <2>1. PICK e \in Event, p \in Push : e = ev[w] /\ p = cur[w]
    BY <1>11 DEF SendLost, WorkerInv
  <2>2. Ledger!Clear(e, p)
    BY <1>11, <2>1, SenderIsClear DEF SendLost, Sending, InFlight
  <2>3. OpenAlerts' = OpenAlerts
    BY <1>11, OpenSame DEF SendLost, EndDevice, InFlight, TypeOK
  <2>4. Ledger!AcceptUnrecorded(e, p)
    BY <1>11, <2>1, <2>2, <2>3, LedgerSlots DEF SendLost, Ledger!AcceptUnrecorded, tables
  <2> QED
    BY <2>4 DEF Ledger!Next
<1>12. ASSUME NEW w \in Worker, CommitDevice(w) PROVE Ledger!Next
  <2>1. PICK e \in Event, p \in Push : e = ev[w] /\ p = cur[w]
    BY <1>12 DEF CommitDevice, WorkerInv
  <2>2. /\ (receipts \cup terminals)' =
               receipts \cup terminals \cup ({<<e, p>>} \cap (Event \X pushes))
        /\ UNCHANGED <<delivered, pushes, usedIds, accepted, lost>>
    BY <1>12, <2>1 DEF CommitDevice, history
  <2>3. /\ ~ InFlight(w)'
        /\ \A v \in Worker : v # w => (InFlight(v)' <=> InFlight(v))
                                      /\ ev'[v] = ev[v] /\ cur'[v] = cur[v]
    BY <1>12 DEF CommitDevice, EndDevice, InFlight, TypeOK
  <2>4. CASE InFlight(w)
    <3>1. Ledger!Record(e, p)
      BY <2>1, <2>2, <2>3, <2>4, OpenEnds DEF Ledger!Record
    <3> QED
      BY <3>1 DEF Ledger!Next
  <2>5. CASE ~ InFlight(w)
    <3>1. OpenAlerts' = OpenAlerts
      BY <2>3, <2>5, OpenSame
    <3>2. Ledger!Clear(e, p)
      BY <1>12, <2>1, <2>5, SenderIsClear DEF CommitDevice, Sending
    <3>3. Ledger!Refuse(e, p)
      BY <2>2, <3>1, <3>2 DEF Ledger!Refuse
    <3> QED
      BY <3>3 DEF Ledger!Next
  <2> QED
    BY <2>4, <2>5
<1>13. ASSUME NEW w \in Worker, GiveUp(w) PROVE UNCHANGED Ledger!vars
  BY <1>0, <1>13, OpenSame DEF GiveUp, Leave, InFlight, TypeOK, tables, history
<1>14. ASSUME NEW w \in Worker, Complete(w) PROVE Ledger!Next
  <2>1. PICK e \in Event : e = ev[w]
    BY <1>14 DEF Complete, WorkerInv
  <2>2. OpenAlerts' = OpenAlerts
    BY <1>14, OpenSame DEF Complete, Leave, InFlight, TypeOK
  <2>3. ASSUME NEW p \in Push, <<e, p>> \in OpenAlerts PROVE FALSE
    <3>1. PICK v \in Worker : InFlight(v) /\ ev[v] = e
      BY <2>3, OpenIsInFlight
    <3>2. eventLock[e] = v
      BY <3>1 DEF LockInv, InFlight, Sending
    <3> QED
      BY <1>14, <2>1, <3>2, DeliveryAssumption DEF Complete
  <2>4. Ledger!Process(e)
    BY <1>14, <2>1, <2>2, <2>3 DEF Complete, Ledger!Process, history
  <2> QED
    BY <2>4 DEF Ledger!Next
<1>15. ASSUME NEW w \in Worker, Crash(w) PROVE [Ledger!Next]_(Ledger!vars)
  <2>1. /\ UNCHANGED tables
        /\ ~ InFlight(w)'
        /\ \A v \in Worker : v # w => (InFlight(v)' <=> InFlight(v))
                                      /\ ev'[v] = ev[v] /\ cur'[v] = cur[v]
    BY <1>15 DEF Crash, Leave, InFlight, TypeOK
  <2>2. CASE InFlight(w)
    <3>1. PICK e \in Event, p \in Push : e = ev[w] /\ p = cur[w]
      BY <2>2 DEF InFlight, WorkerInv
    <3>2. <<e, p>> \in OpenAlerts /\ OpenAlerts' = OpenAlerts \ {<<e, p>>}
      BY <2>1, <2>2, <3>1, OpenEnds
    <3>3. accepted' = accepted /\ lost' = [lost EXCEPT ![<<Slot(e), p>>] = @ + 1]
      BY <1>15, <2>2, <3>1 DEF Crash, InFlight
    <3>4. Ledger!Lose(e, p)
      BY <2>1, <3>2, <3>3, LedgerSlots DEF Ledger!Lose, tables
    <3> QED
      BY <3>4 DEF Ledger!Next
  <2>3. CASE ~ InFlight(w) /\ UNCHANGED history
    BY <1>0, <2>1, <2>3, OpenSame DEF tables, history
  <2>4. CASE ~ InFlight(w) /\ ~ UNCHANGED history
    <3>1. /\ pc[w] = "send"
          /\ accepted' = [accepted EXCEPT ![<<Slot(ev[w]), cur[w]>>] = @ + 1]
          /\ lost' = [lost EXCEPT ![<<Slot(ev[w]), cur[w]>>] = @ + 1]
      BY <1>15, <2>4 DEF Crash, InFlight
    <3>2. PICK e \in Event, p \in Push : e = ev[w] /\ p = cur[w]
      BY <3>1 DEF WorkerInv
    <3>3. Ledger!Clear(e, p)
      BY <2>4, <3>1, <3>2, SenderIsClear DEF Sending
    <3>4. OpenAlerts' = OpenAlerts
      BY <2>1, <2>4, OpenSame
    <3>5. Ledger!AcceptUnrecorded(e, p)
      BY <2>1, <3>1, <3>2, <3>3, <3>4, LedgerSlots DEF Ledger!AcceptUnrecorded, tables
    <3> QED
      BY <3>5 DEF Ledger!Next
  <2> QED
    BY <2>2, <2>3, <2>4
<1>16. ASSUME NEW u \in User, NEW t \in Team, NEW topics \in SUBSET Topics,
              EditFollowing(u, t, topics)
       PROVE UNCHANGED Ledger!vars
  BY <1>0, <1>16, OpenSame DEF EditFollowing, Edit, InFlight, worker, history
<1>17. ASSUME NEW u \in User, NEW m \in Match, ToggleMute(u, m) PROVE UNCHANGED Ledger!vars
  BY <1>0, <1>17, OpenSame DEF ToggleMute, Edit, InFlight, worker, history
<1>18. ASSUME NEW p \in Push, RegisterDevice(p) PROVE Ledger!Next
  <2>1. OpenAlerts' = OpenAlerts
    BY <1>18, OpenSame DEF RegisterDevice, Edit, InFlight, worker
  <2>2. Ledger!Enroll(p)
    BY <1>18, <2>1 DEF RegisterDevice, Edit, Ledger!Enroll, history
  <2> QED
    BY <2>2 DEF Ledger!Next
<1>19. ASSUME NEW p \in Push, RemoveDevice(p) PROVE Ledger!Next
  <2>1. OpenAlerts' = OpenAlerts
    BY <1>19, OpenSame DEF RemoveDevice, Edit, InFlight, worker
  <2>2. Ledger!Forget(p)
    BY <1>19, <2>1 DEF RemoveDevice, DropPush, Edit, Ledger!Forget, history
  <2> QED
    BY <2>2 DEF Ledger!Next
<1>20. CASE UNCHANGED vars
  BY <1>0, <1>20, OpenSame DEF InFlight, vars, tables, worker, history
<1> QED
  BY <1>1, <1>2, <1>3, <1>4, <1>5, <1>6, <1>7, <1>8, <1>9, <1>10, <1>11, <1>12,
     <1>13, <1>14, <1>15, <1>16, <1>17, <1>18, <1>19, <1>20
  DEF Next, WorkerStep, UserStep

\* The calls, with their locks and transactions, keep the ledger's promise.
THEOREM LedgerRefines == Spec => ImplementsLedger
<1>1. Init => Ledger!Init
  BY LedgerInit
<1>2. IInv /\ [Next]_vars => [Ledger!Next]_(Ledger!vars)
  BY LedgerStep
<1> QED
  BY <1>1, <1>2, InvHolds, PTL DEF Spec, ImplementsLedger, Ledger!Spec

----------------------------------------------------------------------------
(* Deployment implements Delivery.                                          *)

\* A step of Deployment is a step of Delivery or leaves its variables alone.
LEMMA DeploymentStepMaps == DeploymentNext => [Next]_vars
<1> SUFFICES ASSUME DeploymentNext PROVE [Next]_vars
  OBVIOUS
<1>1. CASE UserStep
  BY <1>1 DEF Next
<1>2. ASSUME NEW e \in Event, RecordEvent(e) PROVE [Next]_vars
  BY <1>2 DEF RecordEvent
<1>3. ASSUME NEW w \in Worker,
             Look(w) \/ LockUpgrade(w) \/ Install(w) \/ Abort(w) \/ NextRun(w)
      PROVE  [Next]_vars
  BY <1>3 DEF Look, LockUpgrade, Install, Abort, NextRun
<1>4. ASSUME NEW w \in Worker, Deliver(w) PROVE [Next]_vars
  BY <1>4 DEF Deliver, Next
<1> QED
  BY <1>1, <1>2, <1>3, <1>4 DEF DeploymentNext
\* The instances that upgrade, stop and start make only calls Delivery allows.
THEOREM DeploymentImplementsDelivery == DeploymentSpec => Spec
<1>1. DeploymentInit => Init
  BY DEF DeploymentInit
<1>2. [DeploymentNext]_deploymentVars => [Next]_vars
  BY DeploymentStepMaps DEF deploymentVars
<1> QED
  BY <1>1, <1>2, PTL DEF DeploymentSpec, Spec

----------------------------------------------------------------------------
(* History stays silent.                                                    *)

\* A worker between two calls has no event.
IdleInv == \A w \in Worker : pc[w] = "idle" => ev[w] = None

\* A step of a worker leaves the other ones alone, takes up an event only when
\* it was idle, and drops it when it becomes idle again.
LEMMA WorkerStepEvent ==
    ASSUME TypeOK, IdleInv, NEW w \in Worker, WorkerStep(w)
    PROVE  /\ \A v \in Worker : v # w => pc'[v] = pc[v] /\ ev'[v] = ev[v]
           /\ pc[w] # "idle" => ev'[w] \in {ev[w], None}
           /\ pc'[w] = "idle" => ev'[w] = None
<1> DEFINE Goal ==
        /\ \A v \in Worker : v # w => pc'[v] = pc[v] /\ ev'[v] = ev[v]
        /\ pc[w] # "idle" => ev'[w] \in {ev[w], None}
        /\ pc'[w] = "idle" => ev'[w] = None
<1>1. ASSUME NEW e \in Event, Start(w, e) PROVE Goal
  BY <1>1 DEF Start, TypeOK
<1>2. ASSUME NEW p \in Push, NextDevice(w, p) PROVE Goal
  BY <1>2 DEF NextDevice, TypeOK
<1>3. ASSUME Resolve(w) \/ LockMatch(w) \/ LockEvent(w) \/ SendAccepted(w) \/ SendTerminal(w)
      PROVE  Goal
  BY <1>3 DEF Resolve, LockMatch, LockEvent, SendAccepted, SendTerminal, TypeOK
<1>4. ASSUME SkipDevice(w) \/ SendExpired(w) \/ SendRetry(w) \/ SendLost(w) \/ CommitDevice(w)
      PROVE  Goal
  <2>1. EndDevice(w)
    BY <1>4 DEF SkipDevice, SendExpired, SendRetry, SendLost, CommitDevice
  <2> QED
    BY <2>1 DEF EndDevice, TypeOK
<1>5. ASSUME GiveUp(w) \/ Complete(w) \/ Crash(w) PROVE Goal
  <2>1. Leave(w)
    BY <1>5 DEF GiveUp, Complete, Crash
  <2> QED
    BY <2>1 DEF Leave, TypeOK
<1> QED
  BY <1>1, <1>2, <1>3, <1>4, <1>5 DEF WorkerStep

\* An edit of the users is no step of a worker.
LEMMA UserStepEvent == UserStep => UNCHANGED <<pc, ev>>
<1> SUFFICES ASSUME UserStep PROVE UNCHANGED <<pc, ev>>
  OBVIOUS
<1>1. Edit
  BY DEF UserStep, EditFollowing, ToggleMute, RegisterDevice, RemoveDevice
<1> QED
  BY <1>1 DEF Edit, worker

\* Up to the upgrade every event is historical and nobody delivers; from then
\* on the historical events are the stamped ones.
UpgradeInv ==
    /\ doing \in [Worker -> Parts \cup {"ready"}]
    /\ recorded \subseteq Event
    /\ historical \subseteq recorded
    /\ "receipts" \notin schema => historical = recorded /\ stamped = {}
    /\ "receipts" \in schema => stamped = historical
    /\ \A w \in Worker : doing[w] # "receipts" => "receipts" \in schema
    /\ \A w \in Worker : doing[w] # "ready" => pc[w] = "idle"
    /\ \A w \in Worker : ev[w] \notin historical

\* HistoryStaysSilent alone is not inductive: it takes that nobody is ready
\* before the upgrade, and that the upgrade meets only historical events.
SilentInv == TypeOK /\ IdleInv /\ UpgradeInv

\* Before the upgrade nothing is recorded and every instance has to look.
LEMMA SilentInit == DeploymentInit => SilentInv
<1> SUFFICES ASSUME DeploymentInit PROVE IdleInv /\ UpgradeInv
  BY InitType DEF DeploymentInit, SilentInv
<1> QED
  BY DEF DeploymentInit, Init, IdleInv, UpgradeInv, Parts

\* Every step keeps it.
LEMMA SilentStep == SilentInv /\ [DeploymentNext]_deploymentVars => SilentInv'
<1> SUFFICES ASSUME SilentInv, [DeploymentNext]_deploymentVars PROVE SilentInv'
  OBVIOUS
<1>0. TypeOK'
  <2>1. [Next]_vars
    BY DeploymentStepMaps DEF deploymentVars
  <2> QED
    BY <2>1, TypeStep DEF SilentInv
<1> USE DEF SilentInv
<1>1. CASE UserStep /\ UNCHANGED upgrade
  BY <1>0, <1>1, UserStepEvent DEF IdleInv, UpgradeInv, upgrade
<1>2. ASSUME NEW e \in Event, RecordEvent(e) PROVE IdleInv' /\ UpgradeInv'
  <2>1. \A w \in Worker : ev'[w] \notin historical'
    BY <1>2, DeliveryAssumption DEF RecordEvent, IdleInv, UpgradeInv, vars, worker
  <2> QED
    BY <1>2, <2>1 DEF RecordEvent, IdleInv, UpgradeInv, vars, worker
<1>3. ASSUME NEW w \in Worker, Look(w) PROVE IdleInv' /\ UpgradeInv'
  BY <1>3 DEF Look, Forward, IdleInv, UpgradeInv, Parts, vars, worker
<1>4. ASSUME NEW w \in Worker, LockUpgrade(w) PROVE IdleInv' /\ UpgradeInv'
  BY <1>4 DEF LockUpgrade, IdleInv, UpgradeInv, vars, worker
<1>5. ASSUME NEW w \in Worker, Install(w) PROVE IdleInv' /\ UpgradeInv'
  BY <1>5 DEF Install, Forward, IdleInv, UpgradeInv, Parts, vars, worker
<1>6. ASSUME NEW w \in Worker, Abort(w) PROVE IdleInv' /\ UpgradeInv'
  BY <1>6 DEF Abort, FromTheStart, IdleInv, UpgradeInv, Parts, vars, worker
<1>7. ASSUME NEW w \in Worker, NextRun(w) PROVE IdleInv' /\ UpgradeInv'
  BY <1>7 DEF NextRun, FromTheStart, IdleInv, UpgradeInv, Parts, vars, worker
<1>8. ASSUME NEW w \in Worker, Deliver(w) PROVE IdleInv' /\ UpgradeInv'
  <2>1. UNCHANGED upgrade /\ doing[w] = "ready" /\ WorkerStep(w)
        /\ (pc[w] = "idle" => ev'[w] \in recorded \ stamped)
    BY <1>8 DEF Deliver
  <2>2. /\ \A v \in Worker : v # w => pc'[v] = pc[v] /\ ev'[v] = ev[v]
        /\ pc[w] # "idle" => ev'[w] \in {ev[w], None}
        /\ pc'[w] = "idle" => ev'[w] = None
    BY <2>1, WorkerStepEvent
  <2>3. ev'[w] \notin historical
    BY <2>1, <2>2, DeliveryAssumption DEF UpgradeInv
  <2> QED
    BY <2>1, <2>2, <2>3 DEF IdleInv, UpgradeInv, upgrade
<1>9. CASE UNCHANGED deploymentVars
  BY <1>0, <1>9 DEF deploymentVars, upgrade, vars, worker, IdleInv, UpgradeInv
<1> QED
  BY <1>0, <1>1, <1>2, <1>3, <1>4, <1>5, <1>6, <1>7, <1>8, <1>9 DEF DeploymentNext

\* No call is made for an event from before the upgrade, and the upgrade closes
\* no other event, whatever instances start, stop and record.
THEOREM HistorySilent == DeploymentSpec => []HistoryStaysSilent
<1>1. SilentInv => HistoryStaysSilent
  BY DEF SilentInv, UpgradeInv, HistoryStaysSilent
<1> QED
  BY SilentInit, SilentStep, <1>1, PTL DEF DeploymentSpec

\* A device is alerted once, plus once per lost acceptance, also while
\* instances upgrade, stop and start.
THEOREM DeploymentAtMostOnce == DeploymentSpec => []AtMostOncePlusLost
  BY DeploymentImplementsDelivery, AtMostOnce, PTL
=============================================================================
