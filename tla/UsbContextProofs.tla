-------------------------- MODULE UsbContextProofs --------------------------
(***************************************************************************)
(* Proofs about the USB context, for any number of threads and of calls.   *)
(***************************************************************************)
EXTENDS UsbContext, FiniteSetTheorems, TLAPS

USE DEF vars

\* The counted threads are finitely many, and a counted one makes them at least
\* one; when they are one, it is the only one.
LEMMA CountFacts ==
  /\ IsFiniteSet(Counted) /\ Cardinality(Counted) \in Nat
  /\ \A u \in Counted : Cardinality(Counted) >= 1
  /\ \A u, v \in Counted : Cardinality(Counted) = 1 => u = v
<1>1. IsFiniteSet(Counted)
  BY UsersAssumption, FS_Subset DEF Counted
<1>2. Cardinality(Counted) \in Nat
  BY <1>1, FS_CardinalityType
<1>3. ASSUME NEW u \in Counted PROVE Cardinality(Counted) >= 1
  BY <1>1, <1>2, FS_EmptySet
<1>4. ASSUME NEW u \in Counted, NEW v \in Counted, Cardinality(Counted) = 1
      PROVE  u = v
  BY <1>1, <1>4, FS_Singleton
<1> QED
  BY <1>1, <1>2, <1>3, <1>4

\* The initial state satisfies the strengthened invariant.
LEMMA InvInit == Init => Inv
<1> SUFFICES ASSUME Init PROVE Inv
  OBVIOUS
<1>1. Counted = {}
  BY DEF Init, Counted
<1>2. CountIsDevices
  BY <1>1, FS_EmptySet DEF Init, CountIsDevices
<1> QED
  BY <1>2, NobodyAssumption
     DEF Init, Inv, TypeOK, UserPlaces, EventPlaces, LockHeld, Critical, StopToken, Stopping

\* Each step keeps the variables in their ranges, the semaphore's because the
\* token is posted by the last close only, and none is left then.
LEMMA TypeStep == Inv /\ [Next]_vars => TypeOK'
<1> SUFFICES ASSUME Inv, [Next]_vars PROVE TypeOK'
  OBVIOUS
<1> USE DEF Inv, TypeOK, UserPlaces, EventPlaces, Goes, NoFault, Fault, Lock, Unlock
<1>1. ASSUME NEW u \in Users, OpenHandle(u) PROVE TypeOK'
  BY <1>1 DEF OpenHandle
<1>2. ASSUME NEW u \in Users, Close(u) PROVE TypeOK'
  BY <1>2 DEF Close
<1>3. ASSUME NEW u \in Users, OpenLock(u) PROVE TypeOK'
  BY <1>3 DEF OpenLock
<1>4. ASSUME NEW u \in Users, OpenCreate(u) PROVE TypeOK'
  BY <1>4 DEF OpenCreate
<1>5. ASSUME NEW u \in Users, CloseLock(u) PROVE TypeOK'
  BY <1>5 DEF CloseLock
<1>6. ASSUME NEW u \in Users, ClosePost(u) PROVE TypeOK'
  <2>1. ~Stopping
    <3> SUFFICES ASSUME NEW v \in Users, user[v] \in {"close_handle", "close_join"}
                 PROVE  FALSE
      BY DEF Stopping
    <3>1. mutex = v /\ mutex = u
      BY <1>6 DEF LockHeld, Critical, ClosePost
    <3> QED
      BY <1>6, <3>1 DEF ClosePost
  <2>2. semStop = 0
    BY <2>1 DEF StopToken
  <2> QED
    BY <1>6, <2>2 DEF ClosePost
<1>7. ASSUME NEW u \in Users, CloseHandle(u) PROVE TypeOK'
  BY <1>7 DEF CloseHandle
<1>8. ASSUME NEW u \in Users, CloseJoin(u) PROVE TypeOK'
  <2>1. u \in Counted
    BY <1>8 DEF CloseJoin, Counted
  <2>2. devcount - 1 \in Nat
    BY <2>1, CountFacts DEF CountIsDevices
  <2> QED
    BY <1>8, <2>2 DEF CloseJoin
<1>9. CASE CheckStop
  BY <1>9 DEF CheckStop
<1>10. CASE HandleEvents
  BY <1>10 DEF HandleEvents
<1>11. CASE UNCHANGED vars
  BY <1>11
<1> QED
  BY <1>1, <1>2, <1>3, <1>4, <1>5, <1>6, <1>7, <1>8, <1>9, <1>10, <1>11
     DEF Next, UserStep, EventNext, Finished

\* The mutex has one owner, inside the critical sections.
LEMMA LockStep == Inv /\ [Next]_vars => LockHeld'
<1> SUFFICES ASSUME Inv, [Next]_vars PROVE LockHeld'
  OBVIOUS
<1> USE NobodyAssumption DEF Inv, TypeOK, LockHeld, Critical, Goes, Lock, Unlock
<1>1. ASSUME NEW u \in Users, OpenHandle(u) PROVE LockHeld'
  BY <1>1 DEF OpenHandle
<1>2. ASSUME NEW u \in Users, Close(u) PROVE LockHeld'
  BY <1>2 DEF Close
<1>3. ASSUME NEW u \in Users, OpenLock(u) PROVE LockHeld'
  BY <1>3 DEF OpenLock
<1>4. ASSUME NEW u \in Users, OpenCreate(u) PROVE LockHeld'
  BY <1>4 DEF OpenCreate
<1>5. ASSUME NEW u \in Users, CloseLock(u) PROVE LockHeld'
  BY <1>5 DEF CloseLock
<1>6. ASSUME NEW u \in Users, ClosePost(u) PROVE LockHeld'
  BY <1>6 DEF ClosePost
<1>7. ASSUME NEW u \in Users, CloseHandle(u) PROVE LockHeld'
  BY <1>7 DEF CloseHandle
<1>8. ASSUME NEW u \in Users, CloseJoin(u) PROVE LockHeld'
  BY <1>8 DEF CloseJoin
<1>9. CASE EventNext
  BY <1>9 DEF EventNext, CheckStop, HandleEvents
<1>10. CASE UNCHANGED vars
  BY <1>10
<1> QED
  BY <1>1, <1>2, <1>3, <1>4, <1>5, <1>6, <1>7, <1>8, <1>9, <1>10
     DEF Next, UserStep, Finished

\* The count follows the devices: an open adds one, a close takes one away.
LEMMA CountStep == Inv /\ [Next]_vars => CountIsDevices'
<1> SUFFICES ASSUME Inv, [Next]_vars PROVE CountIsDevices'
  OBVIOUS
<1> USE DEF Inv, TypeOK, CountIsDevices, Goes
<1>1. ASSUME NEW u \in Users, OpenCreate(u) PROVE CountIsDevices'
  <2>1. CASE user'[u] = "opened"
    <3>1. u \notin Counted /\ Counted' = Counted \cup {u}
      BY <1>1, <2>1 DEF OpenCreate, Counted
    <3>2. Cardinality(Counted') = Cardinality(Counted) + 1
      BY <3>1, CountFacts, FS_AddElement
    <3>3. devcount' = devcount + 1
      BY <1>1, <2>1 DEF OpenCreate
    <3> QED
      BY <3>2, <3>3
  <2>2. CASE user'[u] = "idle"
    <3>1. Counted' = Counted /\ devcount' = devcount
      BY <1>1, <2>2 DEF OpenCreate, Counted
    <3> QED
      BY <3>1
  <2> QED
    BY <1>1, <2>1, <2>2 DEF OpenCreate
<1>2. ASSUME NEW u \in Users, CloseJoin(u) PROVE CountIsDevices'
  <2>1. u \in Counted /\ Counted' = Counted \ {u}
    BY <1>2 DEF CloseJoin, Counted
  <2>2. Cardinality(Counted') = Cardinality(Counted) - 1
    BY <2>1, CountFacts, FS_RemoveElement
  <2> QED
    BY <1>2, <2>2 DEF CloseJoin
<1>3. CASE Counted' = Counted /\ devcount' = devcount
  BY <1>3
<1>4. ASSUME NEW u \in Users, OpenHandle(u) \/ OpenLock(u)
      PROVE  Counted' = Counted /\ devcount' = devcount
  BY <1>4 DEF OpenHandle, OpenLock, Counted
<1>5. ASSUME NEW u \in Users, Close(u) \/ CloseLock(u) \/ ClosePost(u) \/ CloseHandle(u)
      PROVE  Counted' = Counted /\ devcount' = devcount
  BY <1>5 DEF Close, CloseLock, ClosePost, CloseHandle, Counted
<1>6. ASSUME EventNext \/ UNCHANGED vars
      PROVE  Counted' = Counted /\ devcount' = devcount
  BY <1>6 DEF EventNext, CheckStop, HandleEvents, Counted
<1> QED
  BY <1>1, <1>2, <1>3, <1>4, <1>5, <1>6 DEF Next, UserStep, Finished

\* The token is there from the last close's post until the thread takes it, and
\* the thread is there until the last close has joined it.
LEMMA TokenStep == Inv /\ [Next]_vars => StopToken'
<1> SUFFICES ASSUME Inv, [Next]_vars PROVE StopToken'
  OBVIOUS
<1> USE DEF Inv, TypeOK, EventPlaces, StopToken, Stopping, Goes, NoFault, Fault
<1>0. ASSUME NEW u \in Users, user[u] \in Critical
      PROVE  \A v \in Users : user[v] \in Critical => v = u
  BY <1>0 DEF LockHeld
<1>1. ASSUME NEW u \in Users, OpenHandle(u) PROVE StopToken'
  BY <1>1 DEF OpenHandle
<1>2. ASSUME NEW u \in Users, Close(u) PROVE StopToken'
  BY <1>2 DEF Close
<1>3. ASSUME NEW u \in Users, OpenLock(u) PROVE StopToken'
  BY <1>3 DEF OpenLock
<1>4. ASSUME NEW u \in Users, OpenCreate(u) PROVE StopToken'
  <2>1. ~Stopping /\ ~Stopping'
    BY <1>0, <1>4 DEF OpenCreate, Critical
  <2> QED
    BY <1>4, <2>1 DEF OpenCreate
<1>5. ASSUME NEW u \in Users, CloseLock(u) PROVE StopToken'
  BY <1>5 DEF CloseLock
<1>6. ASSUME NEW u \in Users, ClosePost(u) PROVE StopToken'
  <2>1. ~Stopping
    BY <1>0, <1>6 DEF ClosePost, Critical
  <2>2. Stopping' <=> devcount = 1
    BY <1>0, <1>6 DEF ClosePost, Critical
  <2> QED
    BY <1>6, <2>1, <2>2 DEF ClosePost
<1>7. ASSUME NEW u \in Users, CloseHandle(u) PROVE StopToken'
  <2>1. Stopping' <=> Stopping
    BY <1>7 DEF CloseHandle
  <2> QED
    BY <1>7, <2>1 DEF CloseHandle
<1>8. ASSUME NEW u \in Users, CloseJoin(u) PROVE StopToken'
  <2>1. ~Stopping'
    BY <1>0, <1>8 DEF CloseJoin, Critical
  <2>2. Stopping <=> devcount = 1
    BY <1>0, <1>8 DEF CloseJoin, Critical
  <2>3. devcount >= 1
    BY <1>8, CountFacts DEF CloseJoin, Counted, CountIsDevices
  <2> QED
    BY <1>8, <2>1, <2>2, <2>3 DEF CloseJoin
<1>9. CASE CheckStop
  <2>1. Stopping' <=> Stopping
    BY <1>9 DEF CheckStop
  <2> QED
    BY <1>9, <2>1 DEF CheckStop
<1>10. CASE HandleEvents
  BY <1>10 DEF HandleEvents
<1>11. CASE UNCHANGED vars
  BY <1>11
<1> QED
  BY <1>1, <1>2, <1>3, <1>4, <1>5, <1>6, <1>7, <1>8, <1>9, <1>10, <1>11
     DEF Next, UserStep, EventNext, Finished

-----------------------------------------------------------------------------
(* The theorems.                                                           *)

\* The strengthened invariant holds in every state of every execution.
THEOREM InvHolds == Spec => []Inv
<1>1. Inv /\ [Next]_vars => Inv'
  BY TypeStep, LockStep, CountStep, TokenStep DEF Inv
<1> QED
  BY <1>1, InvInit, PTL DEF Spec

\* The variables keep their types; the stop semaphore is never posted twice.
THEOREM TypeCorrect == Spec => []TypeOK
<1>1. Inv => TypeOK
  BY DEF Inv
<1> QED
  BY <1>1, InvHolds, PTL

\* devcount is the number of devices opened, whichever opens failed.
THEOREM CountIsDevicesHolds == Spec => []CountIsDevices
<1>1. Inv => CountIsDevices
  BY DEF Inv
<1> QED
  BY <1>1, InvHolds, PTL

\* Whoever has an open device has an event thread that will not stop.
THEOREM EventThreadServesHolds == Spec => []EventThreadServes
<1>1. Inv => EventThreadServes
  <2> SUFFICES ASSUME Inv, NEW u \in Users, user[u] \in {"opened", "close_lock"}
               PROVE  event \in {"check", "handle"} /\ semStop = 0
    BY DEF EventThreadServes
  <2> USE DEF Inv
  <2>1. u \in Counted
    BY DEF Counted
  <2>2. ASSUME NEW v \in Users, user[v] \in {"close_handle", "close_join"}, devcount = 1
        PROVE  FALSE
    <3>1. v \in Counted
      BY <2>2 DEF Counted
    <3>2. u = v
      BY <2>1, <2>2, <3>1, CountFacts DEF CountIsDevices
    <3> QED
      BY <2>2, <3>2
  <2>3. ~Stopping
    BY <2>2 DEF Stopping
  <2>4. devcount # 0
    BY <2>1, CountFacts DEF CountIsDevices
  <2> QED
    BY <2>3, <2>4 DEF StopToken, TypeOK, EventPlaces
<1> QED
  BY <1>1, InvHolds, PTL

\* Outside the critical sections there is an event thread just when a device is
\* counted.
THEOREM ThreadEndsWithDevicesHolds == Spec => []ThreadEndsWithDevices
<1>1. Inv => ThreadEndsWithDevices
  <2> SUFFICES ASSUME Inv, mutex = Nobody
               PROVE  (devcount = 0 <=> event = "none") /\ event # "exited"
    BY DEF ThreadEndsWithDevices
  <2>1. ~Stopping
    BY NobodyAssumption DEF Inv, Stopping, LockHeld, Critical
  <2> QED
    BY <2>1 DEF Inv, StopToken
<1> QED
  BY <1>1, InvHolds, PTL

\* The event thread is there for whoever has a device, and for nobody else.
THEOREM ThreadMatchesDevicesHolds == Spec => []ThreadMatchesDevices
BY EventThreadServesHolds, ThreadEndsWithDevicesHolds, PTL
   DEF ThreadMatchesDevices
=============================================================================
