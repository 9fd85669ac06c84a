--------------------------- MODULE TransferProofs ---------------------------
(***************************************************************************)
(* Proofs about the transfer machinery, for any set of pictures, any       *)
(* bounds and either state of the interpreter lock.                        *)
(***************************************************************************)
EXTENDS Transfer, FiniteSetTheorems, TLAPS

USE DEF vars, cameraVars, syncVars, objectVars, localVars, imageVars,
        threadVars, pythonVars, boundVars, failVars,
        NoFault, NewFault, Fault, InStep, Succeeds, Fails, Answers

\* ptp_sony_get_pending_objects answers a number: the camera holds finitely many
\* pictures, and none that it never took.
LEMMA PendingBound ==
  TypeOK => Cardinality(captured \cup ready) \in 0..Cardinality(Images)
<1> SUFFICES ASSUME TypeOK
             PROVE  Cardinality(captured \cup ready) \in 0..Cardinality(Images)
  OBVIOUS
<1>1. captured \cup ready \subseteq Images
  BY DEF TypeOK
<1>2. /\ IsFiniteSet(captured \cup ready)
      /\ Cardinality(captured \cup ready) <= Cardinality(Images)
  BY <1>1, ImagesAssumption, FS_Subset
<1>3. Cardinality(captured \cup ready) \in Nat /\ Cardinality(Images) \in Nat
  BY <1>2, ImagesAssumption, FS_CardinalityType
<1> QED
  BY <1>2, <1>3

\* The bound of 0 pictures is a bound.
LEMMA NonePending == 0 \in 0..Cardinality(Images)
BY ImagesAssumption, FS_CardinalityType

\* The initial state has its types.
LEMMA TypeInit == Init => TypeOK
BY NonePending DEF Init, TypeOK, Owners, States, ThreadPlaces, PythonPlaces

\* Each step keeps every variable in its range.
LEMMA TypeStep == TypeOK /\ [Next]_vars => TypeOK'
<1> SUFFICES ASSUME TypeOK, [Next]_vars PROVE TypeOK'
  OBVIOUS
<1> USE DEF TypeOK, Owners, States, ThreadPlaces, PythonPlaces
<1>1. ASSUME NEW i \in Images, Shoot(i) PROVE TypeOK'
  BY <1>1 DEF Shoot
<1>2. ASSUME NEW i \in Images, BecomeReady(i) PROVE TypeOK'
  BY <1>2 DEF BecomeReady
<1>3. CASE EventCallback
  BY <1>3 DEF EventCallback
<1>4. CASE WaitToken
  BY <1>4, NonePending DEF WaitToken
<1>5. CASE WaitTimeout
  BY <1>5, NonePending DEF WaitTimeout
<1>6. CASE PollLock
  BY <1>6 DEF PollLock, Acquire, LockExpires
<1>7. CASE Poll
  BY <1>7, PendingBound DEF Poll, Unlock
<1>8. CASE CheckStop
  BY <1>8 DEF CheckStop
<1>9. CASE CheckContinue
  BY <1>9 DEF CheckContinue
<1>10. CASE ThreadLock
  BY <1>10 DEF ThreadLock, Acquire, LockExpires
<1>11. CASE GetObjectInfo
  BY <1>11 DEF GetObjectInfo, Unlock
<1>12. CASE GetObject
  BY <1>12 DEF GetObject, Unlock
<1>13. CASE Save
  BY <1>13 DEF Save
<1>14. CASE CallbackEnter
  BY <1>14 DEF CallbackEnter, TakeGil
<1>15. CASE CallbackYield
  BY <1>15 DEF CallbackYield, FreeGil
<1>16. CASE CallbackReturn
  BY <1>16 DEF CallbackReturn, FreeGil
<1>17. CASE CallbackCall
  BY <1>17 DEF CallbackCall
<1>18. CASE CallbackLock
  BY <1>18 DEF CallbackLock, Acquire, LockExpires
<1>19. CASE CallbackUnlock
  BY <1>19 DEF CallbackUnlock, Unlock
<1>20. CASE MethodEnter
  BY <1>20 DEF MethodEnter, TakeGil
<1>21. CASE InitEnter
  BY <1>21 DEF InitEnter, TakeGil, EnterStop
<1>22. CASE DeallocEnter
  BY <1>22 DEF DeallocEnter, TakeGil, EnterStop
<1>23. CASE MethodLock
  BY <1>23 DEF MethodLock, Acquire, LockExpires, FreeGil
<1>24. CASE MethodReturn
  BY <1>24 DEF MethodReturn, Unlock, FreeGil
<1>25. CASE PostStop
  BY <1>25 DEF PostStop
<1>26. CASE PostEvent
  BY <1>26 DEF PostEvent
<1>27. CASE Join
  BY <1>27 DEF Join
<1>28. CASE FreeDevice
  BY <1>28 DEF FreeDevice, CloseDevice, FreeGil
<1>29. CASE FreeSems
  BY <1>29 DEF FreeSems, FreeGil
<1>30. CASE Prepare
  BY <1>30 DEF Prepare, FreeGil
<1>31. CASE OpenDevice
  BY <1>31 DEF OpenDevice
<1>32. CASE OpenSession
  BY <1>32 DEF OpenSession, CloseDevice
<1>33. CASE StartTransfer
  BY <1>33 DEF StartTransfer, FreeGil
<1>34. CASE UndoDevice
  BY <1>34 DEF UndoDevice, CloseDevice
<1>35. CASE UNCHANGED vars
  BY <1>35
<1> QED
  BY <1>1, <1>2, <1>3, <1>4, <1>5, <1>6, <1>7, <1>8, <1>9, <1>10, <1>11, <1>12, <1>13, <1>14, <1>15, <1>16, <1>17, <1>18, <1>19, <1>20, <1>21, <1>22, <1>23, <1>24, <1>25, <1>26, <1>27, <1>28, <1>29, <1>30, <1>31, <1>32, <1>33, <1>34, <1>35
     DEF Next, CameraNext, ThreadNext, PythonNext, PythonStep, Gone

\* What LifeCycle, LockDiscipline, StopToken and WakeUp are made of.
LEMMA InvInit == Init => Inv
BY TypeInit DEF Init, Inv, LifeCycle, LockDiscipline, ThreadLocks,
   ThreadTransacts, StopToken, WakeUp

\* Each step keeps the strengthened invariant.
LEMMA InvStep == Inv /\ [Next]_vars => Inv'
<1> SUFFICES ASSUME Inv, [Next]_vars PROVE Inv'
  OBVIOUS
<1>t. TypeOK'
  BY TypeStep DEF Inv
<1> DEFINE Rest == LifeCycle /\ LockDiscipline /\ StopToken /\ WakeUp
<1> SUFFICES Rest'
  BY <1>t DEF Inv
<1> USE DEF Inv, TypeOK, ThreadPlaces, PythonPlaces, Owners, States, LifeCycle,
        LockDiscipline, ThreadLocks, ThreadTransacts, StopToken, WakeUp,
        ThreadAlive, MayStop
<1>1. ASSUME NEW i \in Images, Shoot(i) PROVE Rest'
  BY <1>1 DEF Shoot
<1>2. ASSUME NEW i \in Images, BecomeReady(i) PROVE Rest'
  BY <1>2 DEF BecomeReady
<1>3. CASE EventCallback
  BY <1>3 DEF EventCallback
<1>4. CASE WaitToken
  BY <1>4 DEF WaitToken
<1>5. CASE WaitTimeout
  BY <1>5 DEF WaitTimeout
<1>6. CASE PollLock
  BY <1>6 DEF PollLock, Acquire, LockExpires
<1>7. CASE Poll
  BY <1>7 DEF Poll, Unlock
<1>8. CASE CheckStop
  BY <1>8 DEF CheckStop
<1>9. CASE CheckContinue
  BY <1>9 DEF CheckContinue
<1>10. CASE ThreadLock
  BY <1>10 DEF ThreadLock, Acquire, LockExpires
<1>11. CASE GetObjectInfo
  BY <1>11 DEF GetObjectInfo, Unlock
<1>12. CASE GetObject
  BY <1>12 DEF GetObject, Unlock
<1>13. CASE Save
  BY <1>13 DEF Save
<1>14. CASE CallbackEnter
  BY <1>14 DEF CallbackEnter, TakeGil
<1>15. CASE CallbackYield
  BY <1>15 DEF CallbackYield, FreeGil
<1>16. CASE CallbackReturn
  BY <1>16 DEF CallbackReturn, FreeGil
<1>17. CASE CallbackCall
  BY <1>17 DEF CallbackCall
<1>18. CASE CallbackLock
  BY <1>18 DEF CallbackLock, Acquire, LockExpires
<1>19. CASE CallbackUnlock
  BY <1>19 DEF CallbackUnlock, Unlock
<1>20. CASE MethodEnter
  BY <1>20 DEF MethodEnter, TakeGil
<1>21. CASE InitEnter
  BY <1>21 DEF InitEnter, TakeGil, EnterStop
<1>22. CASE DeallocEnter
  BY <1>22 DEF DeallocEnter, TakeGil, EnterStop
<1>23. CASE MethodLock
  BY <1>23 DEF MethodLock, Acquire, LockExpires, FreeGil
<1>24. CASE MethodReturn
  BY <1>24 DEF MethodReturn, Unlock, FreeGil
<1>25. CASE PostStop
  BY <1>25 DEF PostStop
<1>26. CASE PostEvent
  BY <1>26 DEF PostEvent
<1>27. CASE Join
  BY <1>27 DEF Join
<1>28. CASE FreeDevice
  BY <1>28 DEF FreeDevice, CloseDevice, FreeGil
<1>29. CASE FreeSems
  BY <1>29 DEF FreeSems, FreeGil
<1>30. CASE Prepare
  BY <1>30 DEF Prepare, FreeGil
<1>31. CASE OpenDevice
  BY <1>31 DEF OpenDevice
<1>32. CASE OpenSession
  BY <1>32 DEF OpenSession, CloseDevice
<1>33. CASE StartTransfer
  BY <1>33 DEF StartTransfer, FreeGil
<1>34. CASE UndoDevice
  BY <1>34 DEF UndoDevice, CloseDevice
<1>35. CASE UNCHANGED vars
  BY <1>35
<1> QED
  BY <1>1, <1>2, <1>3, <1>4, <1>5, <1>6, <1>7, <1>8, <1>9, <1>10, <1>11, <1>12, <1>13, <1>14, <1>15, <1>16, <1>17, <1>18, <1>19, <1>20, <1>21, <1>22, <1>23, <1>24, <1>25, <1>26, <1>27, <1>28, <1>29, <1>30, <1>31, <1>32, <1>33, <1>34, <1>35
     DEF Next, CameraNext, ThreadNext, PythonNext, PythonStep, Gone

-----------------------------------------------------------------------------
(* The theorems.                                                           *)

\* Every variable stays in its range.
THEOREM TypeCorrect == Spec => []TypeOK
<1>1. Init => TypeOK
  BY TypeInit
<1>2. TypeOK /\ [Next]_vars => TypeOK'
  BY TypeStep
<1> QED
  BY <1>1, <1>2, PTL DEF Spec

\* Life cycle, lock discipline, stop token and wake-up tokens hold together, in
\* every state of every execution.
THEOREM InvHolds == Spec => []Inv
<1>1. Init => Inv
  BY InvInit
<1>2. Inv /\ [Next]_vars => Inv'
  BY InvStep
<1> QED
  BY <1>1, <1>2, PTL DEF Spec

\* The mutex is held where the code says it is, and nowhere else.
THEOREM LockDisciplineHolds == Spec => []LockDiscipline
<1>1. Inv => LockDiscipline
  BY DEF Inv
<1> QED
  BY <1>1, InvHolds, PTL

\* No two threads are in a PTP transaction at once.
THEOREM OneTransactionHolds == Spec => []OneTransaction
<1>1. Inv => OneTransaction
  BY DEF Inv, TypeOK, LifeCycle, LockDiscipline, ThreadLocks, OneTransaction,
         ThreadTransacts, PythonTransacts
<1> QED
  BY <1>1, InvHolds, PTL

\* A stop that was asked for is never lost.
THEOREM StopNotLostHolds == Spec => []StopNotLost
<1>1. Inv => StopNotLost
  BY DEF Inv, StopToken, WakeUp, StopNotLost, ThreadAlive
<1> QED
  BY <1>1, InvHolds, PTL

\* Device, semaphores and mutex outlive the thread and the event callback.
THEOREM ObjectsOutliveThreadHolds == Spec => []ObjectsOutliveThread
<1>1. Inv => ObjectsOutliveThread
  BY DEF Inv, LifeCycle, ObjectsOutliveThread, ThreadAlive
<1> QED
  BY <1>1, InvHolds, PTL

\* A method never waits for a mutex whose owner waits for the interpreter lock.
THEOREM NoLockCycleHolds == Spec => []NoLockCycle
<1>1. Inv => NoLockCycle
  BY DEF Inv, LockDiscipline, ThreadLocks, ThreadTransacts, NoLockCycle
<1> QED
  BY <1>1, InvHolds, PTL

\* A thread that gives up on the mutex gave up on another thread's lock.
THEOREM NoSelfTimeoutHolds == Spec => NoSelfTimeout
<1> DEFINE Step ==
      /\ thread = "cb_lock" /\ thread' = "cb" => mutex = "python"
      /\ python = "method_lock" /\ python' = "idle" => mutex = "thread"
<1>1. Inv /\ [Next]_vars => [Step]_vars
  <2> SUFFICES ASSUME Inv, [Next]_vars PROVE Step \/ UNCHANGED vars
    OBVIOUS
  <2> USE DEF Inv, TypeOK, Owners, LockDiscipline, ThreadLocks, ThreadTransacts
  <2>1. ASSUME NEW i \in Images, Shoot(i) PROVE Step
    BY <2>1 DEF Shoot
  <2>2. ASSUME NEW i \in Images, BecomeReady(i) PROVE Step
    BY <2>2 DEF BecomeReady
  <2>3. CASE EventCallback
    BY <2>3 DEF EventCallback
  <2>4. CASE WaitToken
    BY <2>4 DEF WaitToken
  <2>5. CASE WaitTimeout
    BY <2>5 DEF WaitTimeout
  <2>6. CASE PollLock
    BY <2>6 DEF PollLock, Acquire, LockExpires
  <2>7. CASE Poll
    BY <2>7 DEF Poll, Unlock
  <2>8. CASE CheckStop
    BY <2>8 DEF CheckStop
  <2>9. CASE CheckContinue
    BY <2>9 DEF CheckContinue
  <2>10. CASE ThreadLock
    BY <2>10 DEF ThreadLock, Acquire, LockExpires
  <2>11. CASE GetObjectInfo
    BY <2>11 DEF GetObjectInfo, Unlock
  <2>12. CASE GetObject
    BY <2>12 DEF GetObject, Unlock
  <2>13. CASE Save
    BY <2>13 DEF Save
  <2>14. CASE CallbackEnter
    BY <2>14 DEF CallbackEnter, TakeGil
  <2>15. CASE CallbackYield
    BY <2>15 DEF CallbackYield, FreeGil
  <2>16. CASE CallbackReturn
    BY <2>16 DEF CallbackReturn, FreeGil
  <2>17. CASE CallbackCall
    BY <2>17 DEF CallbackCall
  <2>18. CASE CallbackLock
    BY <2>18 DEF CallbackLock, Acquire, LockExpires
  <2>19. CASE CallbackUnlock
    BY <2>19 DEF CallbackUnlock, Unlock
  <2>20. CASE MethodEnter
    BY <2>20 DEF MethodEnter, TakeGil
  <2>21. CASE InitEnter
    BY <2>21 DEF InitEnter, TakeGil, EnterStop
  <2>22. CASE DeallocEnter
    BY <2>22 DEF DeallocEnter, TakeGil, EnterStop
  <2>23. CASE MethodLock
    BY <2>23 DEF MethodLock, Acquire, LockExpires, FreeGil
  <2>24. CASE MethodReturn
    BY <2>24 DEF MethodReturn, Unlock, FreeGil
  <2>25. CASE PostStop
    BY <2>25 DEF PostStop
  <2>26. CASE PostEvent
    BY <2>26 DEF PostEvent
  <2>27. CASE Join
    BY <2>27 DEF Join
  <2>28. CASE FreeDevice
    BY <2>28 DEF FreeDevice, CloseDevice, FreeGil
  <2>29. CASE FreeSems
    BY <2>29 DEF FreeSems, FreeGil
  <2>30. CASE Prepare
    BY <2>30 DEF Prepare, FreeGil
  <2>31. CASE OpenDevice
    BY <2>31 DEF OpenDevice
  <2>32. CASE OpenSession
    BY <2>32 DEF OpenSession, CloseDevice
  <2>33. CASE StartTransfer
    BY <2>33 DEF StartTransfer, FreeGil
  <2>34. CASE UndoDevice
    BY <2>34 DEF UndoDevice, CloseDevice
  <2> QED
    BY <2>1, <2>2, <2>3, <2>4, <2>5, <2>6, <2>7, <2>8, <2>9, <2>10, <2>11, <2>12, <2>13, <2>14, <2>15, <2>16, <2>17, <2>18, <2>19, <2>20, <2>21, <2>22, <2>23, <2>24, <2>25, <2>26, <2>27, <2>28, <2>29, <2>30, <2>31, <2>32, <2>33, <2>34
       DEF Next, CameraNext, ThreadNext, PythonNext, PythonStep, Gone
<1> QED
  BY <1>1, InvHolds, PTL DEF Spec, NoSelfTimeout

\* The files of a session have names of their own.
LEMMA FilesStep == TypeOK /\ LifeCycle /\ FilesInv /\ [Next]_vars => FilesInv'
<1> SUFFICES ASSUME TypeOK, LifeCycle, FilesInv, [Next]_vars PROVE FilesInv'
  OBVIOUS
<1> USE DEF TypeOK, FilesInv, FilesBehind, NoOverwrite, InCallback
<1>1. ASSUME NEW i \in Images, Shoot(i) PROVE FilesInv'
  BY <1>1 DEF Shoot
<1>2. ASSUME NEW i \in Images, BecomeReady(i) PROVE FilesInv'
  BY <1>2 DEF BecomeReady
<1>3. CASE EventCallback
  BY <1>3 DEF EventCallback
<1>4. CASE WaitToken
  BY <1>4 DEF WaitToken
<1>5. CASE WaitTimeout
  BY <1>5 DEF WaitTimeout
<1>6. CASE PollLock
  BY <1>6 DEF PollLock, Acquire, LockExpires
<1>7. CASE Poll
  BY <1>7 DEF Poll, Unlock
<1>8. CASE CheckStop
  BY <1>8 DEF CheckStop
<1>9. CASE CheckContinue
  BY <1>9 DEF CheckContinue
<1>10. CASE ThreadLock
  BY <1>10 DEF ThreadLock, Acquire, LockExpires
<1>11. CASE GetObjectInfo
  BY <1>11 DEF GetObjectInfo, Unlock
<1>12. CASE GetObject
  BY <1>12 DEF GetObject, Unlock
<1>13. CASE Save
  BY <1>13 DEF Save
<1>14. CASE CallbackEnter
  BY <1>14 DEF CallbackEnter, TakeGil
<1>15. CASE CallbackYield
  BY <1>15 DEF CallbackYield, FreeGil
<1>16. CASE CallbackReturn
  BY <1>16 DEF CallbackReturn, FreeGil
<1>17. CASE CallbackCall
  BY <1>17 DEF CallbackCall
<1>18. CASE CallbackLock
  BY <1>18 DEF CallbackLock, Acquire, LockExpires
<1>19. CASE CallbackUnlock
  BY <1>19 DEF CallbackUnlock, Unlock
<1>20. CASE MethodEnter
  BY <1>20 DEF MethodEnter, TakeGil
<1>21. CASE InitEnter
  BY <1>21 DEF InitEnter, TakeGil, EnterStop
<1>22. CASE DeallocEnter
  BY <1>22 DEF DeallocEnter, TakeGil, EnterStop
<1>23. CASE MethodLock
  BY <1>23 DEF MethodLock, Acquire, LockExpires, FreeGil
<1>24. CASE MethodReturn
  BY <1>24 DEF MethodReturn, Unlock, FreeGil
<1>25. CASE PostStop
  BY <1>25 DEF PostStop
<1>26. CASE PostEvent
  BY <1>26 DEF PostEvent
<1>27. CASE Join
  BY <1>27 DEF Join, LifeCycle
<1>28. CASE FreeDevice
  BY <1>28 DEF FreeDevice, CloseDevice, FreeGil
<1>29. CASE FreeSems
  BY <1>29 DEF FreeSems, FreeGil
<1>30. CASE Prepare
  BY <1>30 DEF Prepare, FreeGil
<1>31. CASE OpenDevice
  BY <1>31 DEF OpenDevice
<1>32. CASE OpenSession
  BY <1>32 DEF OpenSession, CloseDevice, LifeCycle
<1>33. CASE StartTransfer
  BY <1>33 DEF StartTransfer, FreeGil, LifeCycle
<1>34. CASE UndoDevice
  BY <1>34 DEF UndoDevice, CloseDevice
<1>35. CASE UNCHANGED vars
  BY <1>35
<1> QED
  BY <1>1, <1>2, <1>3, <1>4, <1>5, <1>6, <1>7, <1>8, <1>9, <1>10, <1>11, <1>12, <1>13, <1>14, <1>15, <1>16, <1>17, <1>18, <1>19, <1>20, <1>21, <1>22, <1>23, <1>24, <1>25, <1>26, <1>27, <1>28, <1>29, <1>30, <1>31, <1>32, <1>33, <1>34, <1>35
     DEF Next, CameraNext, ThreadNext, PythonNext, PythonStep, Gone

\* A session never saves two pictures under one name.
THEOREM NoOverwriteHolds == Spec => []NoOverwrite
<1>1. Init => FilesInv
  BY DEF Init, FilesInv, FilesBehind, NoOverwrite
<1>2. (Inv /\ FilesInv) /\ [Next]_vars => FilesInv'
  BY FilesStep DEF Inv
<1>3. FilesInv => NoOverwrite
  BY DEF FilesInv
<1> QED
  BY <1>1, <1>2, <1>3, InvHolds, PTL DEF Spec

\* A picture is in one place.
LEMMA OnePlaceStep == Inv /\ OnePlace /\ [Next]_vars => OnePlace'
<1> SUFFICES ASSUME Inv, OnePlace, [Next]_vars PROVE OnePlace'
  OBVIOUS
<1> USE DEF Inv, TypeOK, OnePlace, Settled
<1>1. ASSUME NEW i \in Images, Shoot(i) PROVE OnePlace'
  BY <1>1 DEF Shoot
<1>2. ASSUME NEW i \in Images, BecomeReady(i) PROVE OnePlace'
  BY <1>2 DEF BecomeReady
<1>3. CASE EventCallback
  BY <1>3 DEF EventCallback
<1>4. CASE WaitToken
  BY <1>4 DEF WaitToken
<1>5. CASE WaitTimeout
  BY <1>5 DEF WaitTimeout
<1>6. CASE PollLock
  BY <1>6 DEF PollLock, Acquire, LockExpires
<1>7. CASE Poll
  BY <1>7 DEF Poll, Unlock
<1>8. CASE CheckStop
  BY <1>8 DEF CheckStop
<1>9. CASE CheckContinue
  BY <1>9 DEF CheckContinue
<1>10. CASE ThreadLock
  BY <1>10 DEF ThreadLock, Acquire, LockExpires
<1>11. CASE GetObjectInfo
  BY <1>11 DEF GetObjectInfo, Unlock
<1>12. CASE GetObject
  BY <1>12 DEF GetObject, Unlock
<1>13. CASE Save
  BY <1>13 DEF Save
<1>14. CASE CallbackEnter
  BY <1>14 DEF CallbackEnter, TakeGil
<1>15. CASE CallbackYield
  BY <1>15 DEF CallbackYield, FreeGil
<1>16. CASE CallbackReturn
  BY <1>16 DEF CallbackReturn, FreeGil
<1>17. CASE CallbackCall
  BY <1>17 DEF CallbackCall
<1>18. CASE CallbackLock
  BY <1>18 DEF CallbackLock, Acquire, LockExpires
<1>19. CASE CallbackUnlock
  BY <1>19 DEF CallbackUnlock, Unlock
<1>20. CASE MethodEnter
  BY <1>20 DEF MethodEnter, TakeGil
<1>21. CASE InitEnter
  BY <1>21 DEF InitEnter, TakeGil, EnterStop
<1>22. CASE DeallocEnter
  BY <1>22 DEF DeallocEnter, TakeGil, EnterStop
<1>23. CASE MethodLock
  BY <1>23 DEF MethodLock, Acquire, LockExpires, FreeGil
<1>24. CASE MethodReturn
  BY <1>24 DEF MethodReturn, LockDiscipline, ThreadLocks, ThreadTransacts, Unlock, FreeGil
<1>25. CASE PostStop
  BY <1>25 DEF PostStop
<1>26. CASE PostEvent
  BY <1>26 DEF PostEvent
<1>27. CASE Join
  BY <1>27 DEF Join, LifeCycle
<1>28. CASE FreeDevice
  BY <1>28 DEF LifeCycle, FreeDevice, CloseDevice, FreeGil
<1>29. CASE FreeSems
  BY <1>29 DEF FreeSems, FreeGil
<1>30. CASE Prepare
  BY <1>30 DEF Prepare, FreeGil
<1>31. CASE OpenDevice
  BY <1>31 DEF LifeCycle, OpenDevice
<1>32. CASE OpenSession
  BY <1>32 DEF OpenSession, CloseDevice, LifeCycle
<1>33. CASE StartTransfer
  BY <1>33 DEF StartTransfer, FreeGil, LifeCycle
<1>34. CASE UndoDevice
  BY <1>34 DEF LifeCycle, UndoDevice, CloseDevice
<1>35. CASE UNCHANGED vars
  BY <1>35
<1> QED
  BY <1>1, <1>2, <1>3, <1>4, <1>5, <1>6, <1>7, <1>8, <1>9, <1>10, <1>11, <1>12, <1>13, <1>14, <1>15, <1>16, <1>17, <1>18, <1>19, <1>20, <1>21, <1>22, <1>23, <1>24, <1>25, <1>26, <1>27, <1>28, <1>29, <1>30, <1>31, <1>32, <1>33, <1>34, <1>35
     DEF Next, CameraNext, ThreadNext, PythonNext, PythonStep, Gone

\* Where a picture is, told from the sets it is in.
LEMMA PlaceIs ==
  ASSUME OnePlace, NEW i \in Images
  PROVE  /\ i \in captured \cup ready => Place[i] = "camera"
         /\ i \in hand => Place[i] = "memory"
         /\ i \in {f.image : f \in saved} => Place[i] = "saved"
         /\ i \in dropped => Place[i] = "dropped"
         /\ i \in lost => Place[i] = "lost"
         /\ i \notin captured \cup ready \cup hand \cup Settled =>
              Place[i] = "world"
BY DEF OnePlace, Place, PlaceOf, Settled

\* A step that moves no picture is none of Delivery's.
LEMMA SamePlace ==
  ASSUME captured' \cup ready' = captured \cup ready, hand' = hand,
         saved' = saved, dropped' = dropped, lost' = lost
  PROVE  Place' = Place
BY DEF Place, PlaceOf

\* A step that moves one picture.
LEMMA OneMoves ==
  ASSUME NEW i \in Images, NEW p, PlaceOf(i)' = p,
         \A j \in Images : j # i => PlaceOf(j)' = PlaceOf(j)
  PROVE  Place' = [Place EXCEPT ![i] = p]
BY DEF Place

\* Each step of the code is a step of Delivery, or none.
LEMMA DeliveryStep ==
  TypeOK /\ LifeCycle /\ OnePlace /\ [Next]_vars => [D!DNext]_(D!dvars)
<1> SUFFICES ASSUME TypeOK, LifeCycle, OnePlace, [Next]_vars
             PROVE  [D!DNext]_(D!dvars)
  OBVIOUS
<1> DEFINE Same == /\ Place' = Place /\ ThreadAlive' = ThreadAlive
                   /\ faults' \in {faults, faults + 1}
<1>s. ASSUME Same PROVE [D!DNext]_(D!dvars)
  <2>1. CASE faults' = faults
    BY <1>s, <2>1 DEF D!dvars
  <2>2. CASE faults' = faults + 1
    BY <1>s, <2>2 DEF D!DNext, D!Fail, D!Failure
  <2> QED
    BY <1>s, <2>1, <2>2
<1>1. ASSUME NEW i \in Images, Shoot(i) PROVE [D!DNext]_(D!dvars)
  <2> USE <1>1 DEF Shoot
  <2>1. Place[i] = "world"
    BY PlaceIs
  <2>a. PlaceOf(i)' = "camera"
    BY DEF PlaceOf, Settled
  <2>b. \A j \in Images : j # i => PlaceOf(j)' = PlaceOf(j)
    BY DEF PlaceOf
  <2>2. Place' = [Place EXCEPT ![i] = "camera"]
    BY <2>a, <2>b, OneMoves
  <2>3. D!Taken(i)
    BY <2>1, <2>2 DEF D!Taken, ThreadAlive
  <2> QED
    BY <2>3 DEF D!DNext
<1>2. ASSUME NEW i \in Images, BecomeReady(i) PROVE [D!DNext]_(D!dvars)
  <2>1. captured' \cup ready' = captured \cup ready
    BY <1>2 DEF BecomeReady
  <2> QED
    BY <1>2, <1>s, <2>1, SamePlace DEF BecomeReady, ThreadAlive
<1>3. CASE EventCallback
  BY <1>3, <1>s, SamePlace DEF EventCallback, ThreadAlive
<1>4. CASE WaitToken
  BY <1>4, <1>s, SamePlace DEF WaitToken, ThreadAlive
<1>5. CASE WaitTimeout
  BY <1>5, <1>s, SamePlace DEF WaitTimeout, ThreadAlive
<1>6. CASE PollLock
  BY <1>6, <1>s, SamePlace DEF PollLock, ThreadAlive, Acquire, LockExpires
<1>7. CASE Poll
  BY <1>7, <1>s, SamePlace DEF Poll, ThreadAlive, Unlock
<1>8. CASE CheckStop
  <2> USE <1>8 DEF CheckStop
  <2>1. Place' = Place
    BY SamePlace
  <2>2. \A j \in Images : Place[j] # "memory"
    BY DEF OnePlace, Place, PlaceOf, PlaceOf
  <2>3. D!Stop
    BY <2>1, <2>2 DEF D!Stop, D!InMemory, ThreadAlive
  <2> QED
    BY <2>3 DEF D!DNext
<1>9. CASE CheckContinue
  BY <1>9, <1>s, SamePlace DEF CheckContinue, ThreadAlive
<1>10. CASE ThreadLock
  BY <1>10, <1>s, SamePlace DEF ThreadLock, ThreadAlive, Acquire, LockExpires
<1>11. CASE GetObjectInfo
  BY <1>11, <1>s, SamePlace DEF GetObjectInfo, ThreadAlive, Unlock
<1>12. CASE GetObject
  <2> USE <1>12 DEF GetObject, Unlock
  <2>1. CASE thread' = "wait" /\ lost' = lost
    <3>1. ready' = ready
      BY <2>1 DEF OnePlace, Settled
    <3> QED
      BY <2>1, <3>1, <1>s, SamePlace DEF ThreadAlive
  <2>3. CASE thread' = "wait" /\ lost' # lost
    <3>1. PICK i \in ready : ready' = ready \ {i} /\ lost' = lost \cup {i}
      BY <2>3
    <3>2. i \in Images /\ Place[i] = "camera"
      BY <3>1, PlaceIs DEF TypeOK
    <3>3. faults' = faults + 1
      BY <2>3 DEF OnePlace
    <3>a. PlaceOf(i)' = "lost"
      BY <2>3, <3>1, <3>2 DEF PlaceOf, OnePlace, Settled
    <3>b. \A j \in Images : j # i => PlaceOf(j)' = PlaceOf(j)
      BY <2>3, <3>1 DEF PlaceOf
    <3>4. Place' = [Place EXCEPT ![i] = "lost"]
      BY <3>2, <3>a, <3>b, OneMoves
    <3>5. D!Lose(i)
      BY <2>3, <3>2, <3>3, <3>4 DEF D!Lose, D!Failure, ThreadAlive
    <3> QED
      BY <3>2, <3>5 DEF D!DNext
  <2>2. CASE thread' = "save"
    <3>1. PICK i \in ready : ready' = ready \ {i} /\ hand' = {i}
      BY <2>2
    <3>2. i \in Images /\ Place[i] = "camera"
      BY <3>1, PlaceIs DEF TypeOK
    <3>3. hand = {}
      BY DEF OnePlace
    <3>4. \A j \in Images : Place[j] # "memory"
      BY <3>3 DEF Place, PlaceOf
    <3>a. PlaceOf(i)' = "memory"
      BY <3>1, <3>2 DEF PlaceOf, OnePlace, Settled
    <3>b. \A j \in Images : j # i => PlaceOf(j)' = PlaceOf(j)
      BY <3>1, <3>3 DEF PlaceOf
    <3>5. Place' = [Place EXCEPT ![i] = "memory"]
      BY <3>2, <3>a, <3>b, OneMoves
    <3>6. D!Fetch(i)
      BY <2>2, <3>2, <3>4, <3>5 DEF D!Fetch, D!InMemory, ThreadAlive
    <3> QED
      BY <3>2, <3>6 DEF D!DNext
  <2> QED
    BY <2>1, <2>2, <2>3
<1>13. CASE Save
  <2> USE <1>13 DEF Save
  <2>1. PICK i \in Images : hand = {i}
    BY DEF OnePlace, TypeOK
  <2>2. Place[i] = "memory" /\ ThreadAlive /\ ThreadAlive'
    BY <2>1, PlaceIs DEF ThreadAlive
  <2>3. D!Settle(i)
    <3>1. CASE thread' = "cb_gil"
      <4> DEFINE file == [image |-> i, session |-> session, index |-> imageIndex]
      <4>a. saved' = saved \cup {file} /\ dropped' = dropped /\ hand' = {}
        BY <3>1, <2>1
      <4>b. file.image = i
        OBVIOUS
      <4>1. {f.image : f \in saved'} = {f.image : f \in saved} \cup {i}
        <5> HIDE DEF file
        <5> QED
          BY <4>a, <4>b
      <4>2. Place' = [Place EXCEPT ![i] = "saved"]
        BY <3>1, <2>1, <4>1 DEF Place, PlaceOf, OnePlace, Settled
      <4>3. faults' = faults
        BY <3>1
      <4> QED
        BY <2>2, <4>2, <4>3 DEF D!Settle, D!InMemory
    <3>2. CASE thread' = "wait"
      <4>1. saved' = saved /\ dropped' = dropped \cup {i} /\ hand' = {}
        BY <3>2, <2>1
      <4>2. Place' = [Place EXCEPT ![i] = "dropped"]
        BY <2>1, <4>1 DEF Place, PlaceOf, OnePlace, Settled
      <4>3. faults' \in {faults, faults + 1}
        BY <3>2
      <4> QED
        BY <2>2, <4>2, <4>3 DEF D!Settle, D!InMemory, D!Failure
    <3> QED
      BY <3>1, <3>2
  <2> QED
    BY <2>3 DEF D!DNext
<1>14. CASE CallbackEnter
  BY <1>14, <1>s, SamePlace DEF CallbackEnter, ThreadAlive, TakeGil
<1>15. CASE CallbackYield
  BY <1>15, <1>s, SamePlace DEF CallbackYield, ThreadAlive, FreeGil
<1>16. CASE CallbackReturn
  BY <1>16, <1>s, SamePlace DEF CallbackReturn, ThreadAlive, FreeGil
<1>17. CASE CallbackCall
  BY <1>17, <1>s, SamePlace DEF CallbackCall, ThreadAlive
<1>18. CASE CallbackLock
  BY <1>18, <1>s, SamePlace DEF CallbackLock, ThreadAlive, Acquire, LockExpires
<1>19. CASE CallbackUnlock
  BY <1>19, <1>s, SamePlace DEF CallbackUnlock, ThreadAlive, Unlock
<1>20. CASE MethodEnter
  BY <1>20, <1>s, SamePlace DEF MethodEnter, ThreadAlive, TakeGil
<1>21. CASE InitEnter
  BY <1>21, <1>s, SamePlace DEF InitEnter, ThreadAlive, TakeGil, EnterStop
<1>22. CASE DeallocEnter
  BY <1>22, <1>s, SamePlace DEF DeallocEnter, ThreadAlive, TakeGil, EnterStop
<1>23. CASE MethodLock
  BY <1>23, <1>s, SamePlace DEF MethodLock, ThreadAlive, Acquire, LockExpires, FreeGil
<1>24. CASE MethodReturn
  BY <1>24, <1>s, SamePlace DEF MethodReturn, ThreadAlive, Unlock, FreeGil
<1>25. CASE PostStop
  BY <1>25, <1>s, SamePlace DEF PostStop, ThreadAlive
<1>26. CASE PostEvent
  BY <1>26, <1>s, SamePlace DEF PostEvent, ThreadAlive
<1>27. CASE Join
  BY <1>27, <1>s, SamePlace DEF Join, ThreadAlive
<1>28. CASE FreeDevice
  BY <1>28, <1>s, SamePlace DEF FreeDevice, ThreadAlive, CloseDevice, FreeGil
<1>29. CASE FreeSems
  BY <1>29, <1>s, SamePlace DEF FreeSems, ThreadAlive, FreeGil
<1>30. CASE Prepare
  BY <1>30, <1>s, SamePlace DEF Prepare, ThreadAlive, FreeGil
<1>31. CASE OpenDevice
  BY <1>31, <1>s, SamePlace DEF OpenDevice, ThreadAlive
<1>32. CASE OpenSession
  BY <1>32, <1>s, SamePlace DEF OpenSession, ThreadAlive, CloseDevice
<1>33. CASE StartTransfer
  <2> USE <1>33 DEF StartTransfer
  <2>1. Place' = Place
    BY SamePlace
  <2>2. CASE thread' = thread
    BY <2>1, <2>2, <1>s DEF ThreadAlive
  <2>3. CASE thread' = "wait"
    <3>1. thread = "none"
      BY DEF LifeCycle, TypeOK
    <3>2. D!Start
      BY <2>1, <2>3, <3>1 DEF D!Start, ThreadAlive
    <3> QED
      BY <3>2 DEF D!DNext
  <2> QED
    BY <2>2, <2>3
<1>34. CASE UndoDevice
  BY <1>34, <1>s, SamePlace DEF UndoDevice, ThreadAlive, CloseDevice
<1>35. CASE UNCHANGED vars
  BY <1>35, <1>s, SamePlace DEF ThreadAlive
<1> QED
  BY <1>1, <1>2, <1>3, <1>4, <1>5, <1>6, <1>7, <1>8, <1>9, <1>10, <1>11, <1>12, <1>13, <1>14, <1>15, <1>16, <1>17, <1>18, <1>19, <1>20, <1>21, <1>22, <1>23, <1>24, <1>25, <1>26, <1>27, <1>28, <1>29, <1>30, <1>31, <1>32, <1>33, <1>34, <1>35
     DEF Next, CameraNext, ThreadNext, PythonNext, PythonStep, Gone

\* The transfer machinery implements Delivery: every picture is fetched once, by
\* a running thread, and settled once; one that leaves the camera unseen pays for
\* a transaction that failed.
THEOREM ImplementsDelivery == Spec => DeliverySpec
<1>1. Init => D!DInit
  BY DEF Init, D!DInit, Place, PlaceOf, ThreadAlive
<1>2. Init => OnePlace
  BY DEF Init, OnePlace, Settled
<1>3. (Inv /\ OnePlace) /\ [Next]_vars => OnePlace'
  BY OnePlaceStep DEF Inv
<1>4. (Inv /\ OnePlace) /\ [Next]_vars => [D!DNext]_(D!dvars)
  BY DeliveryStep DEF Inv
<1> QED
  BY <1>1, <1>2, <1>3, <1>4, InvHolds, PTL DEF Spec, DeliverySpec, D!DSpec
=============================================================================
