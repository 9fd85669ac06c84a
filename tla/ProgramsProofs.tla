--------------------------- MODULE ProgramsProofs ---------------------------
(***************************************************************************)
(* Proofs about the programs, for every set of scripts, every bound on the *)
(* camera's pictures, signals, lost events and failures, and every buffer: *)
(* what the decoders promise holds in every call that uses them, no        *)
(* picture is asked for in vain, and no button is left pressed unnoticed.  *)
(***************************************************************************)
EXTENDS Programs, DecoderProofs

-----------------------------------------------------------------------------
(* A program uses the decoders as their specifications say.                *)

\* A step of a program is a step of the list, or leaves it alone.
LEMMA ListUsed == [Next]_vars => [ListNext]_listVars
<1>1. ASSUME [Next]_vars PROVE [ListNext]_listVars
  BY <1>1
     DEF Next, ProgramStep, InfoBegin, InfoStep, InfoEnd, ListStep, ListAgain,
         FreeListSet, FreeListRead, WaitQuit, Take, LockFails, StartAFLock, StartShutter,
         StartUndo, StopShutter, StopAFLock, CameraStep, EventStep, SignalStep, Rest,
         OtherThan, ListNext, vars
<1> QED
  BY <1>1

\* ... and a step of the information, or leaves it alone.
LEMMA InfoUsed == [Next]_vars => [InfoNext]_infoVars
<1>1. ASSUME [Next]_vars PROVE [InfoNext]_infoVars
  BY <1>1
     DEF Next, ProgramStep, InfoBegin, InfoStep, InfoEnd, ListStep, ListAgain,
         FreeListSet, FreeListRead, WaitQuit, Take, LockFails, StartAFLock, StartShutter,
         StartUndo, StopShutter, StopAFLock, CameraStep, EventStep, SignalStep, Rest,
         OtherThan, InfoNext, vars
<1> QED
  BY <1>1

\* Programs implements the specifications of its two decoders.
THEOREM DecodersUsed == Spec => ListSpec /\ InfoSpec
<1>1. Init => ListInit /\ InfoInit
  BY DEF Init
<1> QED
  BY <1>1, ListUsed, InfoUsed, PTL DEF Spec, ListSpec, InfoSpec

\* ListSound holds of every list that a program reads: the decoders' locals and
\* the list's pointers survive every move of the buffer, each value lies inside it
\* to its last element, nothing is missing, and unless its type is an array a value
\* has an element to be read.
THEOREM ListSoundHolds == Spec => []ListSound
<1>1. ListInv => ListSound
  BY DEF ListInv, ListSound
<1> QED
  BY <1>1, DecodersUsed, ListInvHolds, PTL

\* InfoSound holds of all device and object information that a program reads.
THEOREM InfoSoundHolds == Spec => []InfoSound
<1>1. ListsJoined /\ InfoInside => InfoSound
  BY DEF InfoSound
<1> QED
  BY <1>1, DecodersUsed, InfoInvHolds, PTL

\* PointersFollow holds in every program: each recorded pointer moves with its
\* buffer, exactly as far.
THEOREM PointersFollowHolds == Spec => PointersFollow
BY DecodersUsed, ListFollowsHolds, InfoFollowsHolds, PTL DEF PointersFollow

-----------------------------------------------------------------------------
(* take_pictures.                                                          *)

\* The mask makes a number of an error.
LEMMA MaskedFacts == Masked(PTP_ERROR_RC) \in Nat
<1>1. PTP_ERROR_RC \in Int
  BY DEF PTP_ERROR_RC
<1> QED
  BY <1>1 DEF Masked

\* What is noted of a transaction on a button.
MissedCounts == [press : Nat, release : Nat]

LEMMA MissedFacts ==
  ASSUME NEW missed \in MissedCounts
  PROVE  /\ NoneMissed \in MissedCounts
         /\ [missed EXCEPT !.press = @ + 1] \in MissedCounts
         /\ [missed EXCEPT !.press = @ + 1].press = missed.press + 1
         /\ [missed EXCEPT !.press = @ + 1].release = missed.release
         /\ [missed EXCEPT !.release = @ + 1] \in MissedCounts
         /\ [missed EXCEPT !.release = @ + 1].release = missed.release + 1
         /\ [missed EXCEPT !.release = @ + 1].press = missed.press
         /\ missed.press \in Nat /\ missed.release \in Nat
BY DEF MissedCounts, NoneMissed

\* The actions of take_pictures, the camera, the callback and the handler: each
\* token stands for a picture, and each button that stays pressed for a failure.
LEMMA TakeInvStep == TakeInv /\ TakeNext => TakeInv'
<1> SUFFICES ASSUME TakeInv, TakeNext PROVE TakeInv'
  OBVIOUS
<1> USE TakeAssumption DEF MissedCounts, TakeInv, TakeTypeOK, TakePlaces, Tokens, Held, Attempted, ReleasedAtEnd,
            Attempts, localsTP, semsTP, buttonsTP, bufferTP, boundsTP
<1>1. CASE PressAF
  <2>1. /\ main = "af_press" /\ main' = "shutter_press"
        /\ UNCHANGED <<semObjects, semQuit, exposed, fetchable, added,
                       signals, lost, interrupted, shutter, shutterMissed,
                       taken, pendingCount, stop, stopped>>
    BY <1>1 DEF PressAF, Press
  <2>2. /\ afLock' \in BOOLEAN /\ (failures' = failures \/ failures' = failures + 1)
        /\ afMissed' = NoneMissed \/ afMissed' = [afMissed EXCEPT !.press = @ + 1]
    BY <1>1, Zenon DEF PressAF, Press, Obeys, Unsure, Failure
  <2>3. afMissed' \in MissedCounts
    BY <2>2, MissedFacts
  <2> QED
    BY <2>1, <2>2, <2>3
<1>2. CASE PressShutter
  <2>1. /\ main = "shutter_press" /\ main' = "loop"
        /\ UNCHANGED <<semObjects, semQuit, exposed, fetchable, added,
                       signals, lost, interrupted, afLock, afMissed,
                       taken, pendingCount, stop, stopped>>
    BY <1>2 DEF PressShutter, Press
  <2>2. /\ shutter' \in BOOLEAN /\ (failures' = failures \/ failures' = failures + 1)
        /\ shutterMissed' = NoneMissed \/ shutterMissed' = [shutterMissed EXCEPT !.press = @ + 1]
    BY <1>2, Zenon DEF PressShutter, Press, Obeys, Unsure, Failure
  <2>3. shutterMissed' \in MissedCounts
    BY <2>2, MissedFacts
  <2> QED
    BY <2>1, <2>2, <2>3
<1>3. CASE GetPending
  BY <1>3, MaskedFacts DEF GetPending, Failure, InBuffer
<1>4. CASE LeaveLoop
  BY <1>4 DEF LeaveLoop
<1>5. CASE WaitObject
  BY <1>5 DEF WaitObject
<1>6. CASE ObjectInfo
  BY <1>6 DEF ObjectInfo, Failure
<1>7. CASE GetObject
  <2>1. /\ main = "object" /\ fetchable > 0
        /\ UNCHANGED <<pendingCount, stopped, semObjects, semQuit, buttonsTP,
                       exposed, added, signals, lost, interrupted>>
    BY <1>7 DEF GetObject
  <2>2. /\ main' \in {"quit", "shutter_last"}
        /\ fetchable' \in {fetchable, fetchable - 1}
        /\ failures' \in {failures, failures + 1}
        /\ taken' = taken \/ taken' = IF taken > Wanted THEN taken ELSE taken + 1
    BY <1>7, Zenon DEF GetObject, Failure
  <2>3. stop' \in BOOLEAN
    BY <1>7, Zenon DEF GetObject
  <2>4. taken' \in 0 .. (Wanted + 1)
    BY <2>2
  <2> QED
    BY <2>1, <2>2, <2>3, <2>4
<1>8. CASE CheckQuit
  <2>1. /\ main = "quit"
        /\ UNCHANGED <<taken, pendingCount, stopped, semObjects, buttonsTP, exposed,
                       fetchable, added, signals, lost, failures, interrupted>>
    BY <1>8 DEF CheckQuit
  <2>2. main' \in {"shutter_release", "loop"} /\ stop' \in BOOLEAN
    BY <1>8, Zenon DEF CheckQuit
  <2>3. semQuit' \in Nat
    BY <1>8 DEF CheckQuit
  <2> QED
    BY <2>1, <2>2, <2>3
<1>9. CASE ReleaseShutter
  <2>1. /\ main = "shutter_release" /\ main' = "af_release"
        /\ UNCHANGED <<semObjects, semQuit, exposed, fetchable, added,
                       signals, lost, interrupted, afLock, afMissed,
                       taken, pendingCount, stop, stopped>>
    BY <1>9 DEF ReleaseShutter, Press
  <2>2. /\ shutter' \in BOOLEAN /\ (failures' = failures \/ failures' = failures + 1)
        /\ shutterMissed' = NoneMissed \/ shutterMissed' = [shutterMissed EXCEPT !.release = @ + 1]
    BY <1>9, Zenon DEF ReleaseShutter, Press, Obeys, Unsure, Failure
  <2>3. shutter' => shutter /\ shutterMissed' = [shutterMissed EXCEPT !.release = @ + 1]
    BY <1>9, Zenon DEF ReleaseShutter, Press, Obeys, Unsure, Failure
  <2>4. /\ shutterMissed' \in MissedCounts /\ shutterMissed.release \in Nat
        /\ shutter' => shutter /\ shutterMissed'.release = shutterMissed.release + 1
    BY <2>2, <2>3, MissedFacts
  <2> QED
    BY <2>1, <2>2, <2>4
<1>10. CASE ReleaseAF
  <2>1. /\ main = "af_release" /\ main' = "loop"
        /\ stopped' = TRUE /\ stop' = FALSE
        /\ UNCHANGED <<semObjects, semQuit, exposed, fetchable, added,
                       signals, lost, interrupted, shutter, shutterMissed,
                       taken, pendingCount>>
    BY <1>10 DEF ReleaseAF, Press
  <2>2. /\ afLock' \in BOOLEAN /\ (failures' = failures \/ failures' = failures + 1)
        /\ afMissed' = NoneMissed \/ afMissed' = [afMissed EXCEPT !.release = @ + 1]
    BY <1>10, Zenon DEF ReleaseAF, Press, Obeys, Unsure, Failure
  <2>3. afLock' => afLock /\ afMissed' = [afMissed EXCEPT !.release = @ + 1]
    BY <1>10, Zenon DEF ReleaseAF, Press, Obeys, Unsure, Failure
  <2>4. /\ afMissed' \in MissedCounts /\ afMissed.release \in Nat
        /\ afLock' => afLock /\ afMissed'.release = afMissed.release + 1
    BY <2>2, <2>3, MissedFacts
  <2>5. stopped' /\ stopped' \in BOOLEAN /\ stop' \in BOOLEAN
    BY <2>1, Zenon
  <2> QED
    BY <2>1, <2>2, <2>4, <2>5
<1>11. CASE ReleaseShutterAgain
  <2>1. /\ main = "shutter_last" /\ main' = "af_last"
        /\ UNCHANGED <<semObjects, semQuit, exposed, fetchable, added,
                       signals, lost, interrupted, afLock, afMissed,
                       taken, pendingCount, stop, stopped>>
    BY <1>11 DEF ReleaseShutterAgain, Press
  <2>2. /\ shutter' \in BOOLEAN /\ (failures' = failures \/ failures' = failures + 1)
        /\ shutterMissed' = NoneMissed \/ shutterMissed' = [shutterMissed EXCEPT !.release = @ + 1]
    BY <1>11, Zenon DEF ReleaseShutterAgain, Press, Obeys, Unsure, Failure
  <2>3. shutter' => shutter /\ shutterMissed' = [shutterMissed EXCEPT !.release = @ + 1]
    BY <1>11, Zenon DEF ReleaseShutterAgain, Press, Obeys, Unsure, Failure
  <2>4. /\ shutterMissed' \in MissedCounts /\ shutterMissed.release \in Nat
        /\ shutter' => shutter /\ shutterMissed'.release = shutterMissed.release + 1
    BY <2>2, <2>3, MissedFacts
  <2> QED
    BY <2>1, <2>2, <2>4
<1>12. CASE ReleaseAFAgain
  <2>1. /\ main = "af_last" /\ main' = "done"
        /\ UNCHANGED <<semObjects, semQuit, exposed, fetchable, added,
                       signals, lost, interrupted, shutter, shutterMissed,
                       taken, pendingCount, stop, stopped>>
    BY <1>12 DEF ReleaseAFAgain, Press
  <2>2. /\ afLock' \in BOOLEAN /\ (failures' = failures \/ failures' = failures + 1)
        /\ afMissed' = NoneMissed \/ afMissed' = [afMissed EXCEPT !.release = @ + 1]
    BY <1>12, Zenon DEF ReleaseAFAgain, Press, Obeys, Unsure, Failure
  <2>3. afLock' => afLock /\ afMissed' = [afMissed EXCEPT !.release = @ + 1]
    BY <1>12, Zenon DEF ReleaseAFAgain, Press, Obeys, Unsure, Failure
  <2>4. /\ afMissed' \in MissedCounts /\ afMissed.release \in Nat
        /\ afLock' => afLock /\ afMissed'.release = afMissed.release + 1
    BY <2>2, <2>3, MissedFacts
  <2> QED
    BY <2>1, <2>2, <2>4
<1>13. CASE TakeShot
  BY <1>13 DEF TakeShot
<1>14. CASE Develop
  BY <1>14 DEF Develop
<1>15. CASE ObjectAdded
  BY <1>15 DEF ObjectAdded
<1>16. CASE Signal
  <2>1. /\ signals' = signals + 1 /\ semQuit' = semQuit + 1
        /\ UNCHANGED <<taken, pendingCount, stop, stopped, semObjects, buttonsTP,
                       exposed, fetchable, added, lost, failures>>
        /\ \/ UNCHANGED <<main, interrupted>>
           \/ main = "wait" /\ main' = "info" /\ interrupted' = TRUE
    BY <1>16 DEF Signal
  <2>2. interrupted' \in BOOLEAN
    BY <2>1, Zenon
  <2>3. CASE UNCHANGED <<main, interrupted>>
    BY <2>1, <2>2, <2>3
  <2>4. CASE main = "wait" /\ main' = "info" /\ interrupted' = TRUE
    <3>1. interrupted'
      BY <2>4, Zenon
    <3> QED
      BY <2>1, <2>2, <2>4, <3>1
  <2> QED
    BY <2>1, <2>3, <2>4
<1> QED
  BY <1>1, <1>2, <1>3, <1>4, <1>5, <1>6, <1>7, <1>8, <1>9, <1>10, <1>11, <1>12, <1>13, <1>14, <1>15, <1>16
     DEF TakeNext, Main, Camera

-----------------------------------------------------------------------------
(* The calls of a script.                                                  *)

\* The script goes on with a call of the same program.
LEMMA ScriptFacts ==
  ASSUME OneOwner, script # << >>
  PROVE  /\ script \in Seq(Calls) /\ Tail(script) \in Seq(Calls)
         /\ Head(script) \in Calls
         /\ Head(script) \in ClientCalls =>
              /\ script \in Seq(ClientCalls) /\ Tail(script) \in Seq(ClientCalls)
              /\ reported = "nothing"
         /\ Head(script) \in PythonCalls =>
              /\ script \in Seq(PythonCalls) /\ Tail(script) \in Seq(PythonCalls)
              /\ main = "af_press"
<1>1. ClientCalls \cap PythonCalls = {}
  BY DEF ClientCalls, PythonCalls
<1>2. ClientCalls \subseteq Calls /\ PythonCalls \subseteq Calls
  BY DEF Calls
<1>3. CASE script \in Seq(ClientCalls) /\ reported = "nothing"
  <2>1. Head(script) \in ClientCalls /\ Tail(script) \in Seq(ClientCalls)
    BY <1>3, HeadTailProperties
  <2> QED
    BY <2>1, <1>1, <1>2, <1>3, SeqMonotonic
<1>4. CASE script \in Seq(PythonCalls) /\ main = "af_press"
  <2>1. Head(script) \in PythonCalls /\ Tail(script) \in Seq(PythonCalls)
    BY <1>4, HeadTailProperties
  <2> QED
    BY <2>1, <1>1, <1>2, <1>4, SeqMonotonic
<1> QED
  BY <1>3, <1>4 DEF OneOwner

\* Only some calls have stages of their own.
LEMMA StageFacts ==
  ASSUME TypeOK, Midway, script # << >>
  PROVE  /\ Head(script) \notin {"start", "stop", "poll"} => stage = "enter"
         /\ Head(script) = "poll"  => stage \in {"enter", "wait"}
         /\ Head(script) = "start" => stage \in {"enter", "shutter", "undo"}
         /\ Head(script) = "stop"  => stage \in {"enter", "aflock", "anyway"}
BY DEF TypeOK, Stages, Midway, In

\* A step of a component that the buttons have nothing to do with.
LEMMA ComponentStep ==
  ASSUME ProgramInv, ListInv', InfoInv',
         InfoBegin \/ InfoStep \/ InfoEnd \/ ListStep \/ ListAgain \/ FreeListSet
         \/ FreeListRead
  PROVE  ProgramInv'
<1>1. /\ UNCHANGED <<takeVars, again, reported>>
      /\ script # << >>
      /\ \/ UNCHANGED flowVars
         \/ Leave
         \/ script' = script /\ Head(script) = "poll" /\ stage' = "wait" /\ listPlace' = "none"
  BY DEF InfoBegin, InfoStep, InfoEnd, ListStep, ListAgain, FreeListSet, FreeListRead,
         callVars, In, FreeList
<1>2. /\ script' = script => (listPlace' # "none" => In(ListCalls))
                          /\ (infoPlace' # "none" => In(InfoCalls))
      /\ Leave => listPlace' = "none" /\ infoPlace' = "none"
  <2>1. InfoCalls \cap ListCalls = {}
    BY DEF InfoCalls, ListCalls
  <2>2. CASE InfoBegin \/ InfoStep \/ InfoEnd
    <3>1. In(InfoCalls) /\ listPlace' = listPlace
      BY <2>2 DEF InfoBegin, InfoStep, InfoEnd, listVars
    <3>2. listPlace = "none"
      BY <3>1, <2>1 DEF ProgramInv, TypeOK, In
    <3>3. CASE InfoEnd
      BY <3>1, <3>2, <3>3 DEF InfoEnd, FreeInfo
    <3>4. CASE InfoBegin \/ InfoStep
      <4>1. script' = script
        BY <3>4 DEF InfoBegin, InfoStep, callVars, flowVars
      <4>2. ~Leave
        BY <1>1, <4>1, ScriptFacts, HeadTailProperties, LenProperties
           DEF ProgramInv, TypeOK, Leave
      <4> QED
        BY <3>1, <3>2, <4>1, <4>2
    <3> QED
      BY <2>2, <3>3, <3>4
  <2>3. CASE ListStep \/ ListAgain \/ FreeListSet \/ FreeListRead
    <3>1. In(ListCalls) /\ infoPlace' = infoPlace
      BY <2>3 DEF ListStep, ListAgain, FreeListSet, FreeListRead, infoVars, In, ListCalls
    <3>2. infoPlace = "none"
      BY <3>1, <2>1 DEF ProgramInv, TypeOK, In
    <3>3. CASE FreeListSet \/ FreeListRead
      BY <3>1, <3>2, <3>3 DEF FreeListSet, FreeListRead, FreeList
    <3>4. CASE ListStep \/ ListAgain
      <4>1. script' = script
        BY <3>4 DEF ListStep, ListAgain, callVars, flowVars
      <4>2. ~Leave
        BY <1>1, <4>1, ScriptFacts, HeadTailProperties, LenProperties
           DEF ProgramInv, TypeOK, Leave
      <4> QED
        BY <3>1, <3>2, <4>1, <4>2
    <3> QED
      BY <2>3, <3>3, <3>4
  <2> QED
    BY <2>2, <2>3
<1>3. /\ main' = main /\ afLock' = afLock /\ shutter' = shutter /\ failures' = failures
      /\ afMissed' = afMissed /\ shutterMissed' = shutterMissed
      /\ stopped' = stopped /\ again' = again /\ reported' = reported
      /\ TakeInv'
  BY <1>1
     DEF takeVars, localsTP, semsTP, buttonsTP, bufferTP, boundsTP, ProgramInv, TakeInv,
         TakeTypeOK, Tokens, Held, Attempted, ReleasedAtEnd, Attempts
<1>4. OneOwner'
  BY <1>1, <1>3, ScriptFacts DEF OneOwner, ProgramInv, Leave, flowVars, ClientCalls
<1>5. stage' \in Stages /\ script' \in Seq(Calls)
  BY <1>1, ScriptFacts DEF ProgramInv, TypeOK, Stages, Leave, flowVars
<1>6. ListTypeOK' /\ InfoTypeOK'
  BY DEF ListInv, InfoInv
<1>7. stage = "enter"
  BY <1>1, StageFacts
     DEF ProgramInv, Midway, In, InfoBegin, InfoStep, InfoEnd, ListStep, ListAgain, FreeListSet,
         FreeListRead, InfoCalls
<1>8. TypeOK'
  BY <1>1, <1>2, <1>3, <1>5, <1>6 DEF ProgramInv, TypeOK, TakeInv, In, flowVars, ListCalls
<1>9. Midway'
  BY <1>1, <1>7 DEF Midway, Leave, flowVars, In
<1>10. ButtonsAsReported'
  BY <1>1, <1>3, <1>7 DEF ProgramInv, ButtonsAsReported, Missed, Leave, flowVars
<1> QED
  BY <1>3, <1>4, <1>8, <1>9, <1>10 DEF ProgramInv

\* wait_quit touches sem_quit and the script only.
LEMMA WaitQuitStep ==
  ASSUME ProgramInv, ListInv', InfoInv', WaitQuit
  PROVE  ProgramInv'
<1>1. /\ script # << >> /\ Head(script) = "poll" /\ stage = "wait"
      /\ main' = main /\ again' = again /\ reported' = reported
      /\ listPlace' = listPlace /\ infoPlace' = infoPlace
      /\ UNCHANGED <<localsTP, semObjects, buttonsTP, bufferTP, boundsTP>>
      /\ Leave \/ (script' = script /\ stage' = "enter")
      /\ semQuit' \in Nat
  BY DEF WaitQuit, In, listVars, infoVars, ProgramInv, TakeInv, TakeTypeOK
<1>2. listPlace = "none" /\ infoPlace = "none"
  BY <1>1 DEF ProgramInv, Midway, TypeOK, In, InfoCalls
<1>3. TakeInv'
  BY <1>1
     DEF localsTP, buttonsTP, bufferTP, boundsTP, ProgramInv, TakeInv, TakeTypeOK, Tokens,
         Held, Attempted, ReleasedAtEnd, Attempts
<1>4. OneOwner' /\ reported = "nothing"
  BY <1>1, ScriptFacts DEF OneOwner, ProgramInv, Leave, ClientCalls
<1>5. stage' = "enter" /\ script' \in Seq(Calls)
  BY <1>1, ScriptFacts DEF ProgramInv, TypeOK, Leave
<1>6. ListTypeOK' /\ InfoTypeOK'
  BY DEF ListInv, InfoInv
<1>7. TypeOK'
  BY <1>1, <1>2, <1>3, <1>5, <1>6 DEF ProgramInv, TypeOK, TakeInv, Stages
<1>8. Midway' /\ ButtonsAsReported'
  BY <1>1, <1>4, <1>5 DEF Midway, ButtonsAsReported
<1> QED
  BY <1>3, <1>4, <1>7, <1>8 DEF ProgramInv

\* A step of take_pictures is a client's, who reports nothing.
LEMMA TakeStep ==
  ASSUME ProgramInv, ListInv', InfoInv', Take
  PROVE  ProgramInv'
<1>1. /\ script # << >> /\ Head(script) = "take"
      /\ again' = again /\ reported' = reported
      /\ listPlace' = listPlace /\ infoPlace' = infoPlace
      /\ Leave \/ UNCHANGED flowVars
      /\ TakeNext
  BY DEF Take, In, TakeNext, listVars, infoVars
<1>2. listPlace = "none" /\ infoPlace = "none" /\ stage = "enter"
  BY <1>1, StageFacts DEF ProgramInv, TypeOK, In, InfoCalls, ListCalls
<1>3. TakeInv'
  BY <1>1, TakeInvStep DEF ProgramInv
<1>4. OneOwner' /\ reported = "nothing"
  BY <1>1, ScriptFacts DEF OneOwner, ProgramInv, Leave, ClientCalls, flowVars
<1>5. stage' = "enter" /\ script' \in Seq(Calls)
  BY <1>1, <1>2, ScriptFacts DEF ProgramInv, TypeOK, Leave, flowVars
<1>6. ListTypeOK' /\ InfoTypeOK'
  BY DEF ListInv, InfoInv
<1>7. TypeOK'
  BY <1>1, <1>2, <1>3, <1>5, <1>6 DEF ProgramInv, TypeOK, TakeInv, Stages
<1>8. Midway' /\ ButtonsAsReported'
  BY <1>1, <1>4, <1>5 DEF Midway, ButtonsAsReported
<1> QED
  BY <1>3, <1>4, <1>7, <1>8 DEF ProgramInv

\* The camera, the callback and the handler do not touch the buttons.
LEMMA MeanwhileStep ==
  ASSUME ProgramInv, ListInv', InfoInv', CameraStep \/ EventStep \/ SignalStep
  PROVE  ProgramInv'
<1>1. /\ script' = script /\ stage' = stage /\ again' = again /\ reported' = reported
      /\ listPlace' = listPlace /\ infoPlace' = infoPlace
      /\ TakeNext
  BY DEF CameraStep, EventStep, SignalStep, TakeNext, callVars, flowVars, listVars, infoVars
<1>2. /\ afLock' = afLock /\ shutter' = shutter
      /\ afMissed' = afMissed /\ shutterMissed' = shutterMissed
  BY DEF CameraStep, EventStep, SignalStep, Camera, TakeShot, Develop, ObjectAdded, Signal,
         buttonsTP
<1>3. main' = main \/ (script # << >> /\ Head(script) \in ClientCalls)
  BY DEF CameraStep, EventStep, SignalStep, Camera, TakeShot, Develop, ObjectAdded, In
<1>4. TakeInv'
  BY <1>1, TakeInvStep DEF ProgramInv
<1>5. OneOwner'
  BY <1>1, <1>3, ScriptFacts DEF OneOwner, ProgramInv
<1>6. ListTypeOK' /\ InfoTypeOK'
  BY DEF ListInv, InfoInv
<1>7. TypeOK'
  BY <1>1, <1>4, <1>6 DEF ProgramInv, TypeOK, TakeInv, In
<1>8. Midway'
  BY <1>1, <1>2 DEF ProgramInv, Midway, In
<1>9. ButtonsAsReported'
  BY <1>1, <1>2 DEF ProgramInv, ButtonsAsReported, Missed
<1> QED
  BY <1>4, <1>5, <1>7, <1>8, <1>9 DEF ProgramInv

-----------------------------------------------------------------------------
(* Camera_start and Camera_stop.                                           *)

\* A step of start or stop leaves take_pictures where it has not begun.
LEMMA ButtonStep ==
  ASSUME ProgramInv, ListInv', InfoInv',
         script # << >>, Head(script) \in {"start", "stop"},
         UNCHANGED <<main, localsTP, semsTP, bufferTP, signals, lost, interrupted,
                     infoVars, listVars>>,
         afLock' \in BOOLEAN, shutter' \in BOOLEAN, again' \in BOOLEAN,
         afMissed' \in MissedCounts, shutterMissed' \in MissedCounts,
         failures' \in {failures, failures + 1},
         reported' \in {reported, "started", "not_started", "stopped", "not_stopped"},
         Leave \/ (script' = script /\ stage' \in Stages)
  PROVE  TypeOK' /\ TakeInv' /\ OneOwner'
<1>1. /\ script \in Seq(PythonCalls) /\ Tail(script) \in Seq(PythonCalls)
      /\ script \in Seq(Calls) /\ Tail(script) \in Seq(Calls)
      /\ main = "af_press"
  BY ScriptFacts DEF ProgramInv, PythonCalls
<1>2. OneOwner'
  BY <1>1 DEF OneOwner, Leave
<1>3. TakeTypeOK'
  BY DEF ProgramInv, TakeInv, TakeTypeOK, MissedCounts, localsTP, semsTP, bufferTP
<1>4. TakeInv'
  BY <1>1, <1>3
     DEF ProgramInv, TakeInv, TakeTypeOK, Tokens, Held, Attempted, ReleasedAtEnd, localsTP,
         semsTP, bufferTP
<1>5. ListTypeOK' /\ InfoTypeOK'
  BY DEF ListInv, InfoInv
<1>6. listPlace' = "none" /\ infoPlace' = "none"
  BY DEF ProgramInv, TypeOK, In, InfoCalls, ListCalls, listVars, infoVars
<1>7. TypeOK'
  BY <1>1, <1>3, <1>5, <1>6 DEF ProgramInv, TypeOK, Leave, Stages
<1> QED
  BY <1>2, <1>4, <1>7

\* A method that does not get the mutex only leaves.
LEMMA LockFailsStep ==
  ASSUME ProgramInv, ListInv', InfoInv', LockFails
  PROVE  ProgramInv'
<1>1. /\ script # << >> /\ Head(script) \in PythonCalls /\ stage = "enter"
      /\ listPlace = "none" /\ infoPlace = "none"
      /\ Leave /\ again' = again
      /\ reported' = "busy" \/ reported' = reported
      /\ UNCHANGED <<infoVars, listVars, takeVars>>
  BY DEF LockFails, In
<1>2. /\ main' = main /\ afLock' = afLock /\ shutter' = shutter
      /\ afMissed' = afMissed /\ shutterMissed' = shutterMissed
      /\ TakeInv'
  BY <1>1
     DEF takeVars, localsTP, semsTP, buttonsTP, bufferTP, boundsTP, ProgramInv, TakeInv,
         TakeTypeOK, Tokens, Held, Attempted, ReleasedAtEnd, Attempts
<1>3. /\ script' \in Seq(PythonCalls) /\ script' \in Seq(Calls)
      /\ main = "af_press" /\ stage' = "enter"
  BY <1>1, ScriptFacts DEF ProgramInv, Leave
<1>4. OneOwner'
  BY <1>2, <1>3 DEF OneOwner
<1>5. ListTypeOK' /\ InfoTypeOK' /\ listPlace' = "none" /\ infoPlace' = "none"
  BY <1>1 DEF ListInv, InfoInv, listVars, infoVars
<1>6. TypeOK'
  BY <1>1, <1>2, <1>3, <1>5 DEF ProgramInv, TypeOK, TakeInv, Stages
<1>7. Midway' /\ ButtonsAsReported'
  BY <1>1, <1>2, <1>3 DEF ProgramInv, Midway, ButtonsAsReported
<1> QED
  BY <1>2, <1>4, <1>6, <1>7 DEF ProgramInv

LEMMA StartAFLockStep ==
  ASSUME ProgramInv, ListInv', InfoInv', StartAFLock
  PROVE  ProgramInv'
<1>1. /\ script # << >> /\ Head(script) = "start"
      /\ UNCHANGED <<main, localsTP, semsTP, bufferTP, signals, lost, interrupted,
                     infoVars, listVars>>
  BY DEF StartAFLock, In, OtherThan
<1>2. /\ shutter' = shutter /\ shutterMissed' = shutterMissed /\ (again' <=> (afLock \/ shutter))
      /\ again' \in BOOLEAN
      /\ stage = "enter"
  BY Zenon DEF StartAFLock, OtherThan
<1>3. \/ /\ afLock' = TRUE /\ afMissed' = NoneMissed /\ failures' = failures
         /\ stage' = "shutter" /\ script' = script /\ reported' = reported
      \/ /\ afLock' \in {afLock, TRUE} /\ failures' = failures + 1
         /\ afMissed' = [afMissed EXCEPT !.press = @ + 1]
         /\ Leave /\ reported' = "not_started"
  BY Zenon DEF StartAFLock, Obeys, Unsure, Failure
<1>4. /\ afLock \in BOOLEAN /\ shutter \in BOOLEAN /\ again \in BOOLEAN
      /\ afMissed \in MissedCounts /\ shutterMissed \in MissedCounts
  BY DEF ProgramInv, TypeOK, TakeInv, TakeTypeOK, MissedCounts
<1>5. afLock' \in BOOLEAN /\ shutter' \in BOOLEAN /\ again' \in BOOLEAN
  BY <1>2, <1>3, <1>4, Zenon
<1>6. /\ afMissed' \in MissedCounts /\ shutterMissed' \in MissedCounts
      /\ afMissed' # NoneMissed => afMissed'.press >= 1
  <2>1. \/ afMissed' = NoneMissed
        \/ afMissed' = [afMissed EXCEPT !.press = @ + 1]
    BY <1>3, Zenon
  <2>2. shutterMissed' = shutterMissed
    BY <1>2
  <2>3. afMissed \in MissedCounts /\ shutterMissed \in MissedCounts
    BY <1>4
  <2> QED
    BY <2>1, <2>2, <2>3 DEF MissedCounts, NoneMissed
<1>7. TypeOK' /\ TakeInv' /\ OneOwner'
  <2>1. failures' \in {failures, failures + 1}
    BY <1>3, Zenon
  <2>2. reported' \in {reported, "started", "not_started", "stopped", "not_stopped"}
    BY <1>3, Zenon
  <2>3. Leave \/ (script' = script /\ stage' \in Stages)
    BY <1>3, Zenon DEF Stages
  <2> QED
    BY <1>1, <1>5, <1>6, <2>1, <2>2, <2>3, ButtonStep
<1>8. Midway'
  <2>1. Leave \/ (afLock' /\ stage' = "shutter" /\ script' = script)
    BY <1>3, Zenon
  <2> QED
    BY <1>1, <1>2, <2>1 DEF Midway, Leave, In
<1>9. ButtonsAsReported'
  <2>1. CASE stage' = "shutter"
    BY <2>1 DEF ButtonsAsReported
  <2>2. CASE /\ afMissed' = [afMissed EXCEPT !.press = @ + 1]
             /\ reported' = "not_started"
    <3>1. afMissed'.press \in Nat \ {0} /\ afMissed'.release \in Nat
      <4>1. afMissed \in MissedCounts
        BY <1>4
      <4> QED
        BY <2>2, <4>1 DEF MissedCounts
    <3>2. ~again' => ~shutter'
      BY <1>2, Zenon
    <3>3. Missed(afMissed)'
      BY <3>1 DEF Missed
    <3> QED
      BY <2>2, <3>2, <3>3 DEF ButtonsAsReported
  <2> QED
    BY <1>3, <2>1, <2>2
<1> QED
  BY <1>7, <1>8, <1>9 DEF ProgramInv

LEMMA StartShutterStep ==
  ASSUME ProgramInv, ListInv', InfoInv', StartShutter
  PROVE  ProgramInv'
<1>1. /\ script # << >> /\ Head(script) = "start"
      /\ UNCHANGED <<main, localsTP, semsTP, bufferTP, signals, lost, interrupted,
                     infoVars, listVars>>
  BY DEF StartShutter, In, OtherThan
<1>2. /\ afLock' = afLock /\ afMissed' = afMissed /\ again' = again
      /\ stage = "shutter"
  BY Zenon DEF StartShutter, OtherThan
<1>3. \/ /\ shutter' = TRUE /\ shutterMissed' = NoneMissed /\ failures' = failures
         /\ Leave /\ reported' = "started"
      \/ /\ shutter' \in {shutter, TRUE} /\ failures' = failures + 1
         /\ shutterMissed' = [shutterMissed EXCEPT !.press = @ + 1]
         /\ stage' = "undo" /\ script' = script /\ reported' = reported
  BY Zenon DEF StartShutter, Obeys, Unsure, Failure
<1>4. /\ afLock \in BOOLEAN /\ shutter \in BOOLEAN /\ again \in BOOLEAN
      /\ afMissed \in MissedCounts /\ shutterMissed \in MissedCounts
  BY DEF ProgramInv, TypeOK, TakeInv, TakeTypeOK, MissedCounts
<1>5. shutter' \in BOOLEAN /\ afLock' \in BOOLEAN /\ again' \in BOOLEAN
  BY <1>2, <1>3, <1>4, Zenon
<1>6. /\ shutterMissed' \in MissedCounts /\ afMissed' \in MissedCounts
      /\ shutterMissed' # NoneMissed => shutterMissed'.press >= 1
  <2>1. \/ shutterMissed' = NoneMissed
        \/ shutterMissed' = [shutterMissed EXCEPT !.press = @ + 1]
    BY <1>3, Zenon
  <2>2. afMissed' = afMissed
    BY <1>2
  <2>3. shutterMissed \in MissedCounts /\ afMissed \in MissedCounts
    BY <1>4
  <2> QED
    BY <2>1, <2>2, <2>3 DEF MissedCounts, NoneMissed
<1>7. TypeOK' /\ TakeInv' /\ OneOwner'
  <2>1. failures' \in {failures, failures + 1}
    BY <1>3, Zenon
  <2>2. reported' \in {reported, "started", "not_started", "stopped", "not_stopped"}
    BY <1>3, Zenon
  <2>3. Leave \/ (script' = script /\ stage' \in Stages)
    BY <1>3, Zenon DEF Stages
  <2> QED
    BY <1>1, <1>5, <1>6, <2>1, <2>2, <2>3, ButtonStep
<1>8. Midway'
  <2>1. \/ Leave
        \/ /\ shutterMissed' = [shutterMissed EXCEPT !.press = @ + 1]
           /\ stage' = "undo" /\ script' = script
    BY <1>3, Zenon
  <2>2. shutterMissed \in MissedCounts
    BY <1>4
  <2>3. Leave \/ (shutterMissed'.press >= 1 /\ stage' = "undo" /\ script' = script)
    BY <2>1, <2>2 DEF MissedCounts
  <2> QED
    BY <1>1, <2>3 DEF Midway, Leave, In
<1>9. ButtonsAsReported'
  <2>1. CASE stage' = "undo"
    BY <2>1 DEF ButtonsAsReported
  <2>2. CASE shutter' = TRUE /\ reported' = "started"
    <3>1. afLock
      BY <1>2 DEF ProgramInv, Midway
    <3>2. afLock' /\ shutter'
      BY <2>2, <3>1, <1>2, Zenon
    <3> QED
      BY <2>2, <3>2 DEF ButtonsAsReported
  <2> QED
    BY <1>3, <2>1, <2>2
<1> QED
  BY <1>7, <1>8, <1>9 DEF ProgramInv

LEMMA StartUndoStep ==
  ASSUME ProgramInv, ListInv', InfoInv', StartUndo
  PROVE  ProgramInv'
<1>1. /\ script # << >> /\ Head(script) = "start"
      /\ UNCHANGED <<main, localsTP, semsTP, bufferTP, signals, lost, interrupted,
                     infoVars, listVars>>
  BY DEF StartUndo, In, OtherThan
<1>2. /\ shutter' = shutter /\ shutterMissed' = shutterMissed /\ again' = again
      /\ stage = "undo"
  BY Zenon DEF StartUndo, OtherThan
<1>3. \/ /\ afLock' = FALSE /\ afMissed' = NoneMissed /\ failures' = failures
         /\ Leave /\ reported' = "not_started"
      \/ /\ afLock' \in {afLock, FALSE} /\ failures' = failures + 1
         /\ afMissed' = [afMissed EXCEPT !.release = @ + 1]
         /\ Leave /\ reported' = "not_started"
  BY Zenon DEF StartUndo, Obeys, Unsure, Failure
<1>4. /\ afLock \in BOOLEAN /\ shutter \in BOOLEAN /\ again \in BOOLEAN
      /\ afMissed \in MissedCounts /\ shutterMissed \in MissedCounts
  BY DEF ProgramInv, TypeOK, TakeInv, TakeTypeOK, MissedCounts
<1>5. afLock' \in BOOLEAN /\ shutter' \in BOOLEAN /\ again' \in BOOLEAN
  BY <1>2, <1>3, <1>4, Zenon
<1>6. /\ afMissed' \in MissedCounts /\ shutterMissed' \in MissedCounts
      /\ afMissed' # NoneMissed => afMissed'.release >= 1
  <2>1. \/ afMissed' = NoneMissed
        \/ afMissed' = [afMissed EXCEPT !.release = @ + 1]
    BY <1>3, Zenon
  <2>2. shutterMissed' = shutterMissed
    BY <1>2
  <2>3. afMissed \in MissedCounts /\ shutterMissed \in MissedCounts
    BY <1>4
  <2> QED
    BY <2>1, <2>2, <2>3 DEF MissedCounts, NoneMissed
<1>7. TypeOK' /\ TakeInv' /\ OneOwner'
  <2>1. failures' \in {failures, failures + 1}
    BY <1>3, Zenon
  <2>2. reported' \in {reported, "started", "not_started", "stopped", "not_stopped"}
    BY <1>3, Zenon
  <2>3. Leave \/ (script' = script /\ stage' \in Stages)
    BY <1>3, Zenon DEF Stages
  <2> QED
    BY <1>1, <1>5, <1>6, <2>1, <2>2, <2>3, ButtonStep
<1>8. Midway'
  BY <1>3 DEF Midway, Leave
<1>9. ButtonsAsReported'
  <2>1. shutterMissed'.press \in Nat \ {0} /\ shutterMissed'.release \in Nat
    BY <1>2, <1>6 DEF ProgramInv, Midway, MissedCounts
  <2>2. ~afLock' \/ afMissed' = [afMissed EXCEPT !.release = @ + 1]
    BY <1>3, Zenon
  <2>3. afMissed \in MissedCounts
    BY <1>4
  <2>4. afLock' => Missed(afMissed)'
    BY <2>2, <2>3 DEF MissedCounts, Missed
  <2>5. Missed(shutterMissed)'
    BY <2>1 DEF Missed
  <2>6. reported' = "not_started"
    BY <1>3, Zenon
  <2> QED
    BY <2>4, <2>5, <2>6 DEF ButtonsAsReported
<1> QED
  BY <1>7, <1>8, <1>9 DEF ProgramInv

LEMMA StopShutterStep ==
  ASSUME ProgramInv, ListInv', InfoInv', StopShutter
  PROVE  ProgramInv'
<1>1. /\ script # << >> /\ Head(script) = "stop"
      /\ UNCHANGED <<main, localsTP, semsTP, bufferTP, signals, lost, interrupted,
                     infoVars, listVars>>
  BY DEF StopShutter, In, OtherThan
<1>2. /\ afLock' = afLock /\ afMissed' = afMissed /\ again' = again
      /\ stage = "enter"
  BY Zenon DEF StopShutter, OtherThan
<1>3. \/ /\ shutter' = FALSE /\ shutterMissed' = NoneMissed /\ failures' = failures
         /\ script' = script /\ reported' = reported /\ stage' = "aflock"
      \/ /\ shutter' \in {shutter, FALSE} /\ failures' = failures + 1
         /\ shutterMissed' = [shutterMissed EXCEPT !.release = @ + 1]
         /\ script' = script /\ reported' = reported /\ stage' = "anyway"
  BY Zenon DEF StopShutter, Obeys, Unsure, Failure
<1>4. /\ afLock \in BOOLEAN /\ shutter \in BOOLEAN /\ again \in BOOLEAN
      /\ afMissed \in MissedCounts /\ shutterMissed \in MissedCounts
  BY DEF ProgramInv, TypeOK, TakeInv, TakeTypeOK, MissedCounts
<1>5. shutter' \in BOOLEAN /\ afLock' \in BOOLEAN /\ again' \in BOOLEAN
  BY <1>2, <1>3, <1>4, Zenon
<1>6. /\ shutterMissed' \in MissedCounts /\ afMissed' \in MissedCounts
      /\ shutterMissed' # NoneMissed => shutterMissed'.release >= 1
  <2>1. \/ shutterMissed' = NoneMissed
        \/ shutterMissed' = [shutterMissed EXCEPT !.release = @ + 1]
    BY <1>3, Zenon
  <2>2. afMissed' = afMissed
    BY <1>2
  <2>3. shutterMissed \in MissedCounts /\ afMissed \in MissedCounts
    BY <1>4
  <2> QED
    BY <2>1, <2>2, <2>3 DEF MissedCounts, NoneMissed
<1>7. TypeOK' /\ TakeInv' /\ OneOwner'
  <2>1. failures' \in {failures, failures + 1}
    BY <1>3, Zenon
  <2>2. reported' \in {reported, "started", "not_started", "stopped", "not_stopped"}
    BY <1>3, Zenon
  <2>3. Leave \/ (script' = script /\ stage' \in Stages)
    BY <1>3, Zenon DEF Stages
  <2> QED
    BY <1>1, <1>5, <1>6, <2>1, <2>2, <2>3, ButtonStep
<1>8. Midway'
  <2>1. \/ ~shutter' /\ stage' = "aflock" /\ script' = script
        \/ /\ shutterMissed' = [shutterMissed EXCEPT !.release = @ + 1]
           /\ stage' = "anyway" /\ script' = script
    BY <1>3, Zenon
  <2>2. \/ ~shutter' /\ stage' = "aflock" /\ script' = script
        \/ shutterMissed'.release >= 1 /\ stage' = "anyway" /\ script' = script
    <3>1. shutterMissed \in MissedCounts
      BY <1>4
    <3> QED
      BY <2>1, <3>1 DEF MissedCounts
  <2> QED
    BY <1>1, <2>2 DEF Midway, In
<1>9. ButtonsAsReported'
  BY <1>3 DEF ButtonsAsReported
<1> QED
  BY <1>7, <1>8, <1>9 DEF ProgramInv

LEMMA StopAFLockStep ==
  ASSUME ProgramInv, ListInv', InfoInv', StopAFLock
  PROVE  ProgramInv'
<1>1. /\ script # << >> /\ Head(script) = "stop"
      /\ UNCHANGED <<main, localsTP, semsTP, bufferTP, signals, lost, interrupted,
                     infoVars, listVars>>
  BY DEF StopAFLock, In, OtherThan
<1>2. /\ shutter' = shutter /\ shutterMissed' = shutterMissed /\ again' = again
      /\ stage \in {"aflock", "anyway"}
  BY Zenon DEF StopAFLock, OtherThan
<1>3. \/ /\ afLock' = FALSE /\ afMissed' = NoneMissed /\ failures' = failures
         /\ Leave /\ reported' = IF stage = "aflock" THEN "stopped" ELSE "not_stopped"
      \/ /\ afLock' \in {afLock, FALSE} /\ failures' = failures + 1
         /\ afMissed' = [afMissed EXCEPT !.release = @ + 1]
         /\ Leave /\ reported' = "not_stopped"
  BY Zenon DEF StopAFLock, Obeys, Unsure, Failure
<1>4. /\ afLock \in BOOLEAN /\ shutter \in BOOLEAN /\ again \in BOOLEAN
      /\ afMissed \in MissedCounts /\ shutterMissed \in MissedCounts
  BY DEF ProgramInv, TypeOK, TakeInv, TakeTypeOK, MissedCounts
<1>5. afLock' \in BOOLEAN /\ shutter' \in BOOLEAN /\ again' \in BOOLEAN
  BY <1>2, <1>3, <1>4, Zenon
<1>6. /\ afMissed' \in MissedCounts /\ shutterMissed' \in MissedCounts
      /\ afMissed' # NoneMissed => afMissed'.release >= 1
  <2>1. \/ afMissed' = NoneMissed
        \/ afMissed' = [afMissed EXCEPT !.release = @ + 1]
    BY <1>3, Zenon
  <2>2. shutterMissed' = shutterMissed
    BY <1>2
  <2>3. afMissed \in MissedCounts /\ shutterMissed \in MissedCounts
    BY <1>4
  <2> QED
    BY <2>1, <2>2, <2>3 DEF MissedCounts, NoneMissed
<1>7. TypeOK' /\ TakeInv' /\ OneOwner'
  <2>1. failures' \in {failures, failures + 1}
    BY <1>3, Zenon
  <2>2. reported' \in {reported, "started", "not_started", "stopped", "not_stopped"}
    BY <1>3, Zenon
  <2>3. Leave \/ (script' = script /\ stage' \in Stages)
    BY <1>3, Zenon DEF Stages
  <2> QED
    BY <1>1, <1>5, <1>6, <2>1, <2>2, <2>3, ButtonStep
<1>8. Midway'
  BY <1>3 DEF Midway, Leave
<1>9. ButtonsAsReported'
  <2>1. /\ stage = "aflock" => ~shutter
        /\ stage = "anyway" => shutterMissed.release >= 1
    BY DEF ProgramInv, Midway
  <2>2. /\ shutter' => shutterMissed'.release >= 1 /\ stage # "aflock"
        /\ shutterMissed'.release \in Nat
    BY <2>1, <1>2, <1>6, MissedFacts
  <2>3. ~afLock' \/ afMissed' = [afMissed EXCEPT !.release = @ + 1]
    BY <1>3, Zenon
  <2>4. afLock' => afMissed'.release >= 1
    <3>1. afMissed \in MissedCounts
      BY <1>4
    <3> QED
      BY <2>3, <3>1 DEF MissedCounts
  <2>5. reported' = "not_stopped" \/ (~afLock' /\ stage = "aflock" /\ reported' = "stopped")
    BY <1>3, Zenon
  <2>6. afMissed'.release \in Nat
    BY <1>6 DEF MissedCounts
  <2> QED
    BY <2>2, <2>4, <2>5, <2>6 DEF ButtonsAsReported
<1> QED
  BY <1>7, <1>8, <1>9 DEF ProgramInv

-----------------------------------------------------------------------------
(* The programs.                                                           *)

LEMMA ProgramInvInit == Init => ProgramInv
<1> SUFFICES ASSUME Init PROVE ProgramInv
  OBVIOUS
<1>1. script \in Seq(Calls)
  BY ScriptsAssumption, SeqMonotonic DEF Init, Calls
<1>2. ListTypeOK /\ InfoTypeOK
  BY ListInvInit, InfoInvInit DEF Init, ListInv, InfoInv
<1>3. listPlace = "none" /\ infoPlace = "none"
  BY DEF Init, ListInit, InfoInit
<1>4. TakeInv
  <2>1. /\ ~stopped /\ ~shutter /\ ~afLock
        /\ stop \in BOOLEAN /\ stopped \in BOOLEAN /\ afLock \in BOOLEAN /\ shutter \in BOOLEAN
        /\ interrupted \in BOOLEAN
    BY Zenon DEF Init, TakeInit
  <2>2. taken \in 0 .. (Wanted + 1)
    BY TakeAssumption DEF Init, TakeInit
  <2> QED
    BY <2>1, <2>2
       DEF Init, TakeInit, TakeInv, TakeTypeOK, TakePlaces, Tokens, Held, Attempted,
           ReleasedAtEnd, NoneMissed
<1>5. TypeOK
  BY <1>1, <1>2, <1>3, <1>4 DEF Init, TypeOK, Stages, TakeInv
<1>6. OneOwner
  BY ScriptsAssumption DEF Init, TakeInit, OneOwner
<1>7. Midway /\ ButtonsAsReported
  BY DEF Init, Midway, ButtonsAsReported
<1> QED
  BY <1>4, <1>5, <1>6, <1>7 DEF ProgramInv

LEMMA ProgramInvStep == ProgramInv /\ ListInv' /\ InfoInv' /\ [Next]_vars => ProgramInv'
<1> SUFFICES ASSUME ProgramInv, ListInv', InfoInv', [Next]_vars PROVE ProgramInv'
  OBVIOUS
<1>1. CASE UNCHANGED vars
  <2>1. UNCHANGED <<callVars, infoPlace, listPlace, takeVars>>
    BY <1>1 DEF vars, infoVars, listVars
  <2>2. ListTypeOK' /\ InfoTypeOK'
    BY DEF ListInv, InfoInv
  <2>3. TakeInv'
    BY <2>1
       DEF takeVars, localsTP, semsTP, buttonsTP, bufferTP, boundsTP, ProgramInv, TakeInv,
           TakeTypeOK, Tokens, Held, Attempted, Attempts, ReleasedAtEnd
  <2>4. TypeOK'
    BY <2>1, <2>2, <2>3 DEF callVars, flowVars, ProgramInv, TypeOK, TakeInv, In
  <2>5. OneOwner' /\ Midway' /\ ButtonsAsReported'
    BY <2>1
       DEF callVars, flowVars, takeVars, buttonsTP, boundsTP, ProgramInv, OneOwner, Midway,
           ButtonsAsReported, Missed, In
  <2> QED
    BY <2>3, <2>4, <2>5 DEF ProgramInv
<1> QED
  BY <1>1, ComponentStep, WaitQuitStep, TakeStep, LockFailsStep, StartAFLockStep, StartShutterStep,
     StartUndoStep, StopShutterStep, StopAFLockStep, MeanwhileStep
     DEF Next, ProgramStep, Rest

LEMMA ProgramInvHolds == Spec => []ProgramInv
<1>1. InfoSpec => []InfoInv
  BY InfoInvInit, InfoInvStep, PTL DEF InfoSpec
<1> QED
  BY <1>1, ProgramInvInit, ProgramInvStep, DecodersUsed, ListInvHolds, PTL DEF Spec

\* TypeOK holds of every program: the variables have their types, and there is a
\* list or information only in the calls that make one.
THEOREM TypeOKHolds == Spec => []TypeOK
<1>1. ProgramInv => TypeOK
  BY DEF ProgramInv
<1> QED
  BY <1>1, ProgramInvHolds, PTL

\* ButtonsReleased holds of every program and any number of failures, those to lock
\* included: a button that is left pressed is one whose own transactions failed, to
\* release it as often as take_pictures tries.
THEOREM ButtonsReleasedHolds == Spec => []ButtonsReleased
<1>1. ProgramInv => ButtonsReleased
  BY DEF ProgramInv, TakeInv, Attempted, ButtonsReleased
<1> QED
  BY <1>1, ProgramInvHolds, PTL

\* NoMissingPicture holds of every client: without an interrupted wait the camera
\* has the picture that it is asked for.
THEOREM NoMissingPictureHolds == Spec => []NoMissingPicture
<1>1. ProgramInv => NoMissingPicture
  BY DEF ProgramInv, TakeInv, TakeTypeOK, Tokens, Held, NoMissingPicture
<1> QED
  BY <1>1, ProgramInvHolds, PTL

=============================================================================
