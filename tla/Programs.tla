------------------------------ MODULE Programs ------------------------------
(***************************************************************************)
(* The two programs that use the library, each a sequence of calls: main   *)
(* of client.c, whose options "can only be changed from the code", and a   *)
(* Python program with a Camera object (pyptp.c).  The calls share the     *)
(* camera; the client's also share sem_quit, which the signal handler      *)
(* posts.  Lists of properties (PropList), device and object information   *)
(* (DeviceInfo) and pictures (TakePictures) are components.                *)
(***************************************************************************)
EXTENDS DeviceInfo, PropList, TakePictures

CONSTANT Scripts   \* the sequences of calls that a program may make

ClientCalls == {"devinfo", "props", "poll", "take"}
PythonCalls == {"objinfo", "battery", "setparams", "start", "stop"}
Calls       == ClientCalls \cup PythonCalls
InfoCalls   == {"devinfo", "objinfo"}
ListCalls   == {"props", "poll", "battery", "setparams"}

ASSUME ScriptsAssumption == Scripts \subseteq Seq(ClientCalls) \cup Seq(PythonCalls)

VARIABLES
  script,    \* the calls that are left, the current one first
  stage,     \* how far the current one is, if its component does not tell
  again,     \* was a button pressed when start was called?
  reported   \* what the last start or stop reported

flowVars == <<script, stage>>
callVars == <<flowVars, again, reported>>
vars     == <<callVars, infoVars, listVars, takeVars>>

Init ==
  /\ script \in Scripts /\ stage = "enter"
  /\ again = FALSE /\ reported = "nothing"
  /\ InfoInit /\ ListInit /\ TakeInit

In(calls) == script # << >> /\ Head(script) \in calls

Leave == script' = Tail(script) /\ stage' = "enter"

-----------------------------------------------------------------------------
(* The calls that are made of components.                                  *)

\* main's handling of the device information: created, decoded from two messages,
\* freed.  An object's information is handled likewise; both programs ask for it
\* without a structure to decode it into, so "objinfo" is any other user's.
InfoStep ==
  /\ In(InfoCalls)
  /\ FailField \/ DecodeString \/ DecodeArray
  /\ UNCHANGED <<callVars, listVars, takeVars>>

InfoBegin ==
  /\ In(InfoCalls) /\ infoPlace = "none"
  /\ CreateInfo
  /\ infoPlace' = IF In({"devinfo"}) THEN "pima" ELSE "object"
  /\ UNCHANGED <<callVars, listVars, takeVars>>

InfoEnd ==
  /\ In(InfoCalls)
  /\ FreeInfo
  /\ Leave
  /\ UNCHANGED <<again, reported, listVars, takeVars>>

\* Every list is created and read in the same way ...
ListStep ==
  /\ In(ListCalls) /\ stage = "enter"
  /\ \/ Create \/ NoList \/ DecodeList \/ DecodeDesc \/ NoMore \/ DecodeValue
     \/ DecodeNoForm \/ DecodeForm \/ DecodeEnumCount \/ DecodeEnumValue
  /\ UNCHANGED <<callVars, infoVars, takeVars>>

\* ... ptp_sony_set_control_prop reads one over and over ...
ListAgain ==
  /\ In({"setparams"})
  /\ Clear
  /\ UNCHANGED <<callVars, infoVars, takeVars>>

\* ... and frees it, with or without success.  Camera_setparams goes on to the
\* next parameter if there is one and this one was set.
FreeListSet ==
  /\ In({"setparams"})
  /\ FreeList
  /\ \/ Leave
     \/ listPlace # "failed" /\ UNCHANGED flowVars
  /\ UNCHANGED <<again, reported, infoVars, takeVars>>

\* print_device_props and ptp_sony_get_battery free it only after they have
\* printed or found what they wanted; or else the list is lost.
FreeListRead ==
  /\ In({"props", "poll", "battery"}) /\ stage = "enter"
  /\ listPlace \in {"decoded", "failed"}
  /\ FreeList
  /\ IF In({"poll"}) /\ listPlace = "decoded"
       THEN stage' = "wait" /\ UNCHANGED script
       ELSE Leave
  /\ UNCHANGED <<again, reported, infoVars, takeVars>>

\* poll_device_props: wait_quit(500), which an interrupted wait does not end.
WaitQuit ==
  /\ In({"poll"}) /\ stage = "wait"
  /\ \/ /\ semQuit > 0
        /\ semQuit' = semQuit - 1
        /\ Leave
     \/ /\ semQuit = 0
        /\ stage' = "enter"
        /\ UNCHANGED <<semQuit, script>>
  /\ UNCHANGED <<again, reported, infoVars, listVars, main, localsTP, semObjects,
                 buttonsTP, bufferTP, boundsTP>>

Take ==
  /\ In({"take"})
  /\ Main
  /\ IF main' = "done" THEN Leave ELSE UNCHANGED flowVars
  /\ UNCHANGED <<again, reported, infoVars, listVars>>

-----------------------------------------------------------------------------
(* Camera_start and Camera_stop.  Each holds mutex_transfer throughout.    *)

\* Camera_lock_transfer of a method times out, because the transfer thread holds
\* the mutex (Transfer): the method does nothing, and says so.
LockFails ==
  /\ In(PythonCalls) /\ stage = "enter"
  /\ listPlace = "none" /\ infoPlace = "none"
  /\ Leave
  /\ reported' = IF In({"start", "stop"}) THEN "busy" ELSE reported
  /\ UNCHANGED <<again, infoVars, listVars, takeVars>>

\* What a step on one button leaves alone.
OtherThan(button, missed) ==
  /\ UNCHANGED <<main, localsTP, semsTP, bufferTP, signals, lost, interrupted,
                 infoVars, listVars>>
  /\ UNCHANGED <<button, missed>>

StartAFLock ==
  /\ In({"start"}) /\ stage = "enter"
  /\ again' = (afLock \/ shutter)
  /\ \/ /\ Obeys(afLock, afMissed, TRUE)
        /\ stage' = "shutter" /\ UNCHANGED <<script, reported>>
     \/ /\ Unsure(afLock, afMissed, TRUE)
        /\ Leave /\ reported' = "not_started"
  /\ OtherThan(shutter, shutterMissed)

\* Mutant: the AF lock is not given up when the shutter fails.
Bug_StartShutter ==
  /\ In({"start"}) /\ stage = "shutter"
  /\ \/ Obeys(shutter, shutterMissed, TRUE)  /\ reported' = "started"
     \/ Unsure(shutter, shutterMissed, TRUE) /\ reported' = "not_started"
  /\ Leave
  /\ UNCHANGED again
  /\ OtherThan(afLock, afMissed)

StartShutter ==
  /\ In({"start"}) /\ stage = "shutter"
  /\ \/ /\ Obeys(shutter, shutterMissed, TRUE)
        /\ Leave /\ reported' = "started"
     \/ /\ Unsure(shutter, shutterMissed, TRUE)
        /\ stage' = "undo" /\ UNCHANGED <<script, reported>>
  /\ UNCHANGED again
  /\ OtherThan(afLock, afMissed)

\* The result of the undo is not looked at.
StartUndo ==
  /\ In({"start"}) /\ stage = "undo"
  /\ Obeys(afLock, afMissed, FALSE) \/ Unsure(afLock, afMissed, FALSE)
  /\ Leave /\ reported' = "not_started"
  /\ UNCHANGED again
  /\ OtherThan(shutter, shutterMissed)

\* "Try setting AF lock anyway".
StopShutter ==
  /\ In({"stop"}) /\ stage = "enter"
  /\ \/ Obeys(shutter, shutterMissed, FALSE)  /\ stage' = "aflock"
     \/ Unsure(shutter, shutterMissed, FALSE) /\ stage' = "anyway"
  /\ UNCHANGED <<script, again, reported>>
  /\ OtherThan(afLock, afMissed)

StopAFLock ==
  /\ In({"stop"}) /\ stage \in {"aflock", "anyway"}
  /\ \/ /\ Obeys(afLock, afMissed, FALSE)
        /\ reported' = IF stage = "aflock" THEN "stopped" ELSE "not_stopped"
     \/ /\ Unsure(afLock, afMissed, FALSE)
        /\ reported' = "not_stopped"
  /\ Leave
  /\ UNCHANGED again
  /\ OtherThan(shutter, shutterMissed)

-----------------------------------------------------------------------------
(* What goes on meanwhile.                                                 *)

CameraStep ==
  /\ Camera
  /\ UNCHANGED <<callVars, infoVars, listVars>>

\* A picture of a Python program is announced to the transfer thread (Transfer),
\* not here.
EventStep ==
  /\ In(ClientCalls)
  /\ ObjectAdded
  /\ UNCHANGED <<callVars, infoVars, listVars>>

\* The signal handler is the client's, installed before its first call.
SignalStep ==
  /\ In(ClientCalls)
  /\ Signal
  /\ In({"take"}) \/ UNCHANGED main
  /\ UNCHANGED <<callVars, infoVars, listVars>>

ProgramStep ==
  \/ InfoBegin \/ InfoStep \/ InfoEnd
  \/ ListStep \/ ListAgain \/ FreeListSet \/ FreeListRead \/ WaitQuit
  \/ Take
  \/ LockFails \/ StartAFLock \/ StartShutter \/ StartUndo \/ StopShutter \/ StopAFLock

\* The program has ended, or waits for a picture that may never come.
Ended  == script = << >>
Rest   == (Ended \/ (In({"take"}) /\ Starved)) /\ UNCHANGED vars

Next == ProgramStep \/ CameraStep \/ EventStep \/ SignalStep \/ Rest

Spec == Init /\ [][Next]_vars

\* The program runs, transactions end, an event that arrives is handled, and a
\* picture that was taken becomes ready.
Fairness == /\ WF_vars(ProgramStep)
            /\ WF_vars(EventStep)
            /\ WF_vars(Develop /\ CameraStep)

FairSpec == Spec /\ Fairness

-----------------------------------------------------------------------------
(* Properties.                                                             *)

Stages == {"enter", "wait", "shutter", "undo", "aflock", "anyway"}

\* The values each variable takes, and the components' at rest outside calls.
TypeOK ==
  /\ script \in Seq(Calls) /\ stage \in Stages
  /\ again \in BOOLEAN
  /\ reported \in {"nothing", "started", "not_started", "stopped", "not_stopped",
                  "busy"}
  /\ InfoTypeOK /\ ListTypeOK /\ TakeTypeOK
  /\ infoPlace # "none" => In(InfoCalls)
  /\ listPlace # "none" => In(ListCalls)

\* However often the buffer moves while a list is decoded, the decoders' locals
\* find their structures, what the list leads to is inside the buffer, and a
\* list that decoded well has nothing missing (a user follows its pointers
\* without a test).
ListSound == LocalsFollow /\ ListInside /\ ListComplete

\* The same of device information: Sony's two lists are joined to the camera's
\* own, nothing is lost or read from where it was, all is inside the buffer.
InfoSound == ListsJoined /\ InfoInside

\* A recorded pointer moves with the buffer, and is not moved twice.
PointersFollow == ListFollows /\ InfoFollows

\* What start and stop report as done is done; where they report an error, a button
\* is pressed only if a transaction of theirs on this very button failed.  A method
\* that did not get the mutex has promised nothing.
Missed(missed) == missed.press + missed.release > 0

ButtonsAsReported ==
  stage = "enter" =>
    /\ reported = "started" => afLock /\ shutter
    /\ reported = "stopped" => ~afLock /\ ~shutter
    /\ reported = "not_stopped" =>
         /\ afLock => afMissed.release > 0
         /\ shutter => shutterMissed.release > 0
    /\ reported = "not_started" /\ ~again =>
         /\ afLock => Missed(afMissed)
         /\ shutter => Missed(shutterMissed)

\* The camera is not left shooting, by take_pictures or by the methods, except by
\* failed transactions on the button that is still pressed.
ButtonsReleased == ReleasedAtEnd /\ ButtonsAsReported


-----------------------------------------------------------------------------
(* The inductive invariant behind the properties.                          *)

\* A client leaves the buttons to take_pictures, a Python program to start and
\* stop.
OneOwner ==
  \/ script \in Seq(ClientCalls) /\ reported = "nothing"
  \/ script \in Seq(PythonCalls) /\ main = "af_press"

\* Where start and stop are.
Midway ==
  /\ stage \in {"shutter", "undo"} => In({"start"})
  /\ stage \in {"aflock", "anyway"} => In({"stop"})
  /\ stage = "wait" => In({"poll"}) /\ listPlace = "none"
  /\ stage = "shutter" => afLock /\ (~again => ~shutter)
  /\ stage = "undo" => shutterMissed.press >= 1
  /\ stage = "aflock" => ~shutter
  /\ stage = "anyway" => shutterMissed.release >= 1

ProgramInv == TypeOK /\ TakeInv /\ OneOwner /\ Midway /\ ButtonsAsReported
=============================================================================
