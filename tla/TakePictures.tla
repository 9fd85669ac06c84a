---------------------------- MODULE TakePictures ----------------------------
(***************************************************************************)
(* take_pictures of client.c: the main thread presses the shutter, fetches *)
(* a picture for each token of sem_objects, and releases the shutter after *)
(* a number of pictures or after Ctrl+C.  The event callback, in libusb's  *)
(* thread, posts sem_objects; the signal handler, in any thread, posts     *)
(* sem_quit, and interrupts sem_wait if that thread is the main thread.    *)
(***************************************************************************)
EXTENDS Integers

CONSTANTS
  Wanted,        \* the argument count
  BufferSize,    \* pictures that the camera's buffer holds
  MaxSignals,    \* bound: Ctrl+C
  MaxLost,       \* bound: lost ObjectAdded events
  MaxFailures    \* bound: failed transactions

ASSUME TakeAssumption == /\ Wanted      \in Nat
                         /\ BufferSize  \in Nat
                         /\ MaxSignals  \in Nat
                         /\ MaxLost     \in Nat
                         /\ MaxFailures \in Nat

VARIABLES
  main,          \* where take_pictures is
  taken,         \* the local `taken`
  pendingCount,  \* the local `pending`
  stop, stopped, \* the locals of these names
  semObjects,    \* the value of sem_objects
  semQuit,       \* the value of sem_quit
  afLock,        \* the camera's buttons: is the AF lock held,
  shutter,       \* is the shutter pressed?
  exposed,       \* pictures in the camera's buffer that are not ready
  fetchable,     \* pictures in the camera's buffer that are ready
  added,         \* ObjectAdded events that were sent and not yet handled
  afMissed, shutterMissed,  \* transactions on each button that failed since it
                            \* last obeyed, to press it and to release it
  signals, lost, failures,  \* how much of each bound is used
  interrupted    \* has a signal interrupted sem_wait?

localsTP  == <<taken, pendingCount, stop, stopped>>
semsTP    == <<semObjects, semQuit>>
buttonsTP == <<afLock, shutter, afMissed, shutterMissed>>
bufferTP  == <<exposed, fetchable, added>>
boundsTP  == <<signals, lost, failures, interrupted>>
takeVars  == <<main, localsTP, semsTP, buttonsTP, bufferTP, boundsTP>>

InBuffer == exposed + fetchable

NoneMissed == [press |-> 0, release |-> 0]

TakeInit ==
  /\ main = "af_press"
  /\ taken = 0 /\ pendingCount = 0 /\ stop = FALSE /\ stopped = FALSE
  /\ semObjects = 0 /\ semQuit = 0
  /\ afLock = FALSE /\ shutter = FALSE
  /\ exposed = 0 /\ fetchable = 0 /\ added = 0
  /\ afMissed = NoneMissed /\ shutterMissed = NoneMissed
  /\ signals = 0 /\ lost = 0 /\ failures = 0
  /\ interrupted = FALSE

-----------------------------------------------------------------------------
(* The camera (external), the event callback and the signal handler.       *)

\* With the shutter pressed the camera takes pictures, until its buffer is full.
TakeShot ==
  /\ shutter /\ InBuffer < BufferSize
  /\ exposed' = exposed + 1
  /\ UNCHANGED <<main, localsTP, semsTP, buttonsTP, fetchable, added, boundsTP>>

\* A picture becomes ready, and an event says so or is lost.
Develop ==
  /\ exposed > 0
  /\ exposed' = exposed - 1
  /\ fetchable' = fetchable + 1
  /\ \/ added' = added + 1 /\ UNCHANGED lost
     \/ lost < MaxLost /\ lost' = lost + 1 /\ UNCHANGED added
  /\ UNCHANGED <<main, localsTP, semsTP, buttonsTP, signals, failures, interrupted>>

\* Mutant: the callback does not look at the event's code.
Bug_ObjectAdded ==
  /\ semObjects' = semObjects + 1
  /\ UNCHANGED <<main, localsTP, semQuit, buttonsTP, bufferTP, boundsTP>>

\* event_callback with on_object_added.
ObjectAdded ==
  /\ added > 0
  /\ added' = added - 1
  /\ semObjects' = semObjects + 1
  /\ UNCHANGED <<main, localsTP, semQuit, buttonsTP, exposed, fetchable,
                 boundsTP>>

\* sig_handler.  The handler is installed without SA_RESTART: in the main thread
\* it ends a sem_wait, whose result take_pictures does not look at.
Signal ==
  /\ signals < MaxSignals
  /\ signals' = signals + 1
  /\ semQuit' = semQuit + 1
  /\ \/ UNCHANGED <<main, interrupted>>
     \/ main = "wait" /\ main' = "info" /\ interrupted' = TRUE
  /\ UNCHANGED <<localsTP, semObjects, buttonsTP, bufferTP, lost, failures>>

-----------------------------------------------------------------------------
(* The main thread.                                                        *)

\* A transaction fails; the number of failures is bounded.
Failure == failures < MaxFailures /\ failures' = failures + 1

\* ptp_sony_set_control_device_b_u16 of one button.  If the transaction fails,
\* the camera may have obeyed or not.
Obeys(button, missed, pressed) ==
  /\ button' = pressed
  /\ missed' = NoneMissed
  /\ UNCHANGED failures
Unsure(button, missed, pressed) ==
  /\ button' \in {button, pressed}
  /\ missed' = IF pressed THEN [missed EXCEPT !.press = @ + 1]
                          ELSE [missed EXCEPT !.release = @ + 1]
  /\ Failure

\* take_pictures only logs the result.
Press(button, missed, pressed, from, to) ==
  /\ main = from
  /\ main' = to
  /\ Obeys(button, missed, pressed) \/ Unsure(button, missed, pressed)
  /\ UNCHANGED <<semsTP, bufferTP, signals, lost, interrupted>>

PressAF ==
  /\ Press(afLock, afMissed, TRUE, "af_press", "shutter_press")
  /\ UNCHANGED <<shutter, shutterMissed, localsTP>>
PressShutter ==
  /\ Press(shutter, shutterMissed, TRUE, "shutter_press", "loop")
  /\ UNCHANGED <<afLock, afMissed, localsTP>>

\* The head of the loop, with ptp_sony_get_pending_objects.  Its result is
\* masked with 0x7FFF, a negative error too.
PTP_ERROR_RC == -56
Masked(n)    == n % 32768
GetPending ==
  /\ main = "loop"
  /\ ~stopped \/ pendingCount > 0
  /\ \/ pendingCount' = InBuffer /\ UNCHANGED failures
     \/ pendingCount' = Masked(PTP_ERROR_RC) /\ Failure
  /\ main' = IF (taken < Wanted /\ ~stopped) \/ pendingCount' > 0
               THEN "wait" ELSE "quit"
  /\ UNCHANGED <<taken, stop, stopped, semsTP, buttonsTP, bufferTP, signals,
                 lost, interrupted>>

\* ... which ends with what it had read before.
LeaveLoop ==
  /\ main = "loop"
  /\ stopped /\ pendingCount <= 0
  /\ main' = "shutter_last"
  /\ UNCHANGED <<localsTP, semsTP, buttonsTP, bufferTP, boundsTP>>

\* sem_wait(&sem_objects)
WaitObject ==
  /\ main = "wait"
  /\ semObjects > 0
  /\ semObjects' = semObjects - 1
  /\ main' = "info"
  /\ UNCHANGED <<localsTP, semQuit, buttonsTP, bufferTP, boundsTP>>

\* transfer_image: the object's information; the camera refuses if it has no
\* picture that is ready ...
ObjectInfo ==
  /\ main = "info"
  /\ \/ fetchable > 0 /\ main' = "object" /\ UNCHANGED failures
     \/ fetchable = 0 /\ main' = "shutter_last" /\ UNCHANGED failures
     \/ main' = "shutter_last" /\ Failure
  /\ UNCHANGED <<localsTP, semsTP, buttonsTP, bufferTP, signals, lost,
                 interrupted>>

\* ... and its data.  The camera forgets a picture that it has sent.  Beyond
\* Wanted, `taken` is not told apart.
GetObject ==
  /\ main = "object"
  /\ \/ /\ fetchable' = fetchable - 1
        /\ taken' = IF taken > Wanted THEN taken ELSE taken + 1
        /\ stop' = (stop \/ (taken' = Wanted /\ ~stopped))
        /\ main' = "quit"
        /\ UNCHANGED failures
     \/ /\ main' = "shutter_last"
        /\ fetchable' \in {fetchable, fetchable - 1}
        /\ Failure
        /\ UNCHANGED <<taken, stop>>
  /\ UNCHANGED <<pendingCount, stopped, semsTP, buttonsTP, exposed, added,
                 signals, lost, interrupted>>

\* wait_quit(0), and the test of stop.
CheckQuit ==
  /\ main = "quit"
  /\ \/ semQuit > 0 /\ semQuit' = semQuit - 1 /\ stop' = TRUE
     \/ semQuit = 0 /\ UNCHANGED <<semQuit, stop>>
  /\ main' = IF stop' THEN "shutter_release" ELSE "loop"
  /\ UNCHANGED <<taken, pendingCount, stopped, semObjects, buttonsTP, bufferTP,
                 boundsTP>>

ReleaseShutter ==
  /\ Press(shutter, shutterMissed, FALSE, "shutter_release", "af_release")
  /\ UNCHANGED <<afLock, afMissed, localsTP>>

ReleaseAF ==
  /\ Press(afLock, afMissed, FALSE, "af_release", "loop")
  /\ stopped' = TRUE /\ stop' = FALSE
  /\ UNCHANGED <<shutter, shutterMissed, taken, pendingCount>>

\* After the loop both are released again.
ReleaseShutterAgain ==
  /\ Press(shutter, shutterMissed, FALSE, "shutter_last", "af_last")
  /\ UNCHANGED <<afLock, afMissed, localsTP>>
ReleaseAFAgain ==
  /\ Press(afLock, afMissed, FALSE, "af_last", "done")
  /\ UNCHANGED <<shutter, shutterMissed, localsTP>>

Main ==
  \/ PressAF \/ PressShutter \/ GetPending \/ LeaveLoop \/ WaitObject
  \/ ObjectInfo \/ GetObject \/ CheckQuit \/ ReleaseShutter \/ ReleaseAF
  \/ ReleaseShutterAgain \/ ReleaseAFAgain

Camera == TakeShot \/ Develop

TakeNext == Main \/ Camera \/ ObjectAdded \/ Signal

\* The main thread runs, transactions end, an event that arrives is handled, and
\* a picture that was taken becomes ready.
TakeFairness ==
  WF_takeVars(Main) /\ WF_takeVars(ObjectAdded) /\ WF_takeVars(Develop)
TakeSpec == TakeInit /\ [][TakeNext]_takeVars /\ TakeFairness

-----------------------------------------------------------------------------
(* Properties.                                                             *)

TakePlaces == {"af_press", "shutter_press", "loop", "wait", "info", "object",
               "quit", "shutter_release", "af_release", "shutter_last",
               "af_last", "done"}

TakeTypeOK ==
  /\ main \in TakePlaces
  /\ taken \in 0..(Wanted + 1) /\ pendingCount \in Nat
  /\ stop \in BOOLEAN /\ stopped \in BOOLEAN
  /\ semObjects \in Nat /\ semQuit \in Nat
  /\ afLock \in BOOLEAN /\ shutter \in BOOLEAN
  /\ exposed \in Nat /\ fetchable \in Nat /\ added \in Nat
  /\ afMissed \in [press : Nat, release : Nat]
  /\ shutterMissed \in [press : Nat, release : Nat]
  /\ signals \in Nat /\ lost \in Nat /\ failures \in Nat
  /\ interrupted \in BOOLEAN

\* The camera is left with its buttons released; a button that is not was asked to
\* let go as often as the code tries, once, or twice when the loop was stopped,
\* and each of these transactions failed.
Attempts == IF stopped THEN 2 ELSE 1

ReleasedAtEnd ==
  main = "done" =>
    /\ shutter => shutterMissed.release >= Attempts
    /\ afLock => afMissed.release >= Attempts

\* The camera is asked only for pictures that it has, unless Ctrl+C has cut a
\* wait short: the tokens of sem_objects stand for pictures.
NoMissingPicture == main = "info" /\ fetchable = 0 => interrupted

\* The main thread waits, and nothing is under way that would end its wait: no
\* token, no event, no picture that will be ready.  For good only if the camera
\* takes no more pictures; between two of them the state is passed through.
Starved == main = "wait" /\ semObjects + added + exposed = 0

\* An attempt to release the shutter has failed, and it is still pressed.
StillShooting == shutter /\ shutterMissed.release > 0

\* README.md: after Ctrl+C, "the transfer will continue until the camera's buffer
\* is depleted".  Nothing has failed and no event is lost.
BufferDepleted ==
  main = "done" /\ signals > 0 /\ failures = 0 /\ lost = 0 => InBuffer = 0

-----------------------------------------------------------------------------
(* The inductive invariant behind the properties.                          *)

\* Every token, and every event that will become one, stands for a picture.
Held   == IF main \in {"info", "object"} THEN 1 ELSE 0
Tokens == ~interrupted => semObjects + added + Held <= fetchable

\* Each attempt to release a button that is still pressed has failed.
Attempted ==
  /\ main \in {"af_press", "shutter_press"} => ~stopped
  /\ stopped => /\ shutter => shutterMissed.release >= 1
                /\ afLock => afMissed.release >= 1
  /\ main = "af_release" /\ shutter => shutterMissed.release >= 1
  /\ main = "af_last" /\ shutter => shutterMissed.release >= Attempts
  /\ ReleasedAtEnd

TakeInv ==
  /\ TakeTypeOK
  /\ main = "object" => fetchable > 0
  /\ Tokens
  /\ Attempted
==============================================================================
