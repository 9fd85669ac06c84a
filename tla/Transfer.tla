------------------------------ MODULE Transfer ------------------------------
(***************************************************************************)
(* The transfer machinery of the Python module (pyptp.c): the transfer     *)
(* thread (pyptp_transfer_thread), the Python side that initialises,       *)
(* calls and deallocates a Camera object, and the libusb event thread that *)
(* posts ObjectAdded events, over the mutex and the two semaphores they    *)
(* share.  A step is the code between two points where another thread can  *)
(* interfere: a semaphore or mutex operation, a PTP transaction, taking    *)
(* the interpreter lock.                                                   *)
(*                                                                         *)
(* Every method holds the interpreter lock (GIL) from entry to return:     *)
(* pyptp.c never releases it.  So one process, "python", stands for all    *)
(* the Python threads, and the callback is the only Python code that runs  *)
(* elsewhere, in the transfer thread.                                      *)
(***************************************************************************)
EXTENDS Integers, FiniteSets

CONSTANTS
  Images,       \* the pictures the camera may take
  MaxCalls,     \* bound: method calls, from the program and from the callback
  MaxInits,     \* bound: calls of Camera.__init__
  MaxFaults     \* bound: failed transactions, opens and file writes

ASSUME ImagesAssumption == IsFiniteSet(Images)
ASSUME BoundsAssumption == /\ MaxCalls  \in Nat
                           /\ MaxInits  \in Nat
                           /\ MaxFaults \in Nat

VARIABLES
  captured,       \* pictures in the camera that are not ready yet
  ready,          \* pictures in the camera that can be fetched
  events,         \* ObjectAdded events sent by the camera, not yet handled
  semEvent,       \* value of sem_event
  semStop,        \* value of sem_stop
  mutex,          \* owner of mutex_transfer
  gil,            \* owner of the interpreter lock; it is "absent" until the
                  \* program starts a thread of its own (Python 2.7)
  transferState,  \* transfer_state
  device,         \* the PTP device, with its event transfers
  imageDir,       \* image_dir
  imageIndex,     \* image_index
  thread,         \* where the transfer thread is
  locked,         \* the thread's local `locked`
  pending,        \* the thread's local `pending`
  hand,           \* the picture whose data the thread holds in memory
  session,        \* counts the sessions opened, to tell their files apart
  saved,          \* files written: [image, session, index]
  dropped,        \* pictures fetched but not saved
  lost,           \* pictures that the camera gave up in a fetch that failed
  python,         \* where the Python side is
  caller,         \* who is stopping the thread: Camera_init or Camera_dealloc
  context,        \* usbctx
  pipe,           \* does the bulk pipe hold an answer nobody took?
  calls, inits, faults  \* how much of each bound is used

cameraVars  == <<captured, ready, events>>
syncVars    == <<semEvent, semStop, mutex>>
objectVars  == <<transferState, device, imageDir>>
localVars   == <<locked, pending>>
imageVars   == <<hand, saved, dropped, lost, imageIndex, session>>
threadVars  == <<thread, localVars, imageVars>>
pythonVars  == <<python, caller, inits, context>>
failVars    == <<faults, pipe>>
boundVars   == <<calls, failVars>>

vars == <<cameraVars, syncVars, gil, objectVars, threadVars, pythonVars,
          boundVars>>

ThreadPlaces == {"none", "wait", "poll_lock", "poll", "check", "lock", "info",
                 "object", "save", "cb_gil", "cb", "cb_lock", "cb_transact",
                 "exited"}
PythonPlaces == {"idle", "method_lock", "method_transact", "stop_sem",
                 "stop_event", "join", "free_device", "free_sems", "prepare",
                 "open", "session", "create", "undo_device", "undo_sems",
                 "dead", "crashed"}
Owners       == {"nobody", "thread", "python"}
States       == {"INVALID", "SEM_VALID", "THREAD_VALID"}

Init ==
  /\ captured = {} /\ ready = {} /\ events = 0
  /\ semEvent = 0 /\ semStop = 0 /\ mutex = "nobody"
  /\ gil \in {"absent", "nobody"}
  /\ transferState = "INVALID" /\ device = "closed" /\ imageDir = "NULL"
  /\ imageIndex = 0 /\ session = 0
  /\ thread = "none" /\ locked = 0 /\ pending = 0
  /\ hand = {} /\ saved = {} /\ dropped = {} /\ lost = {}
  /\ python = "idle" /\ caller = "init" /\ context = "NULL"
  /\ pipe = "clean"
  /\ calls = 0 /\ inits = 0 /\ faults = 0

-----------------------------------------------------------------------------
(* The camera (external) and the event callback.                           *)

\* What has left the camera and the thread's memory.
Settled == dropped \cup lost \cup {f.image : f \in saved}

\* The camera takes a picture; it is pending, not yet ready.
Shoot(i) ==
  /\ i \notin captured \cup ready \cup hand \cup Settled
  /\ captured' = captured \cup {i}
  /\ UNCHANGED <<ready, events, syncVars, gil, objectVars, threadVars,
                 pythonVars, boundVars>>

\* A picture becomes ready.  The ObjectAdded event may be lost: no event
\* transfer is submitted, or the camera drops it.
BecomeReady(i) ==
  /\ i \in captured
  /\ captured' = captured \ {i}
  /\ ready' = ready \cup {i}
  /\ events' \in {events, events + 1}
  /\ UNCHANGED <<syncVars, gil, objectVars, threadVars, pythonVars, boundVars>>

\* pyptp_event_callback, in the libusb event thread.  Other event codes change
\* nothing.
EventCallback ==
  /\ events > 0
  /\ device = "open"
  /\ events' = events - 1
  /\ semEvent' = semEvent + 1
  /\ UNCHANGED <<captured, ready, semStop, mutex, gil, objectVars, threadVars,
                 pythonVars, boundVars>>

-----------------------------------------------------------------------------
(* What every thread uses.                                                 *)

\* pthread_mutex_timedlock fails only when its time runs out while another
\* holds the mutex (or, for a thread that locks twice, while it does itself).
Acquire(p)  == mutex = "nobody" /\ mutex' = p
LockExpires == mutex # "nobody" /\ UNCHANGED mutex
Unlock      == mutex' = "nobody"

\* PyGILState_Ensure, and the entry of a method: without an initialised
\* interpreter lock nobody waits.
TakeGil(p) == \/ gil = "absent" /\ UNCHANGED gil
              \/ gil = "nobody" /\ gil' = p
FreeGil    == gil' = IF gil = "absent" THEN "absent" ELSE "nobody"

NoFault   == UNCHANGED failVars
NewFault  == faults < MaxFaults /\ faults' = faults + 1

\* Something else than a transaction fails.
Fault == NewFault /\ UNCHANGED pipe

\* A transaction that fails may leave a container in the pipe; from then on every
\* transaction with this device reads what an earlier one left, and fails
\* (Transact's OutOfStepStays).
InStep   == pipe = "clean"
Succeeds == InStep /\ NoFault
Fails    == \/ ~InStep /\ NoFault
            \/ NewFault /\ pipe' \in {pipe, "stale"}
Answers  == Succeeds \/ Fails

-----------------------------------------------------------------------------
(* The transfer thread.                                                    *)

\* The head of the loop: sem_timedwait gets a token ...
WaitToken ==
  /\ thread = "wait"
  /\ semEvent > 0
  /\ semEvent' = semEvent - 1
  /\ thread' = "check"
  /\ locked' = 0 /\ pending' = 0
  /\ UNCHANGED <<cameraVars, semStop, mutex, gil, objectVars, imageVars,
                 pythonVars, boundVars>>

\* ... or times out: the thread polls the camera.  (An interrupted wait goes
\* round the loop and changes nothing.)
WaitTimeout ==
  /\ thread = "wait"
  /\ semEvent = 0
  /\ thread' = "poll_lock"
  /\ locked' = 0 /\ pending' = 0
  /\ UNCHANGED <<cameraVars, syncVars, gil, objectVars, imageVars, pythonVars,
                 boundVars>>

\* Mutant: the lock's result is not looked at.
Bug_PollLock ==
  /\ thread = "poll_lock"
  /\ Acquire("thread") \/ LockExpires
  /\ thread' = "poll"
  /\ UNCHANGED <<cameraVars, semEvent, semStop, gil, objectVars, localVars,
                 imageVars, pythonVars, boundVars>>

PollLock ==
  /\ thread = "poll_lock"
  /\ \/ Acquire("thread") /\ thread' = "poll"
     \/ LockExpires /\ thread' = "wait"
  /\ UNCHANGED <<cameraVars, semEvent, semStop, gil, objectVars, localVars,
                 imageVars, pythonVars, boundVars>>

\* Mutant: an error is taken for an answer; the bits of -56 say that many pictures
\* are there, and one ready.
Bug2_Poll ==
  /\ thread = "poll"
  /\ \/ Fails /\ pending' = 32712 /\ locked' = 1
        /\ thread' = "check" /\ UNCHANGED mutex
     \/ /\ Succeeds
        /\ pending' = Cardinality(captured \cup ready)
        /\ IF ready = {}
           THEN Unlock /\ thread' = "wait" /\ UNCHANGED locked
           ELSE locked' = 1 /\ thread' = "check" /\ UNCHANGED mutex
  /\ UNCHANGED <<cameraVars, semEvent, semStop, gil, objectVars, imageVars,
                 pythonVars, calls>>

\* Mutant: the ready bit is masked out with the count.
Bug_Poll ==
  /\ thread = "poll"
  /\ Answers
  /\ Unlock
  /\ thread' = "wait"
  /\ UNCHANGED <<cameraVars, semEvent, semStop, gil, objectVars, localVars,
                 imageVars, pythonVars, calls>>

\* ptp_sony_get_pending_objects answers the number of pictures in the camera,
\* with bit 15 set when one is ready.
Poll ==
  /\ thread = "poll"
  /\ \/ Fails /\ Unlock /\ thread' = "wait" /\ UNCHANGED localVars
     \/ /\ Succeeds
        /\ pending' = Cardinality(captured \cup ready)
        /\ IF ready = {}
           THEN Unlock /\ thread' = "wait" /\ UNCHANGED locked
           ELSE locked' = 1 /\ thread' = "check" /\ UNCHANGED mutex
  /\ UNCHANGED <<cameraVars, semEvent, semStop, gil, objectVars, imageVars,
                 pythonVars, calls>>

\* "Check if we should stop": only a thread woken by an event looks.
MayStop == pending = 0 /\ locked = 0

CheckStop ==
  /\ thread = "check"
  /\ MayStop /\ semStop > 0
  /\ semStop' = semStop - 1
  /\ thread' = "exited"
  /\ UNCHANGED <<cameraVars, semEvent, mutex, gil, objectVars, localVars,
                 imageVars, pythonVars, boundVars>>

CheckContinue ==
  /\ thread = "check"
  /\ ~(MayStop /\ semStop > 0)
  /\ thread' = IF locked = 1 THEN "info" ELSE "lock"
  /\ UNCHANGED <<cameraVars, syncVars, gil, objectVars, localVars, imageVars,
                 pythonVars, boundVars>>

ThreadLock ==
  /\ thread = "lock"
  /\ \/ Acquire("thread") /\ thread' = "info"
     \/ LockExpires /\ thread' = "wait"
  /\ UNCHANGED <<cameraVars, semEvent, semStop, gil, objectVars, localVars,
                 imageVars, pythonVars, boundVars>>

\* Mutant: a failure returns without unlocking.
Bug_GetObjectInfo ==
  /\ thread = "info"
  /\ \/ Fails /\ thread' = "wait"
     \/ Succeeds /\ ready = {} /\ thread' = "wait"
     \/ Succeeds /\ ready # {} /\ thread' = "object"
  /\ UNCHANGED <<cameraVars, syncVars, gil, objectVars, localVars, imageVars,
                 pythonVars, calls>>

\* pyptp_transfer_image asks for the object's info.  The camera refuses when
\* no picture is ready.
GetObjectInfo ==
  /\ thread = "info"
  /\ \/ Fails /\ Unlock /\ thread' = "wait"
     \/ Succeeds /\ ready = {} /\ Unlock /\ thread' = "wait"
     \/ Succeeds /\ ready # {} /\ UNCHANGED mutex /\ thread' = "object"
  /\ UNCHANGED <<cameraVars, semEvent, semStop, gil, objectVars, localVars,
                 imageVars, pythonVars, calls>>

\* Mutant: the mutex is kept while the picture is saved and the callback runs.
Bug_GetObject ==
  /\ thread = "object"
  /\ Succeeds
  /\ \E i \in ready : ready' = ready \ {i} /\ hand' = {i}
  /\ thread' = "save"
  /\ UNCHANGED <<captured, events, syncVars, gil, objectVars, localVars, saved,
                 dropped, lost, imageIndex, session, pythonVars, calls>>

\* ... and for its data.  The camera gives a picture up when it has sent it; so
\* a failure before that leaves it in the camera, and one after it (no memory for
\* it, a response that does not come) loses it.  The mutex is released before the
\* picture is looked at.
GetObject ==
  /\ thread = "object"
  /\ Unlock
  /\ \/ /\ Fails
        /\ \/ UNCHANGED <<ready, lost>>
           \/ \E i \in ready : ready' = ready \ {i} /\ lost' = lost \cup {i}
        /\ thread' = "wait"
        /\ UNCHANGED hand
     \/ /\ Succeeds
        /\ \E i \in ready : ready' = ready \ {i} /\ hand' = {i}
        /\ thread' = "save"
        /\ UNCHANGED lost
  /\ UNCHANGED <<captured, events, semEvent, semStop, gil, objectVars,
                 localVars, saved, dropped, imageIndex, session, pythonVars,
                 calls>>

\* The rest of pyptp_transfer_image: the path is built from image_dir and
\* image_index, the file written.  A path that cannot be built or opened drops
\* the picture; so does an image_dir that is no longer set (the path then leads
\* nowhere).
Save ==
  /\ thread = "save"
  /\ hand' = {}
  /\ \/ /\ imageDir = "set" /\ NoFault
        /\ saved' = saved \cup
             {[image |-> i, session |-> session, index |-> imageIndex] : i \in hand}
        /\ thread' = "cb_gil"
        /\ UNCHANGED <<dropped, imageIndex>>
     \/ /\ IF imageDir = "set" THEN Fault ELSE NoFault
        /\ dropped' = dropped \cup hand
        /\ imageIndex' = imageIndex + 1
        /\ thread' = "wait"
        /\ UNCHANGED saved
  /\ UNCHANGED <<cameraVars, syncVars, gil, objectVars, localVars, lost, session,
                 pythonVars, calls>>

\* pyptp_call_callback, around the user's function.  The callback is always
\* set here: Camera_init refuses one that is not callable.
CallbackEnter ==
  /\ thread = "cb_gil"
  /\ TakeGil("thread")
  /\ thread' = "cb"
  /\ UNCHANGED <<cameraVars, syncVars, objectVars, localVars, imageVars,
                 pythonVars, boundVars>>

\* The interpreter lets other Python threads run between two instructions.
CallbackYield ==
  /\ thread = "cb"
  /\ gil # "absent"
  /\ FreeGil
  /\ thread' = "cb_gil"
  /\ UNCHANGED <<cameraVars, syncVars, objectVars, localVars, imageVars,
                 pythonVars, boundVars>>

\* Mutant: image_index moves on only for a picture without a file.
Bug_CallbackReturn ==
  /\ thread = "cb"
  /\ FreeGil
  /\ thread' = "wait"
  /\ UNCHANGED <<cameraVars, syncVars, objectVars, localVars, imageVars,
                 pythonVars, boundVars>>

CallbackReturn ==
  /\ thread = "cb"
  /\ FreeGil
  /\ imageIndex' = imageIndex + 1
  /\ thread' = "wait"
  /\ UNCHANGED <<cameraVars, syncVars, objectVars, localVars, hand, saved,
                 dropped, lost, session, pythonVars, boundVars>>

\* The user's function may call a method of the camera.
CallbackCall ==
  /\ thread = "cb"
  /\ calls < MaxCalls
  /\ calls' = calls + 1
  /\ thread' = "cb_lock"
  /\ UNCHANGED <<cameraVars, syncVars, gil, objectVars, localVars, imageVars,
                 pythonVars, failVars>>

CallbackLock ==
  /\ thread = "cb_lock"
  /\ \/ Acquire("thread") /\ thread' = "cb_transact"
     \/ LockExpires /\ thread' = "cb"
  /\ UNCHANGED <<cameraVars, semEvent, semStop, gil, objectVars, localVars,
                 imageVars, pythonVars, boundVars>>

CallbackUnlock ==
  /\ thread = "cb_transact"
  /\ Answers
  /\ Unlock
  /\ thread' = "cb"
  /\ UNCHANGED <<cameraVars, semEvent, semStop, gil, objectVars, localVars,
                 imageVars, pythonVars, calls>>

-----------------------------------------------------------------------------
(* The Python side: the methods.  Without a device a method returns an     *)
(* error and changes nothing.                                              *)

MethodEnter ==
  /\ python = "idle"
  /\ device = "open"
  /\ calls < MaxCalls
  /\ TakeGil("python")
  /\ calls' = calls + 1
  /\ python' = "method_lock"
  /\ UNCHANGED <<cameraVars, syncVars, objectVars, threadVars, caller, inits,
                 context, failVars>>

MethodLock ==
  /\ python = "method_lock"
  /\ \/ Acquire("python") /\ python' = "method_transact" /\ UNCHANGED gil
     \/ LockExpires /\ python' = "idle" /\ FreeGil
  /\ UNCHANGED <<cameraVars, semEvent, semStop, objectVars, threadVars, caller,
                 inits, context, boundVars>>

\* The transactions are over; each way out of a method unlocks.
MethodReturn ==
  /\ python = "method_transact"
  /\ Answers
  /\ Unlock
  /\ FreeGil
  /\ python' = "idle"
  /\ UNCHANGED <<cameraVars, semEvent, semStop, objectVars, threadVars, caller,
                 inits, context, calls>>

-----------------------------------------------------------------------------
(* The Python side: Camera_init and Camera_dealloc.                        *)

\* Mutant: the thread is not stopped first.
Bug_EnterStop == python' = "free_device"

\* Camera_stop_transfer returns at once when there is no thread.
EnterStop ==
  python' = IF transferState = "THREAD_VALID" THEN "stop_sem" ELSE "free_device"

InitEnter ==
  /\ python = "idle"
  /\ inits < MaxInits
  /\ TakeGil("python")
  /\ inits' = inits + 1
  /\ caller' = "init"
  /\ EnterStop
  /\ UNCHANGED <<cameraVars, syncVars, objectVars, threadVars, context,
                 boundVars>>

\* Camera_dealloc clears image_dir before it stops the thread.
DeallocEnter ==
  /\ python = "idle"
  /\ TakeGil("python")
  /\ imageDir' = "NULL"
  /\ caller' = "dealloc"
  /\ EnterStop
  /\ UNCHANGED <<cameraVars, syncVars, transferState, device, threadVars, inits,
                 context, boundVars>>

PostStop ==
  /\ python = "stop_sem"
  /\ semStop' = semStop + 1
  /\ python' = "stop_event"
  /\ UNCHANGED <<cameraVars, semEvent, mutex, gil, objectVars, threadVars,
                 caller, inits, context, boundVars>>

\* Mutant: the stop is posted, the wake-up is not.
Bug_PostEvent ==
  /\ python = "stop_event"
  /\ python' = "join"
  /\ UNCHANGED <<cameraVars, syncVars, gil, objectVars, threadVars, caller,
                 inits, context, boundVars>>

\* "Make sure that the transfer thread has woken up".
PostEvent ==
  /\ python = "stop_event"
  /\ semEvent' = semEvent + 1
  /\ python' = "join"
  /\ UNCHANGED <<cameraVars, semStop, mutex, gil, objectVars, threadVars,
                 caller, inits, context, boundVars>>

\* Mutant: the thread is not waited for.
Bug_Join ==
  /\ python = "join"
  /\ thread' = "none"
  /\ transferState' = "SEM_VALID"
  /\ python' = "free_device"
  /\ UNCHANGED <<cameraVars, syncVars, gil, device, imageDir, localVars,
                 imageVars, caller, inits, context, boundVars>>

Join ==
  /\ python = "join"
  /\ thread = "exited"
  /\ thread' = "none"
  /\ transferState' = "SEM_VALID"
  /\ python' = "free_device"
  /\ UNCHANGED <<cameraVars, syncVars, gil, device, imageDir, localVars,
                 imageVars, caller, inits, context, boundVars>>

\* ptp_device_free and usb_close end the session and the event transfers:
\* after them no event is handled.  Without a device both are skipped.
CloseDevice == device' = "closed" /\ events' = 0

FreeDevice ==
  /\ python = "free_device"
  /\ IF device = "open" THEN Answers ELSE NoFault
  /\ CloseDevice
  /\ IF caller = "dealloc" THEN python' = "dead" /\ FreeGil
                ELSE python' = "free_sems" /\ UNCHANGED gil
  /\ UNCHANGED <<captured, ready, syncVars, transferState, imageDir, threadVars,
                 caller, inits, context, calls>>

\* Camera_free_semaphores and Camera_clear_image_dir.
FreeSems ==
  /\ python \in {"free_sems", "undo_sems"}
  /\ transferState' = "INVALID"
  /\ imageDir' = "NULL"
  /\ IF python = "undo_sems" THEN python' = "idle" /\ FreeGil
                             ELSE python' = "prepare" /\ UNCHANGED gil
  /\ UNCHANGED <<cameraVars, syncVars, device, threadVars, caller, inits, context,
                 boundVars>>

\* The callback, image_dir and Camera_init_semaphores.
Prepare ==
  /\ python = "prepare"
  /\ \/ /\ Fault
        /\ python' = "idle" /\ FreeGil
        /\ UNCHANGED <<syncVars, imageDir, transferState>>
     \/ /\ NoFault
        /\ semEvent' = 0 /\ semStop' = 0 /\ mutex' = "nobody"
        /\ imageDir' = "set"
        /\ transferState' = "SEM_VALID"
        /\ python' = "open" /\ UNCHANGED gil
  /\ UNCHANGED <<cameraVars, device, threadVars, caller, inits, context, calls>>

\* The USB device, found through usbctx; ptp_device_init then submits the event
\* transfers ...  What an earlier session left in the pipe may still be there.
\* A Camera_init that finds a context leaves its own `usbctx` unset and uses it:
\* the device may be found all the same, or not, or the program crashes.
OpenDevice ==
  /\ python = "open"
  /\ \/ Fault /\ python' = "undo_sems" /\ UNCHANGED device
     \/ /\ python' = "session" /\ device' = "open"
        /\ pipe' \in {pipe, "clean"} /\ UNCHANGED faults
     \/ /\ context = "set" /\ NoFault
        /\ python' \in {"undo_sems", "crashed"} /\ UNCHANGED device
  /\ UNCHANGED <<cameraVars, syncVars, gil, transferState, imageDir, threadVars,
                 caller, inits, context, calls>>

\* ... and opens the session.  Transaction ids start again with the device, so
\* this one transaction may take an answer from an earlier session for its own.
OpenSession ==
  /\ python = "session"
  /\ \/ Fails /\ python' = "undo_sems" /\ CloseDevice
        /\ UNCHANGED <<imageIndex, session>>
     \/ /\ NoFault
        /\ python' = "create"
        /\ imageIndex' = 0 /\ session' = session + 1
        /\ UNCHANGED <<device, events>>
  /\ UNCHANGED <<captured, ready, syncVars, gil, transferState, imageDir, thread,
                 localVars, hand, saved, dropped, lost, caller, inits, context,
                 calls>>

\* Camera_start_transfer.
StartTransfer ==
  /\ python = "create"
  /\ \/ /\ Fault
        /\ python' = "undo_device"
        /\ context' = "NULL"
        /\ UNCHANGED <<transferState, thread, gil>>
     \/ /\ NoFault
        /\ transferState' = "THREAD_VALID"
        /\ thread' = "wait"
        /\ context' = "set"
        /\ python' = "idle" /\ FreeGil
  /\ UNCHANGED <<cameraVars, syncVars, device, imageDir, localVars, imageVars,
                 caller, inits, calls>>

UndoDevice ==
  /\ python = "undo_device"
  /\ Answers
  /\ CloseDevice
  /\ python' = "undo_sems"
  /\ UNCHANGED <<captured, ready, syncVars, gil, transferState, imageDir,
                 threadVars, caller, inits, context, calls>>

-----------------------------------------------------------------------------

CameraNext == \E i \in Images : Shoot(i) \/ BecomeReady(i)

ThreadNext ==
  \/ WaitToken \/ WaitTimeout \/ PollLock \/ Poll
  \/ CheckStop \/ CheckContinue \/ ThreadLock
  \/ GetObjectInfo \/ GetObject \/ Save
  \/ CallbackEnter \/ CallbackYield \/ CallbackReturn
  \/ CallbackCall \/ CallbackLock \/ CallbackUnlock

\* What the Python side does once it has entered a function of the module.
PythonStep ==
  \/ MethodLock \/ MethodReturn
  \/ PostStop \/ PostEvent \/ Join \/ FreeDevice
  \/ FreeSems \/ Prepare \/ OpenDevice \/ OpenSession \/ StartTransfer
  \/ UndoDevice

PythonNext == MethodEnter \/ InitEnter \/ DeallocEnter \/ PythonStep

\* The one deadlock: the interpreter lock is held by the caller of
\* Camera_stop_transfer, and the thread waits for it (StopReturns).
Hung == python = "join" /\ thread = "cb_gil" /\ gil = "python"

\* The object is gone, with the program or alone, or stuck: nothing more happens
\* to it.
Gone == (python \in {"dead", "crashed"} \/ Hung) /\ UNCHANGED vars

Next == CameraNext \/ EventCallback \/ ThreadNext \/ PythonNext \/ Gone

Spec == Init /\ [][Next]_vars

\* The scheduler runs every thread that can run; sem_timedwait and the timed
\* locks end by themselves; a transaction ends, with an answer or an error; and
\* the user's callback returns.  Nothing is assumed of the camera, of the event
\* thread or of the program that calls the methods.
Fairness == /\ WF_vars(ThreadNext)
            /\ SF_vars(CallbackReturn)
            /\ WF_vars(PythonStep)

FairSpec == Spec /\ Fairness

-----------------------------------------------------------------------------
(* What must hold.                                                         *)

\* The values each variable takes.  The thread holds one picture at most, and
\* what it takes for the number of pending pictures never exceeds the pictures.
TypeOK ==
  /\ captured \subseteq Images /\ ready \subseteq Images
  /\ events \in Nat /\ semEvent \in Nat /\ semStop \in Nat
  /\ mutex \in Owners /\ gil \in Owners \cup {"absent"}
  /\ transferState \in States /\ device \in {"closed", "open"}
  /\ imageDir \in {"NULL", "set"}
  /\ imageIndex \in Nat /\ session \in Nat
  /\ thread \in ThreadPlaces /\ locked \in {0, 1}
  /\ pending \in 0..Cardinality(Images)
  /\ hand \subseteq Images /\ \A i, j \in hand : i = j
  /\ saved \subseteq [image : Images, session : Nat, index : Nat]
  /\ dropped \subseteq Images /\ lost \subseteq Images
  /\ python \in PythonPlaces /\ caller \in {"init", "dealloc"}
  /\ context \in {"NULL", "set"} /\ pipe \in {"clean", "stale"}
  /\ calls \in Nat /\ inits \in Nat /\ faults \in Nat

ThreadAlive == thread \notin {"none", "exited"}

\* Where each side is in the middle of a PTP transaction; opening and closing
\* the device are transactions too, and are done without the mutex.
ThreadTransacts == thread \in {"poll", "info", "object", "cb_transact"}
PythonTransacts == \/ python \in {"method_transact", "session"}
                   \/ python \in {"free_device", "undo_device"}
                      /\ device = "open"

\* Two threads are never in a transaction at once: the transaction id and the
\* bulk pipes belong to one exchange at a time, in every interleaving of
\* methods, callback, polling, re-initialisation and deallocation.
OneTransaction == ~(ThreadTransacts /\ PythonTransacts)

\* The mutex is held by a thread exactly at the places between its lock and its
\* unlock: no way out of the loop, of pyptp_transfer_image or of a method, and
\* no failed transaction, leaves it locked or unlocks another's.
ThreadLocks    == ThreadTransacts \/ (thread = "check" /\ locked = 1)
LockDiscipline == /\ (mutex = "thread") <=> ThreadLocks
                  /\ (mutex = "python") <=> python = "method_transact"

\* A stop that was asked for reaches the thread: while Camera_stop_transfer
\* waits in pthread_join, the stop token is there, and so is an event token to
\* wake the thread up, unless it is already on its way to look.  No timeout,
\* failed lock or event in between uses the wake-up without looking.
StopNotLost ==
  python = "join" /\ ThreadAlive =>
    /\ semStop = 1
    /\ semEvent > 0 \/ (thread = "check" /\ MayStop)

\* The device, the semaphores and the mutex are there as long as the thread
\* is; and the event callback, which runs as long as the device is open, finds
\* a semaphore to post.
ObjectsOutliveThread ==
  /\ ThreadAlive => device = "open" /\ transferState = "THREAD_VALID"
  /\ device = "open" => transferState # "INVALID"

\* The files of one session have names of their own: image_index has moved on
\* before the next picture is written, whichever way the last one ended.
NoOverwrite ==
  \A f, g \in saved :
    f.session = g.session /\ f.index = g.index => f = g

\* A thread gives up on the mutex only because another thread holds it: the
\* callback, which may call any method, never runs under the lock its own
\* thread took for the picture.
NoSelfTimeout ==
  [][/\ thread = "cb_lock" /\ thread' = "cb" => mutex = "python"
     /\ python = "method_lock" /\ python' = "idle" => mutex = "thread"]_vars

\* A method that waits for the mutex holds the interpreter lock meanwhile: the
\* owner of the mutex must not be waiting for that one.
NoLockCycle ==
  python = "method_lock" /\ mutex = "thread" =>
    thread \notin {"cb_gil", "cb_lock"}

\* Every picture is fetched once, settled once, and by a thread that lives; the
\* camera gives one up unseen only in a fetch that fails.
PlaceOf(i) == CASE i \in captured \cup ready           -> "camera"
                [] i \in hand                         -> "memory"
                [] i \in {f.image : f \in saved}       -> "saved"
                [] i \in dropped                      -> "dropped"
                [] i \in lost                         -> "lost"
                [] OTHER                              -> "world"

Place == [i \in Images |-> PlaceOf(i)]

D == INSTANCE Delivery WITH place <- Place, running <- ThreadAlive,
                          failures <- faults

DeliverySpec == D!DSpec

\* Camera_stop_transfer returns.
StopReturns == python = "join" ~> python # "join"

\* ... at least if no interpreter lock is in use, and with one whenever it finds
\* the thread waiting for an event.
IdleStopReturns ==
  (python = "join" /\ (gil = "absent" \/ thread = "wait")) ~> python # "join"

\* A picture that is ready comes into the thread's hand, with or without its
\* event; or the thread is told to stop, or a failed transaction loses the picture
\* or leaves the pipe out of step.
Stopping       == python \in {"stop_sem", "stop_event", "join"}
PictureFetched ==
  \A i \in Images :
    (i \in ready /\ ThreadAlive) ~> (i \in hand \/ i \in lost \/ Stopping \/ ~InStep)

-----------------------------------------------------------------------------
(* The inductive invariant behind the safety properties.                   *)

\* How far the thread's life and the Python side's progress agree.
LifeCycle ==
  /\ thread # "none" <=> transferState = "THREAD_VALID"
  /\ thread # "none" => device = "open"
  /\ thread # "none" => python \in {"idle", "method_lock", "method_transact",
                                    "stop_sem", "stop_event", "join"}
  /\ thread = "exited" => python \in {"stop_event", "join"}
  /\ python \in {"stop_sem", "stop_event", "join"} => thread # "none"
  /\ python \in {"open", "session", "create", "undo_device"} =>
       transferState = "SEM_VALID"
  /\ python \in {"free_sems", "prepare", "open", "undo_sems", "dead",
                 "crashed"} => device = "closed"
  /\ python \in {"session", "create", "undo_device"} => device = "open"
  /\ device = "open" => transferState # "INVALID"

\* The stop token exists exactly from its post to the thread's end.
StopToken ==
  semStop = IF python \in {"stop_event", "join"} /\ thread # "exited"
            THEN 1 ELSE 0

\* The second half of StopNotLost.
WakeUp ==
  python = "join" /\ ThreadAlive =>
    semEvent > 0 \/ (thread = "check" /\ MayStop)

Inv == TypeOK /\ LifeCycle /\ LockDiscipline /\ StopToken /\ WakeUp

\* Behind NoOverwrite: every file of this session is older than image_index,
\* except the one whose callback is running.
InCallback  == thread \in {"cb_gil", "cb", "cb_lock", "cb_transact"}
FilesBehind ==
  \A f \in saved :
    /\ f.session <= session
    /\ f.session = session =>
         f.index < imageIndex \/ (f.index = imageIndex /\ InCallback)

FilesInv == FilesBehind /\ NoOverwrite

\* Behind DeliverySpec: a picture is in one place, in memory only while the
\* thread is about to save it; and the data is asked for in step, so that only a
\* transaction that fails loses it.
OnePlace ==
  /\ captured \cap ready = {}
  /\ (captured \cup ready) \cap (hand \cup Settled) = {}
  /\ hand \cap Settled = {}
  /\ dropped \cap {f.image : f \in saved} = {}
  /\ lost \cap (dropped \cup {f.image : f \in saved}) = {}
  /\ hand # {} <=> thread = "save"
  /\ thread = "object" => InStep

-----------------------------------------------------------------------------
(* What comments of the code say and the code does not do.                 *)

\* pyptp.c:365: "Check if we should stop, but only if there are no more pending
\* images".
StopLeavesNoPicture ==
  [][thread = "check" /\ thread' = "exited" => ready = {}]_vars

\* pyptp.c:730: "Set the members before starting the transfer thread"; and
\* Camera_init clears image_dir after "Stop the transfer thread" (627).  The
\* thread has an image_dir to write to.
ImageDirSet == thread = "save" => imageDir = "set"
=============================================================================
