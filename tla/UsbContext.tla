----------------------------- MODULE UsbContext -----------------------------
(***************************************************************************)
(* The USB context of usb.c: threads open and close devices of one         *)
(* context; the first open starts the event thread, the last close stops   *)
(* it with a semaphore token and joins it, under mutex_devcount.           *)
(***************************************************************************)
EXTENDS Integers, FiniteSets

CONSTANTS
  Users,     \* the threads that open and close devices, one each at a time
  MaxOpens,  \* bound: calls of usb_open_device_with_vid_pid
  MaxFaults  \* bound: opens that libusb, malloc or pthread_create refuse

ASSUME UsersAssumption  == IsFiniteSet(Users)
ASSUME BoundsAssumption == MaxOpens \in Nat /\ MaxFaults \in Nat

Nobody == "nobody"

ASSUME NobodyAssumption == Nobody \notin Users

VARIABLES
  user,      \* where each thread is
  mutex,     \* owner of mutex_devcount
  devcount,
  semStop,   \* value of sem_stop
  event,     \* where the event thread is
  handles,   \* threads with an open libusb handle
  opens, faults

vars == <<user, mutex, devcount, semStop, event, handles, opens, faults>>

UserPlaces  == {"idle", "open_lock", "open_create", "opened", "close_lock",
                "close_post", "close_handle", "close_join"}
EventPlaces == {"none", "check", "handle", "exited"}

Init ==
  /\ user = [u \in Users |-> "idle"]
  /\ mutex = Nobody /\ devcount = 0 /\ semStop = 0
  /\ event = "none" /\ handles = {}
  /\ opens = 0 /\ faults = 0

Fault   == faults < MaxFaults /\ faults' = faults + 1
NoFault == UNCHANGED faults

Goes(u, from, to) == user[u] = from /\ user' = [user EXCEPT ![u] = to]

Lock(u) == mutex = Nobody /\ mutex' = u
Unlock  == mutex' = Nobody

-----------------------------------------------------------------------------
(* usb_open_device_with_vid_pid.                                           *)

\* The handle is opened before the mutex is taken.
OpenHandle(u) ==
  /\ user[u] = "idle"
  /\ opens < MaxOpens
  /\ opens' = opens + 1
  /\ \/ NoFault /\ Goes(u, "idle", "open_lock") /\ handles' = handles \cup {u}
     \/ Fault /\ UNCHANGED <<user, handles>>
  /\ UNCHANGED <<mutex, devcount, semStop, event>>

OpenLock(u) ==
  /\ Goes(u, "open_lock", "open_create")
  /\ Lock(u)
  /\ UNCHANGED <<devcount, semStop, event, handles, opens, faults>>

\* Mutant: a refused thread leaves the device counted.
Bug_OpenCreate(u) ==
  /\ user[u] = "open_create"
  /\ Unlock
  /\ devcount' = devcount + 1
  /\ \/ /\ NoFault
        /\ event' = IF devcount = 0 THEN "check" ELSE event
        /\ Goes(u, "open_create", "opened")
        /\ UNCHANGED handles
     \/ /\ devcount = 0 /\ Fault
        /\ handles' = handles \ {u}
        /\ Goes(u, "open_create", "idle")
        /\ UNCHANGED event
  /\ UNCHANGED <<semStop, opens>>

\* The first device starts the event thread, or is given up.
OpenCreate(u) ==
  /\ user[u] = "open_create"
  /\ Unlock
  /\ \/ /\ NoFault
        /\ event' = IF devcount = 0 THEN "check" ELSE event
        /\ devcount' = devcount + 1
        /\ Goes(u, "open_create", "opened")
        /\ UNCHANGED handles
     \/ /\ devcount = 0 /\ Fault
        /\ handles' = handles \ {u}
        /\ Goes(u, "open_create", "idle")
        /\ UNCHANGED <<devcount, event>>
  /\ UNCHANGED <<semStop, opens>>

-----------------------------------------------------------------------------
(* usb_close.                                                              *)

Close(u) ==
  /\ Goes(u, "opened", "close_lock")
  /\ UNCHANGED <<mutex, devcount, semStop, event, handles, opens, faults>>

CloseLock(u) ==
  /\ Goes(u, "close_lock", "close_post")
  /\ Lock(u)
  /\ UNCHANGED <<devcount, semStop, event, handles, opens, faults>>

\* Mutant: every close posts.
Bug_ClosePost(u) ==
  /\ Goes(u, "close_post", "close_handle")
  /\ semStop' = semStop + 1
  /\ UNCHANGED <<mutex, devcount, event, handles, opens, faults>>

\* "Signal the event thread to stop", when this is the last device.
ClosePost(u) ==
  /\ Goes(u, "close_post", "close_handle")
  /\ semStop' = IF devcount = 1 THEN semStop + 1 ELSE semStop
  /\ UNCHANGED <<mutex, devcount, event, handles, opens, faults>>

\* libusb_close; it takes the event thread out of a wait for events.
CloseHandle(u) ==
  /\ Goes(u, "close_handle", "close_join")
  /\ handles' = handles \ {u}
  /\ UNCHANGED <<mutex, devcount, semStop, event, opens, faults>>

\* Mutant: the count goes down without the join.
Bug_CloseJoin(u) ==
  /\ Goes(u, "close_join", "idle")
  /\ devcount' = devcount - 1
  /\ Unlock
  /\ UNCHANGED <<semStop, event, handles, opens, faults>>

\* "Wait for the event thread", when this is the last device.
CloseJoin(u) ==
  /\ Goes(u, "close_join", "idle")
  /\ IF devcount = 1 THEN event = "exited" /\ event' = "none"
                     ELSE UNCHANGED event
  /\ devcount' = devcount - 1
  /\ Unlock
  /\ UNCHANGED <<semStop, handles, opens, faults>>

-----------------------------------------------------------------------------
(* usb_event_thread_proc.                                                  *)

\* Mutant: the thread looks at the semaphore and takes no token.
Bug_CheckStop ==
  /\ event = "check"
  /\ event' = IF semStop > 0 THEN "exited" ELSE "handle"
  /\ UNCHANGED <<user, mutex, devcount, semStop, handles, opens, faults>>

\* sem_trywait decides whether to go on.
CheckStop ==
  /\ event = "check"
  /\ IF semStop > 0 THEN semStop' = semStop - 1 /\ event' = "exited"
                    ELSE event' = "handle" /\ UNCHANGED semStop
  /\ UNCHANGED <<user, mutex, devcount, handles, opens, faults>>

\* Mutant: an idle libusb is waited for as long as it has a device.
Bug_HandleEvents ==
  /\ event = "handle"
  /\ handles # {}
  /\ event' = "check"
  /\ UNCHANGED <<user, mutex, devcount, semStop, handles, opens, faults>>

\* libusb_handle_events returns: after an event, a close or its time-out of a
\* minute.  The close may come before it waits; then the time-out ends it.
HandleEvents ==
  /\ event = "handle"
  /\ event' = "check"
  /\ UNCHANGED <<user, mutex, devcount, semStop, handles, opens, faults>>

-----------------------------------------------------------------------------

EventNext == CheckStop \/ HandleEvents

\* What a thread does once it is inside a function of usb.c.
UserStep(u) == \/ OpenLock(u) \/ OpenCreate(u)
               \/ CloseLock(u) \/ ClosePost(u) \/ CloseHandle(u) \/ CloseJoin(u)

\* All devices are closed and none is opened again.
Finished == /\ opens = MaxOpens /\ \A u \in Users : user[u] = "idle"
            /\ UNCHANGED vars

Next == \/ \E u \in Users : OpenHandle(u) \/ Close(u) \/ UserStep(u)
        \/ EventNext
        \/ Finished

Spec == Init /\ [][Next]_vars

\* Threads run; a waiting thread gets the mutex in the end; handling events ends.
FairSpec == /\ Spec
            /\ WF_vars(EventNext)
            /\ \A u \in Users : SF_vars(UserStep(u))

-----------------------------------------------------------------------------
(* What must hold.                                                         *)

\* The values each variable takes.
TypeOK ==
  /\ user \in [Users -> UserPlaces] /\ mutex \in Users \cup {Nobody}
  /\ devcount \in Nat /\ semStop \in {0, 1}
  /\ event \in EventPlaces /\ handles \subseteq Users
  /\ opens \in Nat /\ faults \in Nat

\* Whoever has an open device has an event thread that will not stop, however
\* many others open and close at the same time: no open meets a thread that is
\* on its way out, and no stop token is left for the next thread.
EventThreadServes ==
  \A u \in Users : user[u] \in {"opened", "close_lock"} =>
    event \in {"check", "handle"} /\ semStop = 0

\* Without a counted device there is no event thread: usb_exit, which the
\* program calls after its last usb_close, destroys nothing that is in use.
ThreadEndsWithDevices ==
  mutex = Nobody => (devcount = 0 <=> event = "none") /\ event # "exited"

\* There is an event thread when, and only when, somebody needs one.
ThreadMatchesDevices == EventThreadServes /\ ThreadEndsWithDevices

\* The count is that of the devices opened, whichever opens failed.
Counted        == {u \in Users : user[u] \in {"opened", "close_lock", "close_post",
                                              "close_handle", "close_join"}}
CountIsDevices == devcount = Cardinality(Counted)

\* usb_close returns, although it joins the event thread under the mutex.
CloseReturns ==
  \A u \in Users : user[u] = "close_lock" ~> user[u] = "idle"
-----------------------------------------------------------------------------
(* The inductive invariant.                                                *)

\* The mutex covers what open and close do with the count and the thread.
Critical == {"open_create", "close_post", "close_handle", "close_join"}
LockHeld == \A u \in Users : mutex = u <=> user[u] \in Critical

\* The last close is past its sem_post; only then may the event thread stop.
Stopping == \E u \in Users : user[u] \in {"close_handle", "close_join"} /\ devcount = 1

StopToken ==
  /\ Stopping  => event # "none" /\ semStop = IF event = "exited" THEN 0 ELSE 1
  /\ ~Stopping => /\ semStop = 0 /\ event # "exited"
                  /\ event = "none" <=> devcount = 0

Inv == TypeOK /\ LockHeld /\ CountIsDevices /\ StopToken
=============================================================================
