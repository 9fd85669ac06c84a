--------------------------- MODULE EventTransfers ---------------------------
(***************************************************************************)
(* The event transfers of a PTP device (ptp.c): ptp_submit_event_transfers *)
(* keeps a pool of interrupt transfers in flight, the completion callback  *)
(* hands the event on and submits the transfer again, and                  *)
(* ptp_cancel_event_transfers takes the pool down, waiting for each        *)
(* transfer's `completed`.                                                 *)
(*                                                                         *)
(* libusb runs the callbacks in whichever thread handles its events: the   *)
(* event thread of usb.c, or the thread that works on the device, while it *)
(* waits for a transfer of its own.  One thread handles events at a time.  *)
(***************************************************************************)
EXTENDS Integers

CONSTANTS
  Count,      \* transfers in the pool: PTP_EVENT_TRANSFER_COUNT, 10
  MaxEvents,  \* bound: events the camera sends
  Malformed,  \* those of them that are no event containers
  MaxDevices, \* bound: calls of ptp_device_init
  MaxFaults   \* bound: failed allocations, submissions and transfers

ASSUME CountAssumption  == Count \in Nat /\ Count > 0
ASSUME EventsAssumption == MaxEvents \in Nat /\ Malformed \subseteq 1..MaxEvents
ASSUME BoundsAssumption == MaxDevices \in Nat /\ MaxFaults \in Nat

Xfers   == 1..Count
Events  == 1..MaxEvents
Handled == {"deliver", "resubmit"}   \* phases of a completion's callback

VARIABLES
  main,       \* what the thread that owns the device does
  index,      \* `i` of its loops
  xfer,       \* the transfer's memory
  completed,  \* xfer->completed
  urb,        \* what libusb has of the transfer
  buf,        \* the event in xfer->buf
  handler,    \* the completion being handled: its thread, phase, transfer
  sent,       \* events sent by the camera
  delivered,  \* calls of event_cb for each event
  devices, faults

poolVars   == <<xfer, completed, urb, buf>>
eventVars  == <<sent, delivered>>
boundVars  == <<devices, faults>>
vars       == <<main, index, poolVars, handler, eventVars, boundVars>>

MainPlaces == {"none", "submit", "running", "cancel", "wait"}
UrbStates  == {"idle", "flying", "done", "error", "cancelled"}
Threads    == {"main", "events"}
NoHandler  == [who |-> "events", phase |-> "none", k |-> 0]

Init ==
  /\ main = "none" /\ index = 1
  /\ xfer = [k \in Xfers |-> "NULL"] /\ completed = [k \in Xfers |-> 0]
  /\ urb = [k \in Xfers |-> "idle"] /\ buf = [k \in Xfers |-> 0]
  /\ handler = NoHandler
  /\ sent = 0 /\ delivered = [e \in Events |-> 0]
  /\ devices = 0 /\ faults = 0

Fault   == faults < MaxFaults /\ faults' = faults + 1
NoFault == UNCHANGED faults

-----------------------------------------------------------------------------
(* The camera and the USB stack (external).                                *)

\* An event fills the buffer of a transfer in flight.
SendEvent(k) ==
  /\ sent < MaxEvents
  /\ urb[k] = "flying"
  /\ sent' = sent + 1
  /\ buf' = [buf EXCEPT ![k] = sent + 1]
  /\ urb' = [urb EXCEPT ![k] = "done"]
  /\ UNCHANGED <<main, index, xfer, completed, handler, delivered, boundVars>>

\* A transfer ends with an error, a stall, an overflow or a lost device.
FailTransfer(k) ==
  /\ urb[k] = "flying"
  /\ Fault
  /\ urb' = [urb EXCEPT ![k] = "error"]
  /\ UNCHANGED <<main, index, xfer, completed, buf, handler, eventVars, devices>>

-----------------------------------------------------------------------------
(* The completion callback, ptp_event_transfer_callback.                   *)

\* A thread that may handle libusb's events now: the main thread only while it
\* waits, for a bulk transfer or for a cancelled one.
MayHandle(t) ==
  t = "main" => \/ main = "running"
                \/ main = "wait" /\ completed[index] = 0

\* Mutant: no break after the cancelled case.
Bug_Reap(t, k) ==
  /\ handler = NoHandler
  /\ MayHandle(t)
  /\ urb[k] \in {"done", "error", "cancelled"}
  /\ urb' = [urb EXCEPT ![k] = "idle"]
  /\ IF urb[k] = "cancelled"
     THEN completed' = [completed EXCEPT ![k] = 1]
     ELSE UNCHANGED completed
  /\ handler' = [who |-> t, phase |-> IF urb[k] = "done" THEN "deliver"
                                                         ELSE "resubmit", k |-> k]
  /\ UNCHANGED <<main, index, xfer, buf, eventVars, boundVars>>

\* Mutant: the transfer is submitted again before its event is handed on.
Bug2_Reap(t, k) ==
  /\ handler = NoHandler
  /\ MayHandle(t)
  /\ urb[k] \in {"done", "error", "cancelled"}
  /\ IF urb[k] = "cancelled"
     THEN /\ urb' = [urb EXCEPT ![k] = "idle"]
          /\ completed' = [completed EXCEPT ![k] = 1]
          /\ UNCHANGED handler
     ELSE /\ urb' = [urb EXCEPT ![k] = "flying"]
          /\ UNCHANGED completed
          /\ handler' = [who |-> t, phase |-> "deliver", k |-> k]
  /\ UNCHANGED <<main, index, xfer, buf, eventVars, boundVars>>

\* Mutant: a cancelled transfer is treated like a failed one.
Bug3_Reap(t, k) ==
  /\ handler = NoHandler
  /\ MayHandle(t)
  /\ urb[k] \in {"done", "error", "cancelled"}
  /\ urb' = [urb EXCEPT ![k] = "idle"]
  /\ handler' = [who |-> t, k |-> k,
                 phase |-> IF urb[k] = "done" THEN "deliver" ELSE "resubmit"]
  /\ UNCHANGED <<main, index, xfer, completed, buf, eventVars, boundVars>>

\* libusb takes a finished transfer and calls back: a cancelled one is done
\* with, any other is submitted again, after its event was handed on.
Reap(t, k) ==
  /\ handler = NoHandler
  /\ MayHandle(t)
  /\ urb[k] \in {"done", "error", "cancelled"}
  /\ urb' = [urb EXCEPT ![k] = "idle"]
  /\ IF urb[k] = "cancelled"
     THEN /\ completed' = [completed EXCEPT ![k] = 1]
          /\ UNCHANGED handler
     ELSE /\ UNCHANGED completed
          /\ handler' = [who |-> t, k |-> k,
                         phase |-> IF urb[k] = "done" THEN "deliver" ELSE "resubmit"]
  /\ UNCHANGED <<main, index, xfer, buf, eventVars, boundVars>>

\* ptp_event_handle_completion: what is no event container is dropped.
Deliver ==
  /\ handler.phase = "deliver"
  /\ LET e == buf[handler.k] IN
     delivered' = IF e \in Malformed THEN delivered
                                     ELSE [delivered EXCEPT ![e] = @ + 1]
  /\ handler' = [handler EXCEPT !.phase = "resubmit"]
  /\ UNCHANGED <<main, index, poolVars, sent, boundVars>>

\* Mutant: a failed submission is not noted.
Bug_Resubmit ==
  /\ handler.phase = "resubmit"
  /\ handler' = NoHandler
  /\ \/ /\ NoFault
        /\ urb' = [urb EXCEPT ![handler.k] = "flying"]
     \/ /\ Fault
        /\ UNCHANGED urb
  /\ UNCHANGED <<main, index, xfer, completed, buf, eventVars, devices>>

Resubmit ==
  /\ handler.phase = "resubmit"
  /\ handler' = NoHandler
  /\ \/ /\ NoFault
        /\ urb' = [urb EXCEPT ![handler.k] = "flying"]
        /\ UNCHANGED completed
     \/ /\ Fault
        /\ completed' = [completed EXCEPT ![handler.k] = 1]
        /\ UNCHANGED urb
  /\ UNCHANGED <<main, index, xfer, buf, eventVars, devices>>

-----------------------------------------------------------------------------
(* The thread that owns the device.                                        *)

\* It is not inside a callback itself.
MainRuns == ~(handler.phase \in Handled /\ handler.who = "main")

\* ptp_device_init, with an event callback: the pool is cleared.
StartDevice ==
  /\ main = "none"
  /\ devices < MaxDevices
  /\ devices' = devices + 1
  /\ main' = "submit" /\ index' = 1
  /\ UNCHANGED <<poolVars, handler, eventVars, faults>>

\* The head of both loops, for (i = 0; i < PTP_EVENT_TRANSFER_COUNT; i++).
NextTransfer(here, after) ==
  IF index < Count THEN index' = index + 1 /\ main' = here
                   ELSE index' = 1 /\ main' = after

\* Mutant: the loop's bound is one too many.
Bug_Submit ==
  /\ main = "submit"
  /\ NoFault
  /\ xfer' = [xfer EXCEPT ![index] = "valid"]
  /\ urb' = [urb EXCEPT ![index] = "flying"]
  /\ completed' = [completed EXCEPT ![index] = 0]
  /\ index' = index + 1
  /\ main' = IF index <= Count THEN "submit" ELSE "running"
  /\ UNCHANGED <<buf, handler, eventVars, devices>>

\* ptp_submit_event_transfer: a transfer that cannot be allocated or submitted
\* is left out.
Submit ==
  /\ main = "submit"
  /\ completed' = [completed EXCEPT ![index] = 0]
  /\ \/ /\ NoFault
        /\ xfer' = [xfer EXCEPT ![index] = "valid"]
        /\ urb' = [urb EXCEPT ![index] = "flying"]
     \/ /\ Fault
        /\ UNCHANGED <<xfer, urb>>
  /\ NextTransfer("submit", "running")
  /\ UNCHANGED <<buf, handler, eventVars, devices>>

\* ptp_device_free, or ptp_device_init when it fails later on.
EndDevice ==
  /\ main = "running" /\ MainRuns
  /\ main' = "cancel"
  /\ UNCHANGED <<index, poolVars, handler, eventVars, boundVars>>

\* ptp_cancel_event_transfer.  libusb_cancel_transfer refuses a transfer that
\* libusb does not have, and may refuse one that has ended and whose callback has
\* not run; its result is not looked at.
Cancel ==
  /\ main = "cancel"
  /\ IF xfer[index] = "NULL"
     THEN NextTransfer("cancel", "none") /\ UNCHANGED urb
     ELSE /\ main' = "wait" /\ UNCHANGED index
          /\ \/ urb[index] # "idle" /\ urb' = [urb EXCEPT ![index] = "cancelled"]
             \/ urb[index] # "flying" /\ UNCHANGED urb
  /\ UNCHANGED <<xfer, completed, buf, handler, eventVars, boundVars>>

\* Mutant: the memory is freed without waiting.
Bug_Free ==
  /\ main = "wait" /\ MainRuns
  /\ xfer' = [xfer EXCEPT ![index] = "NULL"]
  /\ buf' = [buf EXCEPT ![index] = 0]
  /\ NextTransfer("cancel", "none")
  /\ UNCHANGED <<completed, urb, handler, eventVars, boundVars>>

\* "Wait for completion", then free.
Free ==
  /\ main = "wait" /\ MainRuns
  /\ completed[index] = 1
  /\ xfer' = [xfer EXCEPT ![index] = "NULL"]
  /\ buf' = [buf EXCEPT ![index] = 0]
  /\ NextTransfer("cancel", "none")
  /\ UNCHANGED <<completed, urb, handler, eventVars, boundVars>>

-----------------------------------------------------------------------------

CameraNext == \E k \in Xfers : SendEvent(k) \/ FailTransfer(k)

HandlerNext ==
  \/ \E t \in Threads, k \in Xfers : Reap(t, k)
  \/ Deliver
  \/ Resubmit

MainStep == Submit \/ Cancel \/ Free

Next == CameraNext \/ HandlerNext \/ MainStep \/ StartDevice \/ EndDevice

Spec == Init /\ [][Next]_vars

\* The event thread handles what libusb has finished, and the main thread runs.
\* Nothing is assumed of the camera.
FairSpec == Spec /\ WF_vars(HandlerNext) /\ WF_vars(MainStep)

-----------------------------------------------------------------------------
(* What must hold.                                                         *)

\* The values each variable takes.
TypeOK ==
  /\ main \in MainPlaces /\ index \in Xfers
  /\ xfer \in [Xfers -> {"NULL", "valid"}]
  /\ completed \in [Xfers -> {0, 1}]
  /\ urb \in [Xfers -> UrbStates]
  /\ buf \in [Xfers -> 0..MaxEvents]
  /\ handler \in [who : Threads, phase : Handled \cup {"none"}, k : 0..Count]
  /\ handler.phase \in Handled => handler.k \in Xfers
  /\ sent \in 0..MaxEvents /\ delivered \in [Events -> Nat]
  /\ devices \in Nat /\ faults \in Nat

\* A transfer's memory is there as long as libusb has the transfer or a callback
\* of it runs: whatever the threads do while the pool is taken down, nothing is
\* freed under the other's feet.
FreedUnused ==
  \A k \in Xfers : xfer[k] = "NULL" =>
    urb[k] = "idle" /\ (handler.phase \in Handled => handler.k # k)

\* A transfer is marked completed only when libusb and its callback have done
\* with it, and is submitted once at a time: what is marked needs no waiting for.
CompletedIsOver ==
  \A k \in Xfers : completed[k] = 1 =>
    urb[k] = "idle" /\ (handler.phase \in Handled => handler.k # k)

\* Freed or marked completed, a transfer is nobody's any more.
UnusedWhenDone == FreedUnused /\ CompletedIsOver

\* A transfer of a running device is not lost: libusb has it, or its callback
\* runs, or its loss is noted, so that the cancellation does not wait for it.
Accounted ==
  \A k \in Xfers : xfer[k] = "valid" /\ completed[k] = 0 =>
    urb[k] # "idle" \/ (handler.phase \in Handled /\ handler.k = k)

\* event_cb is called once for every event and not for what is none: a buffer is
\* not filled again before its event was handed on.  Only events that come in
\* while the pool is taken down may be left out.
Waiting(e) == \/ \E k \in Xfers : urb[k] = "done" /\ buf[k] = e
              \/ handler.phase = "deliver" /\ buf[handler.k] = e
DeliveredOnce ==
  \A e \in 1..sent :
    /\ delivered[e] <= IF e \in Malformed \/ Waiting(e) THEN 0 ELSE 1
    /\ devices = 1 /\ main \in {"submit", "running"} /\ e \notin Malformed =>
         delivered[e] = 1 \/ Waiting(e)

\* An event that reached the host reaches event_cb, unless the pool is being
\* taken down.
EventDelivered ==
  \A e \in Events \ Malformed :
    Waiting(e) ~> (delivered[e] = 1 \/ main \in {"cancel", "wait"})

\* A cancellation that libusb accepted ends: the main thread waits for
\* `completed` and is woken by whichever thread runs the callback.
Accepted         == main = "wait" /\ urb[index] = "cancelled"
AcceptedIsFreed  == Accepted ~> ~(main = "wait")

-----------------------------------------------------------------------------
(* What a comment of the code says and the code does not do.               *)

\* ptp.c:253: "Wait for completion".  The wait ends.
CancelReturns ==
  \A k \in Xfers : (main = "wait" /\ index = k) ~> ~(main = "wait" /\ index = k)

-----------------------------------------------------------------------------
(* The inductive invariant behind the safety properties.                   *)

\* The pool and the main thread's place in its loops.
PoolPhase ==
  /\ main = "none" => \A k \in Xfers : xfer[k] = "NULL"
  /\ main = "submit" => \A k \in Xfers : k >= index => xfer[k] = "NULL"
  /\ main = "running" => index = 1
  /\ main \in {"cancel", "wait"} => \A k \in Xfers : k < index => xfer[k] = "NULL"
  /\ main = "wait" => xfer[index] = "valid"

\* A transfer whose callback runs is not libusb's.
HandlerOwns == handler.phase \in Handled => urb[handler.k] = "idle"

Inv == /\ TypeOK /\ PoolPhase /\ HandlerOwns
       /\ FreedUnused /\ CompletedIsOver /\ Accounted
\* A buffer with an event that event_cb has not been called for.
Unread(k) == urb[k] = "done" \/ (handler.phase = "deliver" /\ handler.k = k)

\* The events in such buffers are different ones, that came in and were not
\* handed on.
UnreadOnce ==
  /\ \A k \in Xfers : Unread(k) => buf[k] \in 1..sent /\ delivered[buf[k]] = 0
  /\ \A j, k \in Xfers : Unread(j) /\ Unread(k) /\ buf[j] = buf[k] => j = k

\* How often event_cb was called for each event; before the first device, there
\* is none.
CallsCounted ==
  /\ \A e \in Events : /\ delivered[e] <= 1
                       /\ e \in Malformed \/ e > sent => delivered[e] = 0
  /\ devices = 0 => main = "none" /\ sent = 0
  /\ devices = 1 /\ main \in {"submit", "running"} =>
       \A e \in 1..sent : e \notin Malformed =>
         delivered[e] = 1 \/ \E k \in Xfers : Unread(k) /\ buf[k] = e

EventInv == Inv /\ UnreadOnce /\ CallsCounted
=============================================================================
