------------------------ MODULE EventTransfersProofs ------------------------
(***************************************************************************)
(* Proofs about the event transfers, for a pool of any size.               *)
(***************************************************************************)
EXTENDS EventTransfers, TLAPS

USE DEF vars, poolVars, eventVars, boundVars

\* The initial state satisfies the strengthened invariant.
LEMMA InvInit == Init => Inv
BY CountAssumption, EventsAssumption
   DEF Init, Inv, TypeOK, PoolPhase, HandlerOwns, FreedUnused, CompletedIsOver,
       Accounted, MainPlaces, UrbStates, Threads, NoHandler, Handled, Xfers, Events

\* A function stays one when it is given another value.
LEMMA Update ==
  ASSUME NEW S, NEW T, NEW f \in [S -> T], NEW x \in S, NEW v \in T
  PROVE  [f EXCEPT ![x] = v] \in [S -> T]
OBVIOUS

\* Each step keeps every variable in its range.
LEMMA TypeStep == TypeOK /\ [Next]_vars => TypeOK'
<1> SUFFICES ASSUME TypeOK, [Next]_vars PROVE TypeOK'
  OBVIOUS
<1> USE CountAssumption, EventsAssumption
<1> DEFINE Completions == [who : Threads, phase : Handled \cup {"none"}, k : 0..Count]
<1>a. /\ main \in MainPlaces /\ index \in Xfers
      /\ xfer \in [Xfers -> {"NULL", "valid"}] /\ completed \in [Xfers -> {0, 1}]
      /\ urb \in [Xfers -> UrbStates] /\ buf \in [Xfers -> 0..MaxEvents]
      /\ handler \in Completions /\ (handler.phase \in Handled => handler.k \in Xfers)
      /\ sent \in 0..MaxEvents /\ delivered \in [Events -> Nat]
      /\ devices \in Nat /\ faults \in Nat
  BY DEF TypeOK
<1>b. NoHandler \in Completions /\ NoHandler.phase \notin Handled
  BY DEF NoHandler, Threads, Handled
<1>c. /\ {"idle", "flying", "done", "error", "cancelled"} = UrbStates
      /\ {"none", "submit", "running", "cancel", "wait"} = MainPlaces
  BY DEF UrbStates, MainPlaces
<1>1. ASSUME NEW k \in Xfers, SendEvent(k) PROVE TypeOK'
  <2>1. sent + 1 \in 0..MaxEvents
    BY <1>1, <1>a DEF SendEvent
  <2> QED
    BY <1>1, <1>a, <1>c, <2>1, Update DEF SendEvent, TypeOK
<1>2. ASSUME NEW k \in Xfers, FailTransfer(k) PROVE TypeOK'
  BY <1>2, <1>a, <1>c, Update DEF FailTransfer, Fault, TypeOK
<1>3. ASSUME NEW t \in Threads, NEW k \in Xfers, Reap(t, k) PROVE TypeOK'
  <2>1. urb' \in [Xfers -> UrbStates] /\ completed' \in [Xfers -> {0, 1}]
    BY <1>3, <1>a, <1>c, Update DEF Reap
  <2>2. handler' \in Completions /\ (handler'.phase \in Handled => handler'.k \in Xfers)
    BY <1>3, <1>a DEF Reap, Handled, Xfers
  <2> QED
    BY <1>3, <1>a, <2>1, <2>2 DEF Reap, TypeOK
<1>4. CASE Deliver
  <2>1. handler' \in Completions /\ handler'.k \in Xfers
    BY <1>4, <1>a DEF Deliver, Handled
  <2>2. delivered' \in [Events -> Nat]
    <3>1. \A e \in Events : [delivered EXCEPT ![e] = @ + 1] \in [Events -> Nat]
      BY <1>a
    <3>2. \A e : e \notin Events => [delivered EXCEPT ![e] = @ + 1] = delivered
      BY <1>a
    <3> QED
      BY <1>4, <1>a, <3>1, <3>2 DEF Deliver
  <2> QED
    BY <1>4, <1>a, <2>1, <2>2 DEF Deliver, TypeOK
<1>5. CASE Resubmit
  <2>1. handler.k \in Xfers /\ handler' = NoHandler
    BY <1>5, <1>a DEF Resubmit, Handled
  <2>2. urb' \in [Xfers -> UrbStates] /\ completed' \in [Xfers -> {0, 1}]
    BY <1>5, <1>a, <1>c, <2>1, Update DEF Resubmit
  <2>3. faults' \in Nat
    BY <1>5, <1>a DEF Resubmit, Fault, NoFault
  <2> QED
    BY <1>5, <1>a, <1>b, <2>1, <2>2, <2>3 DEF Resubmit, TypeOK
<1>d. ASSUME NEW here \in MainPlaces, NEW after \in MainPlaces, NextTransfer(here, after)
      PROVE  index' \in Xfers /\ main' \in MainPlaces
  BY <1>d, <1>a DEF NextTransfer, Xfers
<1>6. CASE Submit
  <2>1. index' \in Xfers /\ main' \in MainPlaces
    BY <1>6, <1>d DEF Submit, MainPlaces
  <2>2. completed' \in [Xfers -> {0, 1}]
    BY <1>6, <1>a, Update DEF Submit
  <2>3. urb' \in [Xfers -> UrbStates] /\ xfer' \in [Xfers -> {"NULL", "valid"}]
    BY <1>6, <1>a, <1>c, Update DEF Submit
  <2>4. faults' \in Nat
    BY <1>6, <1>a DEF Submit, Fault, NoFault
  <2> QED
    BY <1>6, <1>a, <2>1, <2>2, <2>3, <2>4 DEF Submit, TypeOK
<1>7. CASE Cancel
  <2>1. index' \in Xfers /\ main' \in MainPlaces
    BY <1>7, <1>a, <1>d DEF Cancel, MainPlaces
  <2>2. urb' \in [Xfers -> UrbStates]
    BY <1>7, <1>a, <1>c, Update DEF Cancel
  <2> QED
    BY <1>7, <1>a, <2>1, <2>2 DEF Cancel, TypeOK
<1>8. CASE Free
  <2>1. index' \in Xfers /\ main' \in MainPlaces
    BY <1>8, <1>d DEF Free, MainPlaces
  <2>2. xfer' \in [Xfers -> {"NULL", "valid"}] /\ buf' \in [Xfers -> 0..MaxEvents]
    BY <1>8, <1>a, Update DEF Free
  <2> QED
    BY <1>8, <1>a, <2>1, <2>2 DEF Free, TypeOK
<1>9. CASE StartDevice
  BY <1>9, <1>a, <1>c DEF StartDevice, TypeOK, Xfers
<1>10. CASE EndDevice
  BY <1>10, <1>a, <1>c DEF EndDevice, TypeOK
<1>11. CASE UNCHANGED vars
  BY <1>11, <1>a DEF TypeOK
<1> QED
  BY <1>1, <1>2, <1>3, <1>4, <1>5, <1>6, <1>7, <1>8, <1>9, <1>10, <1>11
     DEF Next, CameraNext, HandlerNext, MainStep

\* Each step keeps the strengthened invariant: a transfer is libusb's, its
\* callback's or marked completed, and its memory outlives the first two.
LEMMA InvStep == Inv /\ [Next]_vars => Inv'
<1> SUFFICES ASSUME Inv, [Next]_vars PROVE Inv'
  OBVIOUS
<1> USE CountAssumption, EventsAssumption
    DEF Inv, TypeOK, PoolPhase, HandlerOwns, FreedUnused, CompletedIsOver,
        Accounted, MainPlaces, UrbStates, Threads, NoHandler, Handled, Xfers, Events
<1>1. ASSUME NEW k \in Xfers, SendEvent(k) PROVE Inv'
  BY <1>1 DEF SendEvent
<1>2. ASSUME NEW k \in Xfers, FailTransfer(k) PROVE Inv'
  BY <1>2 DEF FailTransfer, Fault
<1>3. ASSUME NEW t \in Threads, NEW k \in Xfers, Reap(t, k) PROVE Inv'
  <2>1. TypeOK'
    BY TypeStep
  <2>2. PoolPhase'
    BY <1>3 DEF Reap
  <2>3. HandlerOwns'
    BY <1>3 DEF Reap
  <2>4. FreedUnused'
    BY <1>3 DEF Reap
  <2>5. CompletedIsOver'
    BY <1>3 DEF Reap
  <2>6. Accounted'
    BY <1>3 DEF Reap
  <2> QED
    BY <2>1, <2>2, <2>3, <2>4, <2>5, <2>6
<1>4. CASE Deliver
  <2>1. TypeOK'
    BY TypeStep
  <2>2. PoolPhase'
    BY <1>4 DEF Deliver
  <2>3. HandlerOwns'
    BY <1>4 DEF Deliver
  <2>4. FreedUnused'
    BY <1>4 DEF Deliver
  <2>5. CompletedIsOver'
    BY <1>4 DEF Deliver
  <2>6. Accounted'
    BY <1>4 DEF Deliver
  <2> QED
    BY <2>1, <2>2, <2>3, <2>4, <2>5, <2>6
<1>5. CASE Resubmit
  <2>1. TypeOK'
    BY TypeStep
  <2>2. PoolPhase'
    BY <1>5 DEF Resubmit, Fault, NoFault
  <2>3. HandlerOwns'
    BY <1>5 DEF Resubmit, Fault, NoFault
  <2>4. FreedUnused'
    BY <1>5 DEF Resubmit, Fault, NoFault
  <2>5. CompletedIsOver'
    <3>1. handler.k \in Xfers /\ urb[handler.k] = "idle"
          /\ completed[handler.k] # 1 /\ handler'.phase \notin Handled
      BY <1>5 DEF Resubmit
    <3>2. CASE urb' = [urb EXCEPT ![handler.k] = "flying"] /\ UNCHANGED completed
      BY <3>1, <3>2
    <3>3. CASE completed' = [completed EXCEPT ![handler.k] = 1] /\ UNCHANGED urb
      BY <3>1, <3>3
    <3> QED
      BY <1>5, <3>2, <3>3 DEF Resubmit
  <2>6. Accounted'
    <3>1. handler.k \in Xfers
      BY <1>5 DEF Resubmit
    <3>2. CASE urb' = [urb EXCEPT ![handler.k] = "flying"] /\ UNCHANGED completed
      BY <1>5, <3>1, <3>2 DEF Resubmit
    <3>3. CASE completed' = [completed EXCEPT ![handler.k] = 1] /\ UNCHANGED urb
      BY <1>5, <3>1, <3>3 DEF Resubmit
    <3> QED
      BY <1>5, <3>2, <3>3 DEF Resubmit
  <2> QED
    BY <2>1, <2>2, <2>3, <2>4, <2>5, <2>6
<1>6. CASE Submit
  <2>1. TypeOK'
    BY TypeStep
  <2>2. PoolPhase'
    BY <1>6 DEF Submit, Fault, NoFault, NextTransfer
  <2>3. HandlerOwns'
    BY <1>6 DEF Submit, Fault, NoFault, NextTransfer
  <2>4. FreedUnused'
    BY <1>6 DEF Submit, Fault, NoFault, NextTransfer
  <2>5. CompletedIsOver'
    BY <1>6 DEF Submit, Fault, NoFault, NextTransfer
  <2>6. Accounted'
    BY <1>6 DEF Submit, Fault, NoFault, NextTransfer
  <2> QED
    BY <2>1, <2>2, <2>3, <2>4, <2>5, <2>6
<1>7. CASE Cancel
  <2>1. TypeOK'
    BY TypeStep
  <2>2. PoolPhase'
    BY <1>7 DEF Cancel, NextTransfer
  <2>3. HandlerOwns'
    BY <1>7 DEF Cancel, NextTransfer
  <2>4. FreedUnused'
    BY <1>7 DEF Cancel, NextTransfer
  <2>5. CompletedIsOver'
    BY <1>7 DEF Cancel, NextTransfer
  <2>6. Accounted'
    BY <1>7 DEF Cancel, NextTransfer
  <2> QED
    BY <2>1, <2>2, <2>3, <2>4, <2>5, <2>6
<1>8. CASE Free
  <2>1. TypeOK'
    BY TypeStep
  <2>2. PoolPhase'
    BY <1>8 DEF Free, NextTransfer
  <2>3. HandlerOwns'
    BY <1>8 DEF Free, NextTransfer
  <2>4. FreedUnused'
    BY <1>8 DEF Free, NextTransfer
  <2>5. CompletedIsOver'
    BY <1>8 DEF Free, NextTransfer
  <2>6. Accounted'
    BY <1>8 DEF Free, NextTransfer
  <2> QED
    BY <2>1, <2>2, <2>3, <2>4, <2>5, <2>6
<1>9. CASE StartDevice
  BY <1>9 DEF StartDevice
<1>10. CASE EndDevice
  BY <1>10 DEF EndDevice
<1>11. CASE UNCHANGED vars
  BY <1>11
<1> HIDE DEF Inv, TypeOK, PoolPhase, HandlerOwns, FreedUnused, CompletedIsOver,
             Accounted
<1> QED
  BY <1>1, <1>2, <1>3, <1>4, <1>5, <1>6, <1>7, <1>8, <1>9, <1>10, <1>11
     DEF Next, CameraNext, HandlerNext, MainStep

\* The strengthened invariant holds in every state of every execution.
THEOREM InvHolds == Spec => []Inv
BY InvInit, InvStep, PTL DEF Spec

\* The variables keep their types.
THEOREM TypeCorrect == Spec => []TypeOK
<1>1. Inv => TypeOK
  BY DEF Inv
<1> QED
  BY <1>1, InvHolds, PTL

\* No transfer is freed while libusb has it or its callback runs, whichever
\* threads handle events while the pool is taken down.
THEOREM FreedUnusedHolds == Spec => []FreedUnused
<1>1. Inv => FreedUnused
  BY DEF Inv
<1> QED
  BY <1>1, InvHolds, PTL

\* `completed` is set only when libusb and the callback are done with a transfer.
THEOREM CompletedIsOverHolds == Spec => []CompletedIsOver
<1>1. Inv => CompletedIsOver
  BY DEF Inv
<1> QED
  BY <1>1, InvHolds, PTL

\* A transfer that is freed or marked is nobody's: neither thread can meet it.
THEOREM UnusedWhenDoneHolds == Spec => []UnusedWhenDone
BY FreedUnusedHolds, CompletedIsOverHolds, PTL DEF UnusedWhenDone

\* No transfer is lost: one that is neither libusb's nor its callback's is marked.
THEOREM AccountedHolds == Spec => []Accounted
<1>1. Inv => Accounted
  BY DEF Inv
<1> QED
  BY <1>1, InvHolds, PTL
-----------------------------------------------------------------------------
(* Each event is handed on once.                                           *)

\* Before the first device there is no event.
LEMMA EventInit == Init => EventInv
<1> SUFFICES ASSUME Init PROVE EventInv
  OBVIOUS
<1>1. Inv
  BY InvInit
<1> QED
  BY <1>1 DEF Init, EventInv, UnreadOnce, CallsCounted, Unread, NoHandler

\* Steps that neither fill or read a buffer nor start or end a device.
LEMMA EventQuiet ==
  ASSUME EventInv, TypeOK',
         UNCHANGED <<sent, delivered, devices>>,
         \A k \in Xfers : Unread(k)' <=> Unread(k),
         \A k \in Xfers : Unread(k) => buf'[k] = buf[k],
         main' \in {"submit", "running"} => main \in {"submit", "running"},
         devices = 0 => main' = "none"
  PROVE  UnreadOnce' /\ CallsCounted'
<1>1. UnreadOnce'
  BY DEF EventInv, UnreadOnce
<1>2. CallsCounted'
  BY DEF EventInv, CallsCounted
<1> QED
  BY <1>1, <1>2

\* Each step keeps the events apart.
LEMMA EventStep == EventInv /\ [Next]_vars => EventInv'
<1> SUFFICES ASSUME EventInv, [Next]_vars PROVE EventInv'
  OBVIOUS
<1>a. Inv /\ Inv' /\ TypeOK /\ TypeOK'
  BY InvStep DEF EventInv, Inv
<1>b. /\ sent \in 0..MaxEvents /\ MaxEvents \in Nat /\ devices \in Nat
      /\ delivered \in [Events -> Nat] /\ buf \in [Xfers -> 0..MaxEvents]
      /\ urb \in [Xfers -> UrbStates]
      /\ handler.phase \in Handled => handler.k \in Xfers
  BY <1>a, EventsAssumption DEF TypeOK
<1>c. UnreadOnce /\ CallsCounted
  BY DEF EventInv
<1> SUFFICES UnreadOnce' /\ CallsCounted'
  BY <1>a DEF EventInv
<1>1. ASSUME NEW k \in Xfers, SendEvent(k) PROVE UnreadOnce' /\ CallsCounted'
  <2>1. ~Unread(k)
    BY <1>1, <1>a DEF SendEvent, Unread, Inv, HandlerOwns, Handled
  <2>2. /\ Unread(k)' /\ \A j \in Xfers : j # k => (Unread(j)' <=> Unread(j))
        /\ \A j \in Xfers : j # k => buf'[j] = buf[j]
        /\ buf'[k] = sent + 1 /\ sent' = sent + 1 /\ sent + 1 \in Events
        /\ UNCHANGED <<delivered, main, devices>>
    BY <1>1, <1>b DEF SendEvent, Unread, Events
  <2>3. \A j \in Xfers : Unread(j) => buf[j] # sent + 1
    BY <1>b, <1>c DEF UnreadOnce
  <2>4. UnreadOnce'
    <3>1. delivered[sent + 1] = 0
      BY <1>b, <1>c, <2>2 DEF CallsCounted
    <3> QED
      BY <1>b, <1>c, <2>2, <2>3, <3>1 DEF UnreadOnce
  <2>5. CallsCounted'
    <3>1. \A e \in 1..sent' : e \in 1..sent \/ e = sent + 1
      BY <1>b, <2>2
    <3>2. \A j \in Xfers : Unread(j) => Unread(j)' /\ buf'[j] = buf[j]
      BY <2>1, <2>2
    <3>3. devices # 0
      BY <1>1, <1>a, <1>c DEF SendEvent, CallsCounted, Inv, PoolPhase, FreedUnused
    <3>4. \A e \in Events : /\ delivered'[e] <= 1
                            /\ e \in Malformed \/ e > sent' => delivered'[e] = 0
      BY <1>b, <1>c, <2>2 DEF CallsCounted, Events
    <3>5. ASSUME devices = 1, main \in {"submit", "running"}, NEW e \in 1..sent',
                 e \notin Malformed
          PROVE  delivered'[e] = 1 \/ \E j \in Xfers : Unread(j)' /\ buf'[j] = e
      <4>1. CASE e \in 1..sent
        BY <1>c, <2>2, <3>2, <3>5, <4>1 DEF CallsCounted
      <4>2. CASE e = sent + 1
        BY <2>2, <4>2
      <4> QED
        BY <3>1, <4>1, <4>2
    <3> QED
      BY <2>2, <3>3, <3>4, <3>5 DEF CallsCounted
  <2> QED
    BY <2>4, <2>5
<1>2. ASSUME NEW k \in Xfers, FailTransfer(k) PROVE UnreadOnce' /\ CallsCounted'
  <2>1. \A j \in Xfers : Unread(j)' <=> Unread(j)
    BY <1>2, <1>b DEF FailTransfer, Unread
  <2> QED
    BY <1>2, <1>a, <1>c, <2>1, EventQuiet DEF FailTransfer, CallsCounted
<1>3. ASSUME NEW t \in Threads, NEW k \in Xfers, Reap(t, k)
      PROVE  UnreadOnce' /\ CallsCounted'
  <2>1. \A j \in Xfers : Unread(j)' <=> Unread(j)
    BY <1>3, <1>b DEF Reap, Unread, NoHandler
  <2> QED
    BY <1>3, <1>a, <1>c, <2>1, EventQuiet DEF Reap, CallsCounted
<1>4. CASE Deliver
  <2>1. PICK k \in Xfers : k = handler.k /\ Unread(k) /\ urb[k] = "idle"
    BY <1>4, <1>a, <1>b DEF Deliver, Unread, Handled, Inv, HandlerOwns
  <2> PICK e \in Nat : e = buf[k]
    BY <1>b, <2>1
  <2>2. e \in 1..sent /\ e \in Events /\ delivered[e] = 0
        /\ \A j \in Xfers : Unread(j) /\ j # k => buf[j] # e
    BY <1>b, <1>c, <2>1 DEF UnreadOnce, Events
  <2>3. /\ ~Unread(k)' /\ \A j \in Xfers : j # k => (Unread(j)' <=> Unread(j))
        /\ UNCHANGED <<main, buf, sent, devices>>
    BY <1>4, <1>a, <2>1 DEF Deliver, Unread, TypeOK
  <2>4. /\ \A f \in Events : f # e => delivered'[f] = delivered[f]
        /\ delivered'[e] = IF e \in Malformed THEN 0 ELSE 1
    BY <1>4, <1>b, <2>1, <2>2 DEF Deliver
  <2>5. 1..sent \subseteq Events
    BY <1>b DEF Events
  <2>6. UnreadOnce'
    <3>1. \A j \in Xfers : Unread(j)' => j # k /\ Unread(j)
      BY <2>3
    <3>2. \A j \in Xfers : Unread(j)' => buf[j] \in 1..sent /\ buf[j] # e
      BY <1>c, <2>2, <3>1 DEF UnreadOnce
    <3>3. \A j \in Xfers : Unread(j)' => delivered'[buf[j]] = 0
      BY <1>c, <2>4, <2>5, <3>1, <3>2 DEF UnreadOnce
    <3> QED
      BY <1>c, <2>3, <3>1, <3>2, <3>3 DEF UnreadOnce
  <2>7. CallsCounted'
    <3>1. \A j \in Xfers : Unread(j) /\ buf[j] # e => Unread(j)' /\ buf'[j] = buf[j]
      BY <2>2, <2>3
    <3>2. ASSUME NEW f \in Events
          PROVE  /\ delivered'[f] <= 1
                 /\ f \in Malformed \/ f > sent => delivered'[f] = 0
      <4>1. CASE f = e
        BY <1>b, <2>2, <2>4, <4>1
      <4>2. CASE f # e
        BY <1>c, <2>4, <4>2 DEF CallsCounted
      <4> QED
        BY <4>1, <4>2
    <3>3. ASSUME devices = 1, main \in {"submit", "running"}, NEW f \in 1..sent,
                 f \notin Malformed
          PROVE  delivered'[f] = 1 \/ \E j \in Xfers : Unread(j)' /\ buf'[j] = f
      <4>1. CASE f = e
        BY <2>4, <3>3, <4>1
      <4>2. CASE f # e
        BY <1>c, <2>4, <2>5, <3>1, <3>3, <4>2 DEF CallsCounted
      <4> QED
        BY <4>1, <4>2
    <3> QED
      BY <1>c, <2>3, <3>2, <3>3 DEF CallsCounted
  <2> QED
    BY <2>6, <2>7
<1>5. CASE Resubmit
  <2>1. \A j \in Xfers : Unread(j)' <=> Unread(j)
    BY <1>5, <1>a, <1>b DEF Resubmit, Unread, NoHandler, Handled, Inv, HandlerOwns
  <2> QED
    BY <1>5, <1>a, <1>c, <2>1, EventQuiet DEF Resubmit, CallsCounted
<1>6. CASE Submit
  <2>1. \A j \in Xfers : Unread(j)' <=> Unread(j)
    <3>1. index \in Xfers /\ urb[index] = "idle" /\ xfer[index] = "NULL"
      BY <1>6, <1>a DEF Submit, Inv, TypeOK, PoolPhase, FreedUnused, Xfers
    <3>2. urb' = urb \/ urb' = [urb EXCEPT ![index] = "flying"]
      BY <1>6 DEF Submit
    <3> QED
      BY <1>6, <1>b, <3>1, <3>2 DEF Submit, Unread
  <2> QED
    BY <1>6, <1>a, <1>c, <2>1, EventQuiet DEF Submit, CallsCounted
<1>7. CASE Cancel
  <2>1. \A j \in Xfers : Unread(j)' => Unread(j)
    BY <1>7, <1>a, <1>b DEF Cancel, Unread, TypeOK
  <2>2. UNCHANGED <<buf, sent, delivered, devices>> /\ main' \notin {"submit", "running"}
        /\ devices # 0
    BY <1>7, <1>c DEF Cancel, NextTransfer, CallsCounted
  <2> QED
    BY <1>c, <2>1, <2>2 DEF UnreadOnce, CallsCounted
<1>8. CASE Free
  <2>1. ~Unread(index)
    BY <1>8, <1>a DEF Free, Unread, Inv, CompletedIsOver, TypeOK, Handled
  <2>2. \A j \in Xfers : Unread(j)' <=> Unread(j)
    BY <1>8 DEF Free, Unread
  <2>3. \A j \in Xfers : Unread(j) => buf'[j] = buf[j]
    BY <1>8, <1>a, <2>1 DEF Free, TypeOK
  <2>4. main' \notin {"submit", "running"} /\ devices # 0
    BY <1>8, <1>c DEF Free, NextTransfer, CallsCounted
  <2> QED
    BY <1>8, <1>a, <2>2, <2>3, <2>4, EventQuiet DEF Free
<1>9. CASE StartDevice
  <2>1. \A j \in Xfers : Unread(j)' <=> Unread(j)
    BY <1>9 DEF StartDevice, Unread
  <2>2. UNCHANGED <<buf, sent, delivered>> /\ devices' = devices + 1 /\ devices' # 0
    BY <1>9, <1>b DEF StartDevice
  <2>3. devices' = 1 => sent = 0 /\ 1..sent = {}
    BY <1>b, <1>c, <2>2 DEF CallsCounted
  <2> QED
    BY <1>c, <2>1, <2>2, <2>3 DEF UnreadOnce, CallsCounted
<1>10. CASE EndDevice
  <2>1. \A j \in Xfers : Unread(j)' <=> Unread(j)
    BY <1>10 DEF EndDevice, Unread
  <2> QED
    BY <1>10, <1>a, <1>c, <2>1, EventQuiet DEF EndDevice, CallsCounted
<1>11. CASE UNCHANGED vars
  <2>1. \A j \in Xfers : Unread(j)' <=> Unread(j)
    BY <1>11 DEF Unread
  <2> QED
    BY <1>11, <1>a, <1>c, <2>1, EventQuiet DEF CallsCounted
<1> QED
  BY <1>1, <1>2, <1>3, <1>4, <1>5, <1>6, <1>7, <1>8, <1>9, <1>10, <1>11
     DEF Next, CameraNext, HandlerNext, MainStep

\* event_cb is called once for each event that is one, whichever thread handles
\* the completions: only the taking down of the pool loses any.
THEOREM DeliveredOnceHolds == Spec => []DeliveredOnce
<1>1. EventInv => DeliveredOnce
  <2> SUFFICES ASSUME EventInv, NEW e \in 1..sent
               PROVE  /\ delivered[e] <= IF e \in Malformed \/ Waiting(e) THEN 0 ELSE 1
                      /\ devices = 1 /\ main \in {"submit", "running"} /\ e \notin Malformed =>
                           delivered[e] = 1 \/ Waiting(e)
    BY DEF DeliveredOnce
  <2>1. e \in Events /\ delivered[e] \in Nat
    BY EventsAssumption DEF EventInv, Inv, TypeOK, Events
  <2>2. Waiting(e) <=> \E k \in Xfers : Unread(k) /\ buf[k] = e
    BY DEF EventInv, Inv, TypeOK, Waiting, Unread, Handled
  <2>3. Waiting(e) => delivered[e] = 0
    BY <2>2 DEF EventInv, UnreadOnce
  <2>4. delivered[e] <= 1 /\ (e \in Malformed => delivered[e] = 0)
    BY <2>1 DEF EventInv, CallsCounted
  <2> QED
    BY <2>1, <2>2, <2>3, <2>4 DEF EventInv, CallsCounted
<1> QED
  BY <1>1, EventInit, EventStep, PTL DEF Spec
=============================================================================
