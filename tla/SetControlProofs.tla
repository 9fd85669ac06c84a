-------------------------- MODULE SetControlProofs --------------------------
(***************************************************************************)
(* Proofs about ptp_sony_set_control_prop for the properties that are      *)
(* numbers, on any ascending scale, for any targets and any disturbance.   *)
(***************************************************************************)
EXTENDS SetControl, TLAPS

USE DEF vars, cameraVars, loopVars

\* What comparing numbers tells.
LEMMA CompareFacts ==
  ASSUME Ascending, NEW a \in Int, NEW b \in Int
  PROVE  /\ Compare(a, b) \in {-1, 0, 1}
         /\ Compare(a, b) = 0 <=> a = b
         /\ Compare(a, b) = 1 <=> a > b
         /\ Compare(a, b) = -1 <=> a < b
BY DEF Ascending, Compare, CompareNumbers

\* The scale holds numbers, and a greater position a greater one.
LEMMA ScaleFacts ==
  ASSUME Ascending
  PROVE  /\ Len(Scale) \in Nat
         /\ \A k \in Positions : Scale[k] \in Int /\ k \in Int
         /\ \A j, k \in Positions : Scale[j] < Scale[k] <=> j < k
         /\ \A j, k \in Positions : Scale[j] = Scale[k] <=> j = k
<1>1. Len(Scale) \in Nat
  BY DEF Ascending
<1>2. \A k \in Positions : Scale[k] \in Int /\ k \in Int
  BY <1>1 DEF Ascending, Positions
<1>3. \A j, k \in Positions : j < k => Scale[j] < Scale[k]
  BY DEF Ascending
<1>4. \A j, k \in Positions : j < k \/ j = k \/ k < j
  BY <1>2
<1> QED
  BY <1>1, <1>2, <1>3, <1>4

\* A number between two neighbours of the scale is not on it.
LEMMA BetweenNeighbours ==
  ASSUME Ascending, NEW v \in Int, NEW j \in Positions, j + 1 \in Positions,
         Scale[j] < v, v < Scale[j + 1]
  PROVE  v \notin OnScale
<1> SUFFICES ASSUME NEW k \in Positions, v = Scale[k] PROVE FALSE
  BY DEF OnScale, Positions
<1>1. j < k /\ k < j + 1
  BY ScaleFacts
<1> QED
  BY <1>1, ScaleFacts

\* A number beyond an end of the scale is not on it.
LEMMA BeyondEnds ==
  ASSUME Ascending, NEW v \in Int, NEW j \in Positions,
         \/ v < Scale[j] /\ j - 1 \notin Positions
         \/ v > Scale[j] /\ j + 1 \notin Positions
  PROVE  v \notin OnScale
<1> SUFFICES ASSUME NEW k \in Positions, v = Scale[k] PROVE FALSE
  BY DEF OnScale, Positions
<1>1. CASE v < Scale[j] /\ j - 1 \notin Positions
  <2>1. k < j
    BY <1>1, ScaleFacts
  <2> QED
    BY <1>1, <2>1, ScaleFacts DEF Positions
<1>2. CASE v > Scale[j] /\ j + 1 \notin Positions
  <2>1. j < k
    BY <1>2, ScaleFacts
  <2> QED
    BY <1>2, <2>1, ScaleFacts DEF Positions
<1> QED
  BY <1>1, <1>2

\* Taking the first step off leaves steps.
LEMMA TakeStep ==
  ASSUME NEW q \in Seq(Steps), q # <<>>
  PROVE  /\ Head(q) \in Steps /\ Tail(q) \in Seq(Steps)
         /\ \A d : q = <<d>> => Head(q) = d /\ Tail(q) = <<>>
<1>1. Head(q) \in Steps /\ Tail(q) \in Seq(Steps)
  OBVIOUS
<1>2. \A d : Head(<<d>>) = d /\ Tail(<<d>>) = <<>>
  OBVIOUS
<1> QED
  BY <1>1, <1>2

\* A step stays on the scale.
LEMMA MovedFacts ==
  ASSUME pos \in Positions, NEW d \in Steps
  PROVE  /\ Moved(d) \in Positions
         /\ pos + d \in Positions => Moved(d) = pos + d
         /\ pos + d \notin Positions => Moved(d) = pos
BY DEF Moved, Positions

\* The initial states satisfy the invariant.
LEMMA InvInit == Init => Inv
BY DEF Init, Inv, Types, CallInv, GotValue, NoSuchValue, Undisturbed, Positions, Places

\* What Read finds and Adjust asks for.
LEMMA Direction ==
  ASSUME Ascending, Types
  PROVE  /\ Current \in Int /\ target \in Int /\ Compare(Current, target) \in {-1, 0, 1}
         /\ place = "adjust" => -prev_comp \in Steps
<1>1. Current \in Int /\ target \in Int
  BY ScaleFacts DEF Types, Current, Ascending
<1> QED
  BY <1>1, CompareFacts DEF Types, Steps

\* What is known of the value read last.
LEMMA ReadFacts ==
  ASSUME Ascending, target \in Int, NEW p \in Positions, ReadAt(p)
  PROVE  \/ prev_comp = 1 /\ Scale[p] > target
         \/ prev_comp = -1 /\ Scale[p] < target
<1>1. Scale[p] \in Int
  BY ScaleFacts
<1>2. /\ Compare(Scale[p], target) \in {-1, 0, 1}
      /\ Compare(Scale[p], target) = 1 <=> Scale[p] > target
      /\ Compare(Scale[p], target) = -1 <=> Scale[p] < target
  BY <1>1, CompareFacts
<1>3. Compare(Scale[p], target) = prev_comp /\ prev_comp # 0
  BY DEF ReadAt
<1>4. prev_comp = 1 \/ prev_comp = -1
  BY <1>2, <1>3
<1> QED
  BY <1>2, <1>3, <1>4

\* Each step of the camera and of the function keeps the ranges.
LEMMA TypesStep == Ascending /\ Types /\ [Next]_vars => Types'
<1> SUFFICES ASSUME Ascending, Types, [Next]_vars PROVE Types'
  OBVIOUS
<1>1. CASE CarryOut
  BY <1>1, TakeStep, MovedFacts DEF CarryOut, Types
<1>2. ASSUME NEW d \in Steps, Dial(d) PROVE Types'
  BY <1>2, MovedFacts DEF Dial, Types
<1>3. ASSUME NEW v \in Targets, Begin(v) PROVE Types'
  BY <1>3 DEF Begin, Types, Places
<1>4. CASE Read
  BY <1>4, Direction DEF Read, Return, Types, Places, Steps
<1>5. CASE Adjust
  <2>1. Append(asked, -prev_comp) \in Seq(Steps)
    BY <1>5, Direction DEF Adjust, Types
  <2>2. asked' \in Seq(Steps)
    BY <1>5, <2>1 DEF Adjust, Types
  <2> QED
    BY <1>5, <2>2 DEF Adjust, Return, Types, Places
<1>6. CASE Poll
  BY <1>6 DEF Poll, Return, Types, Places
<1>7. CASE UNCHANGED vars
  BY <1>7 DEF Types
<1> QED
  BY <1>1, <1>2, <1>3, <1>4, <1>5, <1>6, <1>7 DEF Next, HostStep, Finished

\* Each step keeps the camera where an undisturbed call expects it, and an
\* undisturbed call ends with a true result.
LEMMA CallStep ==
  Ascending /\ Inv /\ [Next]_vars => CallInv' /\ GotValue' /\ NoSuchValue'
<1> SUFFICES ASSUME Ascending, Inv, [Next]_vars
             PROVE  CallInv' /\ GotValue' /\ NoSuchValue'
  OBVIOUS
<1> USE DEF Inv
<1>0. Types'
  BY TypesStep
<1>1. CASE CarryOut
  <2> SUFFICES ASSUME disturbed = 0
               PROVE  CallInv' /\ GotValue' /\ NoSuchValue'
    BY <1>1 DEF CarryOut, CallInv, GotValue, NoSuchValue, Undisturbed
  <2>1. asked # <<>> /\ asked \in Seq(Steps) /\ place' = place /\ target' = target
        /\ prev' = prev /\ prev_comp' = prev_comp /\ result' = result
    BY <1>1 DEF CarryOut, Types
  <2>2. CASE place = "poll"
    <3>1. PICK p \in Positions : ReadAt(p) /\ SteppedFrom(p)
      BY <2>2 DEF CallInv
    <3>2. asked = <<-prev_comp>> /\ pos = p
      BY <2>1, <3>1 DEF SteppedFrom
    <3>3. asked' = <<>> /\ pos' = Moved(-prev_comp) /\ -prev_comp \in Steps
      BY <1>1, <2>1, <3>2, TakeStep DEF CarryOut
    <3>4. prev_comp \in Int
      BY <3>1, ScaleFacts, CompareFacts DEF ReadAt, Types, Ascending
    <3>5. p + -prev_comp = p - prev_comp
      BY <3>4, ScaleFacts
    <3>6. \/ pos' = p - prev_comp
          \/ pos' = p /\ p - prev_comp \notin Positions
      BY <3>2, <3>3, <3>5, MovedFacts
    <3>7. ReadAt(p)' /\ SteppedFrom(p)'
      BY <2>1, <3>1, <3>3, <3>6 DEF ReadAt, SteppedFrom
    <3> QED
      BY <2>1, <2>2, <3>7 DEF CallInv, GotValue, NoSuchValue, Undisturbed
  <2>3. CASE place = "idle"
    BY <2>1, <2>3 DEF CallInv, GotValue, NoSuchValue, Undisturbed
  <2>4. place \notin {"read", "adjust"}
    BY <2>1 DEF CallInv
  <2> QED
    BY <2>2, <2>3, <2>4 DEF Types, Places
<1>2. ASSUME NEW d \in Steps, Dial(d) PROVE CallInv' /\ GotValue' /\ NoSuchValue'
  BY <1>2 DEF Dial, CallInv, GotValue, NoSuchValue, Undisturbed
<1>3. ASSUME NEW v \in Targets, Begin(v) PROVE CallInv' /\ GotValue' /\ NoSuchValue'
  BY <1>3 DEF Begin, CallInv, GotValue, NoSuchValue, Undisturbed
<1>4. CASE Read
  <2> SUFFICES ASSUME disturbed = 0
               PROVE  CallInv' /\ GotValue' /\ NoSuchValue'
    BY <1>4 DEF Read, Return, CallInv, GotValue, NoSuchValue, Undisturbed
  <2> DEFINE c == Compare(Current, target)
  <2>1. asked = <<>> /\ UNCHANGED <<pos, asked, disturbed, target, first_iter>>
    BY <1>4 DEF Read, CallInv
  <2>2. Current \in Int /\ target \in Int /\ pos \in Positions
    BY Direction DEF Types
  <2>3. CASE place' = "idle" /\ result' = "OK" /\ c = 0
    <3>1. Current = target
      BY <2>2, <2>3, CompareFacts
    <3> QED
      BY <2>1, <2>3, <3>1 DEF CallInv, GotValue, NoSuchValue, Undisturbed, Current
  <2>4. CASE /\ place' = "idle" /\ result' = "PASSED"
             /\ c # 0 /\ first_iter = 0 /\ c # prev_comp
    <3>1. PICK p \in Positions : ReadAt(p) /\ pos = p - prev_comp
      BY <1>4, <2>4 DEF Read, CallInv
    <3>2. Scale[p] \in Int /\ p \in Int
      BY ScaleFacts
    <3>3. target \notin OnScale
      <4>1. CASE prev_comp = 1
        <5>1. Scale[p] > target /\ pos = p - 1 /\ pos + 1 = p
          BY <2>2, <3>1, <3>2, <4>1, ReadFacts
        <5>2. Current < target
          BY <2>2, <2>4, <4>1, CompareFacts
        <5> QED
          BY <2>2, <5>1, <5>2, BetweenNeighbours DEF Current
      <4>2. CASE prev_comp = -1
        <5>1. Scale[p] < target /\ pos = p + 1
          BY <2>2, <3>1, <3>2, <4>2, ReadFacts
        <5>2. Current > target
          BY <2>2, <2>4, <4>2, CompareFacts
        <5> QED
          BY <2>2, <5>1, <5>2, BetweenNeighbours DEF Current
      <4> QED
        BY <2>2, <3>1, <4>1, <4>2, ReadFacts
    <3> QED
      BY <2>1, <2>4, <3>3 DEF CallInv, GotValue, NoSuchValue, Undisturbed, OnScale
  <2>5. CASE place' = "adjust" /\ c # 0 /\ prev' = Current /\ prev_comp' = c
    <3>1. ReadAt(pos)' /\ asked' = <<>>
      BY <2>1, <2>5 DEF ReadAt, Current
    <3> QED
      BY <2>1, <2>5, <3>1 DEF CallInv, GotValue, NoSuchValue, Undisturbed
  <2>6. CASE place' = "idle" /\ result' = "NOT_FOUND"
    BY <2>6 DEF CallInv, GotValue, NoSuchValue, Undisturbed
  <2> QED
    BY <1>4, <2>3, <2>4, <2>5, <2>6 DEF Read, Return
<1>5. CASE Adjust
  <2>1. CASE place' = "idle"
    BY <1>5, <2>1 DEF Adjust, Return, CallInv, GotValue, NoSuchValue, Undisturbed
  <2>2. CASE place' = "poll" /\ disturbed = 0
    <3>1. ReadAt(pos) /\ asked = <<>> /\ pos \in Positions
      BY <1>5, <2>2 DEF Adjust, CallInv, Types
    <3>2. asked' = <<-prev_comp>>
      BY <1>5, <2>2, <3>1 DEF Adjust, Return
    <3>3. ReadAt(pos)' /\ SteppedFrom(pos)'
      BY <1>5, <3>1, <3>2 DEF Adjust, ReadAt, SteppedFrom
    <3>4. pos' = pos
      BY <1>5 DEF Adjust
    <3> QED
      BY <2>2, <3>1, <3>3, <3>4 DEF CallInv, GotValue, NoSuchValue, Undisturbed, ReadAt, SteppedFrom
  <2> QED
    BY <1>5, <2>1, <2>2 DEF Adjust, Return, CallInv, GotValue, NoSuchValue, Undisturbed, Types
<1>6. CASE Poll
  <2> SUFFICES ASSUME disturbed = 0, disturbed' = 0
               PROVE  CallInv' /\ GotValue' /\ NoSuchValue'
    BY <1>0, <1>6 DEF Poll, Return, CallInv, GotValue, NoSuchValue, Undisturbed, Types
  <2>1. PICK p \in Positions : ReadAt(p) /\ SteppedFrom(p)
    BY <1>6 DEF Poll, CallInv
  <2>2. UNCHANGED <<pos, asked, target, prev, prev_comp>>
    BY <1>6 DEF Poll
  <2>3. /\ pos \in Positions /\ pos \in Int /\ Current \in Int /\ target \in Int
        /\ Scale[p] \in Int /\ p \in Int
    BY Direction, ScaleFacts DEF Types
  <2>4. \/ prev_comp = 1 /\ Scale[p] > target
        \/ prev_comp = -1 /\ Scale[p] < target
    BY <2>1, <2>3, ReadFacts
  <2>5. Compare(prev, Current) = 0 <=> pos = p
    <3>1. Compare(prev, Current) = 0 <=> Scale[p] = Scale[pos]
      BY <2>1, <2>3, CompareFacts DEF ReadAt, Current
    <3> QED
      BY <2>3, <3>1, ScaleFacts
  <2>6. CASE place' = "read" /\ first_iter' = 0 /\ Compare(prev, Current) # 0
    <3>1. asked = <<>> /\ pos = p - prev_comp
      BY <2>1, <2>5, <2>6 DEF SteppedFrom
    <3>2. ReadAt(p)' /\ asked' = <<>> /\ pos' = p - prev_comp'
      BY <2>1, <2>2, <3>1 DEF ReadAt
    <3> QED
      BY <2>6, <3>2 DEF CallInv, GotValue, NoSuchValue, Undisturbed
  <2>7. CASE /\ place' = "idle" /\ result' = "TIMEOUT"
             /\ Compare(prev, Current) = 0 /\ asked = <<>>
    <3>1. p - prev_comp \notin Positions
      BY <2>1, <2>3, <2>4, <2>5, <2>7 DEF SteppedFrom
    <3>2. target \notin OnScale
      <4>1. CASE prev_comp = 1 /\ Scale[p] > target
        BY <2>3, <3>1, <4>1, BeyondEnds
      <4>2. CASE prev_comp = -1 /\ Scale[p] < target
        <5>1. p - prev_comp = p + 1
          BY <2>3, <4>2
        <5> QED
          BY <2>3, <3>1, <4>2, <5>1, BeyondEnds
      <4> QED
        BY <2>4, <4>1, <4>2
    <3> QED
      BY <2>2, <2>7, <3>2 DEF CallInv, GotValue, NoSuchValue, Undisturbed, OnScale
  <2>8. CASE place' = "idle" /\ result' = "NOT_FOUND"
    BY <2>8 DEF CallInv, GotValue, NoSuchValue, Undisturbed
  <2> QED
    BY <1>6, <2>6, <2>7, <2>8 DEF Poll, Return
<1>7. CASE UNCHANGED vars
  BY <1>7 DEF CallInv, GotValue, NoSuchValue, Undisturbed, ReadAt, SteppedFrom, Current
<1> QED
  BY <1>1, <1>2, <1>3, <1>4, <1>5, <1>6, <1>7 DEF Next, HostStep, Finished

-----------------------------------------------------------------------------
(* The theorems.                                                           *)

\* On an ascending scale of numbers the invariant holds in every state of every
\* execution.
THEOREM InvHolds == ASSUME Ascending PROVE Spec => []Inv
<1>1. Inv /\ [Next]_vars => Inv'
  BY TypesStep, CallStep DEF Inv
<1> QED
  BY <1>1, InvInit, PTL DEF Spec

\* ptp_sony_set_control_prop returns PTP_OK only with the camera at the value and
\* no step under way, unless somebody interfered.
THEOREM GotValueHolds == ASSUME Ascending PROVE Spec => []GotValue
<1>1. Inv => GotValue
  BY DEF Inv
<1> QED
  BY <1>1, InvHolds, PTL

\* ptp_sony_set_control_prop calls a value unavailable only when the camera does
\* not offer it, unless somebody interfered.
THEOREM NoSuchValueHolds == ASSUME Ascending PROVE Spec => []NoSuchValue
<1>1. Inv => NoSuchValue
  BY DEF Inv
<1> QED
  BY <1>1, InvHolds, PTL
-----------------------------------------------------------------------------
(* Types, and how many steps can be under way: for every scale and kind.    *)

\* A value compares to itself as equal, and to any as less, equal or greater.
LEMMA CompareRange ==
  /\ \A a, b : Compare(a, b) \in {-1, 0, 1}
  /\ \A a : Compare(a, a) = 0
BY DEF Compare, CompareNumbers, CompareSpeeds

\* Wherever it moves to, the camera shows a value of the scale.
LEMMA OnTheScale ==
  ASSUME pos \in 1..Len(Scale)
  PROVE  Current \in OnScale /\ \A d : Moved(d) \in 1..Len(Scale)
BY DEF Current, OnScale, Moved

\* How long the list of steps gets.
LEMMA StepCount ==
  ASSUME NEW q \in Seq(Steps)
  PROVE  /\ Len(q) \in Nat
         /\ \A d \in Steps : Append(q, d) \in Seq(Steps) /\ Len(Append(q, d)) = Len(q) + 1
         /\ q # <<>> => Tail(q) \in Seq(Steps) /\ Len(Tail(q)) = Len(q) - 1
OBVIOUS

\* Initially no step is under way.
LEMMA TypeInit == Init => TypeInv
<1> SUFFICES ASSUME Init PROVE TypeInv
  OBVIOUS
<1>1. asked \in Seq(Steps) /\ Len(asked) = 0
  BY DEF Init
<1>2. prev \in OnScale
  BY OnTheScale DEF Init
<1> QED
  BY <1>1, <1>2 DEF Init, TypeInv, TypeOK, StepsBounded, Places, Results

\* Each step of the camera, its user and the function keeps the types, and the
\* number of steps under way below that of calls and turns of the dial.
LEMMA TypeStep == TypeInv /\ [Next]_vars => TypeInv'
<1> SUFFICES ASSUME TypeInv, [Next]_vars PROVE TypeInv'
  OBVIOUS
<1> USE DEF TypeInv, TypeOK, StepsBounded, Places, Results
<1>a. /\ Len(asked) \in Nat /\ calls \in Nat /\ dials \in Nat
      /\ lates \in Nat /\ faults \in Nat /\ asked \in Seq(Steps)
      /\ Current \in OnScale
  BY StepCount, OnTheScale
<1>1. CASE CarryOut
  <2>1. Len(asked') + 1 = Len(asked) /\ asked' \in Seq(Steps) /\ Len(asked') \in Nat
    BY <1>1, <1>a, StepCount DEF CarryOut
  <2>2. pos' \in 1..Len(Scale) /\ UNCHANGED <<place, calls, dials, prev, prev_comp>>
    BY <1>1, OnTheScale DEF CarryOut
  <2>3. StepsBounded'
    BY <1>a, <2>1, <2>2
  <2>4. Len(asked') <= calls' + dials'
    BY <1>a, <2>1, <2>2
  <2>5. TypeOK'
    BY <1>1, <2>1, <2>2, <2>4 DEF CarryOut
  <2> HIDE DEF TypeOK, StepsBounded
  <2> QED
    BY <2>2, <2>3, <2>5, <1>1 DEF CarryOut
<1>2. ASSUME NEW d \in Steps, Dial(d) PROVE TypeInv'
  BY <1>2, <1>a, OnTheScale DEF Dial
<1>3. ASSUME NEW v \in Targets, Begin(v) PROVE TypeInv'
  BY <1>3, <1>a DEF Begin
<1>4. CASE Read
  <2>1. Current' = Current
    BY <1>4 DEF Read, Current
  <2>2. prev' = Current => Compare(prev', Current') = 0
    BY <2>1, CompareRange
  <2>3. Compare(Current, target) \in {-1, 0, 1}
    BY CompareRange
  <2> QED
    BY <1>4, <1>a, <2>1, <2>2, <2>3 DEF Read, Return, Fault, NoFault, Steps
<1>5. CASE Adjust
  <2>1. Current' = Current /\ prev' = prev
    BY <1>5 DEF Adjust, Current
  <2>2. -prev_comp \in Steps
    BY <1>5 DEF Adjust, Steps
  <2>3. /\ Append(asked, -prev_comp) \in Seq(Steps)
        /\ Len(Append(asked, -prev_comp)) = Len(asked) + 1
    BY <1>a, <2>2, StepCount
  <2>4. asked' = asked \/ asked' = Append(asked, -prev_comp)
    BY <1>5 DEF Adjust
  <2>5. asked' \in Seq(Steps) /\ Len(asked') \in Nat /\ Len(asked') <= Len(asked) + 1
    BY <1>a, <2>3, <2>4
  <2> QED
    BY <1>5, <1>a, <2>1, <2>5 DEF Adjust, Return, Fault, NoFault
<1>6. CASE Poll
  <2>1. Current' = Current
    BY <1>6 DEF Poll, Current
  <2> QED
    BY <1>6, <1>a, <2>1 DEF Poll, Return, Fault, NoFault
<1>7. CASE UNCHANGED vars
  BY <1>7 DEF Current
<1> QED
  BY <1>1, <1>2, <1>3, <1>4, <1>5, <1>6, <1>7 DEF Next, HostStep, Finished

\* On any scale, of numbers or of speeds, the variables keep their types, and no
\* more steps are under way than calls were made and the dial was turned: a call
\* leaves the camera one step at most.
THEOREM TypeCorrect == Spec => []TypeOK
<1>1. TypeInv => TypeOK
  BY DEF TypeInv
<1> QED
  BY <1>1, TypeInit, TypeStep, PTL DEF Spec

-----------------------------------------------------------------------------
(* A call comes to its end: the argument behind Returns, but for the       *)
(* fairness that turns it into liveness.                                   *)

\* A position shows the same value as another just if it is that one.
LEMMA Shows ==
  ASSUME Ascending, NEW p \in Positions, NEW q \in Positions
  PROVE  Compare(Scale[p], Scale[q]) = 0 <=> q = p
<1>1. Scale[p] \in Int /\ Scale[q] \in Int
  BY ScaleFacts
<1> QED
  BY <1>1, CompareFacts, ScaleFacts

\* What lies ahead is a number of positions, and a step takes the camera over one
\* of them.
LEMMA AheadFacts ==
  ASSUME Ascending, NEW p \in Positions, NEW c \in Steps
  PROVE  LET ahead(q) == IF c = 1 THEN q ELSE Len(Scale) - q + 1 IN
         /\ ahead(p) \in 1..Len(Scale)
         /\ ahead(p - c) = ahead(p) - 1
         /\ p - c = p + -c /\ p - c # p
BY ScaleFacts DEF Positions, Steps

\* What the values are while an undisturbed call is under way.
LEMMA Midway ==
  ASSUME Ascending, Inv, disturbed = 0
  PROVE  /\ pos \in Positions /\ Len(Scale) \in Nat
         /\ place = "adjust" \/ place = "poll" \/ (place = "read" /\ first_iter = 0) =>
              prev_comp \in Steps
<1>1. Types /\ CallInv /\ Len(Scale) \in Nat
  BY ScaleFacts DEF Inv
<1>2. ASSUME NEW p \in Positions, ReadAt(p) PROVE prev_comp \in Steps
  BY <1>1, <1>2, ReadFacts, Direction DEF Steps
<1> QED
  BY <1>1, <1>2 DEF CallInv, Types

\* Each step that does not end an undisturbed call leaves less to do.
LEMMA ApproachesStep ==
  ASSUME Ascending, Inv, Inv', [Next]_vars,
         place # "idle", place' # "idle", disturbed' = 0, vars' # vars
  PROVE  ToGo' < ToGo /\ ToGo \in Nat
<1>a. Types /\ CallInv /\ pos \in Positions /\ pos' \in Positions /\ Len(Scale) \in Nat
      /\ asked \in Seq(Steps)
  BY ScaleFacts DEF Inv, Types
<1> DEFINE ahead(q, c) == IF c = 1 THEN q ELSE Len(Scale) - q + 1
<1>b. \A q \in Positions, c \in Steps :
        ahead(q, c) \in 1..Len(Scale) /\ ahead(q - c, c) = ahead(q, c) - 1
  BY AheadFacts
<1>c. Ahead = ahead(pos, prev_comp) /\ Ahead' = ahead(pos', prev_comp')
  BY DEF Ahead
<1>d. /\ Compare(prev, Current)' = Compare(prev', Scale[pos'])
      /\ Compare(prev, Current) = Compare(prev, Scale[pos])
  BY DEF Current
<1> HIDE DEF ahead
<1>1. CASE CarryOut
  <2>1. /\ disturbed = 0 /\ asked # <<>> /\ pos' = Moved(Head(asked))
        /\ UNCHANGED <<place, prev, prev_comp>> /\ asked' = Tail(asked)
    BY <1>1 DEF CarryOut
  <2>2. place = "poll"
    BY <1>a, <2>1 DEF CallInv, Types, Places
  <2>3. PICK p \in Positions : ReadAt(p) /\ SteppedFrom(p)
    BY <1>a, <2>1, <2>2 DEF CallInv
  <2>4. asked = <<-prev_comp>> /\ pos = p
    BY <2>1, <2>3 DEF SteppedFrom
  <2>5. prev_comp \in Steps /\ -prev_comp \in Steps /\ prev = Scale[p]
    BY <2>1, <2>2, <2>3, Midway DEF Steps, ReadAt
  <2>6. asked' = <<>> /\ pos' = Moved(-prev_comp)
    BY <1>a, <2>1, <2>4, TakeStep
  <2>7. p - prev_comp = p + -prev_comp /\ p - prev_comp # p
    BY <2>5, AheadFacts
  <2>8. Ahead = ahead(p, prev_comp) /\ Ahead \in 1..Len(Scale)
    BY <1>b, <1>c, <2>4, <2>5
  <2>9. ToGo = 2 + 4 * Ahead
    <3>1. Compare(prev, Current) = 0
      BY <1>a, <1>d, <2>4, <2>5, Shows
    <3> QED
      BY <2>1, <2>2, <3>1 DEF ToGo
  <2>10. CASE p + -prev_comp \in Positions
    <3>1. pos' = p - prev_comp
      BY <1>a, <2>4, <2>5, <2>6, <2>7, <2>10, MovedFacts
    <3>2. Ahead' = Ahead - 1
      BY <1>b, <1>c, <2>1, <2>5, <2>8, <3>1
    <3>3. Compare(prev, Current)' # 0
      BY <1>a, <1>d, <2>1, <2>5, <2>7, <3>1, Shows
    <3>4. ToGo' = 5 + 4 * Ahead'
      BY <2>1, <2>2, <3>3 DEF ToGo
    <3> QED
      BY <1>a, <2>8, <2>9, <3>2, <3>4
  <2>11. CASE p + -prev_comp \notin Positions
    <3>1. pos' = p
      BY <1>a, <2>4, <2>5, <2>6, <2>11, MovedFacts
    <3>2. Ahead' = Ahead
      BY <1>c, <2>1, <2>4, <3>1
    <3>3. Compare(prev, Current)' = 0
      BY <1>a, <1>d, <2>1, <2>5, <3>1, Shows
    <3>4. ToGo' = 1 + 4 * Ahead'
      BY <2>1, <2>2, <2>6, <3>3 DEF ToGo
    <3> QED
      BY <1>a, <2>8, <2>9, <3>2, <3>4
  <2> QED
    BY <2>10, <2>11
<1>2. \A d \in Steps : ~Dial(d)
  BY DEF Dial
<1>3. \A v \in Targets : ~Begin(v)
  BY DEF Begin
<1>4. CASE Read
  <2>1. /\ place = "read" /\ place' = "adjust" /\ disturbed = 0
        /\ UNCHANGED <<pos, first_iter>>
        /\ first_iter = 1 \/ prev_comp' = prev_comp
    BY <1>4 DEF Read, Return
  <2>2. prev_comp' \in Steps
    BY <2>1 DEF Inv, Types
  <2>3. Ahead' \in 1..Len(Scale)
    BY <1>a, <1>b, <1>c, <2>2
  <2>4. ToGo' = 3 + 4 * Ahead'
    BY <2>1 DEF ToGo
  <2>5. CASE first_iter = 1
    <3>1. ToGo = 4 + 4 * Len(Scale)
      BY <2>1, <2>5 DEF ToGo
    <3> QED
      BY <1>a, <2>3, <2>4, <3>1
  <2>6. CASE first_iter # 1
    <3>1. Ahead' = Ahead
      BY <1>c, <2>1, <2>6
    <3>2. ToGo = 4 + 4 * Ahead
      BY <2>1, <2>6 DEF ToGo
    <3> QED
      BY <1>a, <2>3, <2>4, <3>1, <3>2
  <2> QED
    BY <2>5, <2>6
<1>5. CASE Adjust
  <2>1. /\ place = "adjust" /\ place' = "poll" /\ disturbed = 0
        /\ UNCHANGED <<pos, prev, prev_comp>> /\ asked' = Append(asked, -prev_comp)
    BY <1>5 DEF Adjust, Return, loopVars
  <2>2. prev = Scale[pos] /\ prev_comp \in Steps /\ asked' # <<>>
    BY <1>a, <2>1 DEF CallInv, ReadAt, Types
  <2>3. Ahead' = Ahead /\ Ahead \in 1..Len(Scale)
    BY <1>a, <1>b, <1>c, <2>1, <2>2
  <2>4. Compare(prev, Current)' = 0
    BY <1>a, <1>d, <2>1, <2>2, Shows
  <2>5. ToGo = 3 + 4 * Ahead /\ ToGo' = 2 + 4 * Ahead'
    BY <2>1, <2>2, <2>4 DEF ToGo
  <2> QED
    BY <1>a, <2>3, <2>5
<1>6. CASE Poll
  <2>1. /\ place = "poll" /\ place' = "read" /\ first_iter' = 0 /\ disturbed = 0
        /\ Compare(prev, Current) # 0 /\ UNCHANGED <<pos, prev_comp>>
    BY <1>6 DEF Poll, Return
  <2>2. prev_comp \in Steps
    BY <2>1, Midway
  <2>3. Ahead' = Ahead /\ Ahead \in 1..Len(Scale)
    BY <1>a, <1>b, <1>c, <2>1, <2>2
  <2>4. ToGo = 5 + 4 * Ahead /\ ToGo' = 4 + 4 * Ahead'
    BY <2>1 DEF ToGo
  <2> QED
    BY <1>a, <2>3, <2>4
<1> QED
  BY <1>1, <1>2, <1>3, <1>4, <1>5, <1>6 DEF Next, HostStep, Finished

\* An undisturbed call comes nearer to its end with every step: the camera goes in
\* one direction, and the scale has an end.
THEOREM ApproachesHolds == ASSUME Ascending PROVE Spec => Approaches
<1>1. Inv /\ Inv' /\ [Next]_vars =>
        [place # "idle" /\ place' # "idle" /\ disturbed' = 0 => ToGo' < ToGo]_vars
  BY ApproachesStep
<1> QED
  BY <1>1, InvHolds, PTL DEF Spec, Approaches
=============================================================================
