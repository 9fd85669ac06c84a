----------------------------- MODULE SetControl -----------------------------
(***************************************************************************)
(* ptp_sony_set_control_prop (ptp-sony.c): a property of the camera that   *)
(* can only be stepped up and down is brought to a value by reading it,    *)
(* stepping towards the value, and waiting until the camera shows another  *)
(* value, over and over.  The camera carries a step out some time after it *)
(* accepted it, and somebody may turn its dial.                            *)
(*                                                                         *)
(* The values are numbers (ISO, F-number) or shutter speeds, pairs that    *)
(* are compared after an integer division.                                 *)
(***************************************************************************)
EXTENDS Integers, Sequences

CONSTANTS
  Kind,      \* "number" or "speed": which compare function is passed
  Scale,     \* the values that the camera offers, in the order of its steps
  Targets,   \* the values asked for
  MaxCalls,  \* bound: calls of ptp_sony_set_control_prop
  MaxDials,  \* bound: turns of the camera's dial
  MaxLates,  \* bound: steps that take the camera longer than the time-out
  MaxFaults  \* bound: failed transactions

ASSUME KindAssumption   == Kind \in {"number", "speed"}
ASSUME ScaleAssumption  == Scale # <<>>
ASSUME BoundsAssumption == /\ MaxCalls \in Nat /\ MaxDials \in Nat
                           /\ MaxLates \in Nat /\ MaxFaults \in Nat

VARIABLES
  pos,        \* where on Scale the camera is
  asked,      \* steps the camera accepted and has not carried out
  place,      \* where the function is
  target,     \* `value`
  first_iter,
  prev,       \* the value read last
  prev_comp,  \* how it compared to the target
  result,
  disturbed,  \* in this call: was the property moved by more than its steps, or
              \* a step late?
  calls, dials, lates, faults

cameraVars == <<pos, asked, disturbed, dials>>
loopVars   == <<target, first_iter, prev, prev_comp, calls>>
vars       == <<cameraVars, place, loopVars, result, lates, faults>>

Places  == {"idle", "read", "adjust", "poll"}
Results == {"none", "OK", "NOT_FOUND", "TRANSACTION", "PASSED", "TIMEOUT"}
Steps   == {-1, 1}

-----------------------------------------------------------------------------
(* The comparisons.                                                        *)

\* prop_compare_uint16 and prop_compare_uint32.
CompareNumbers(a, b) == IF a = b THEN 0 ELSE IF a > b THEN 1 ELSE -1

\* shutter_speed_normalize, in integers.
Normalize(s) ==
  IF s.num > s.denom THEN [num |-> s.num \div s.denom, denom |-> 1]
                     ELSE [num |-> 1, denom |-> s.denom \div s.num]

\* shutter_speed_compare: the faster speed is the greater one.
CompareSpeeds(a, b) ==
  LET m == Normalize(a)
      n == Normalize(b)
  IN  IF m.num = n.num THEN CompareNumbers(m.denom, n.denom)
                       ELSE CompareNumbers(n.num, m.num)

Compare(a, b) ==
  IF Kind = "speed" THEN CompareSpeeds(a, b) ELSE CompareNumbers(a, b)

-----------------------------------------------------------------------------
(* The camera (external).                                                  *)

Current == Scale[pos]

\* The next position, or the same at the end of the scale.
Moved(d) == IF pos + d \in 1..Len(Scale) THEN pos + d ELSE pos

\* The camera carries out the step it accepted first.
CarryOut ==
  /\ asked # <<>>
  /\ pos' = Moved(Head(asked))
  /\ asked' = Tail(asked)
  /\ UNCHANGED <<disturbed, dials, place, loopVars, result, lates, faults>>

\* Somebody turns the dial.
Dial(d) ==
  /\ dials < MaxDials
  /\ dials' = dials + 1
  /\ pos' = Moved(d)
  /\ disturbed' = 1
  /\ UNCHANGED <<asked, place, loopVars, result, lates, faults>>

-----------------------------------------------------------------------------
(* ptp_sony_set_control_prop.                                              *)

Init ==
  /\ pos \in 1..Len(Scale) /\ asked = <<>>
  /\ place = "idle" /\ target \in Targets
  /\ first_iter = 1 /\ prev = Current /\ prev_comp = 0
  /\ result = "none" /\ disturbed = 0
  /\ calls = 0 /\ dials = 0 /\ lates = 0 /\ faults = 0

Fault   == faults < MaxFaults /\ faults' = faults + 1
NoFault == UNCHANGED faults

Return(r) == place' = "idle" /\ result' = r

\* An earlier call may have left the camera a step to carry out.
Begin(v) ==
  /\ place = "idle"
  /\ calls < MaxCalls
  /\ calls' = calls + 1
  /\ target' = v
  /\ first_iter' = 1
  /\ place' = "read" /\ result' = "none"
  /\ disturbed' = IF asked = <<>> THEN 0 ELSE 1
  /\ UNCHANGED <<pos, asked, dials, prev, prev_comp, lates, faults>>

\* Mutant: it never notices that it passed the value.
Bug_Read ==
  /\ place = "read"
  /\ prev' = Current
  /\ LET c == Compare(Current, target) IN
     IF c = 0
     THEN Return("OK") /\ UNCHANGED <<first_iter, prev_comp>>
     ELSE /\ place' = "adjust" /\ prev_comp' = c
          /\ UNCHANGED <<first_iter, result>>
  /\ NoFault
  /\ UNCHANGED <<cameraVars, target, calls, lates>>

\* The property is read and compared.  "We got the desired value"; "We passed
\* the value"; or a step towards it is due.
Read ==
  /\ place = "read"
  /\ \/ /\ Fault
        /\ Return("NOT_FOUND")
        /\ UNCHANGED <<prev, prev_comp>>
     \/ /\ NoFault
        /\ prev' = Current
        /\ LET c == Compare(Current, target) IN
           \/ c = 0 /\ Return("OK") /\ UNCHANGED prev_comp
           \/ /\ c # 0 /\ first_iter = 0 /\ c # prev_comp
              /\ Return("PASSED") /\ UNCHANGED prev_comp
           \/ /\ c # 0 /\ (first_iter = 1 \/ c = prev_comp)
              /\ prev_comp' = c
              /\ place' = "adjust" /\ UNCHANGED result
  /\ UNCHANGED <<cameraVars, target, first_iter, calls, lates>>

\* Mutant: the direction is the wrong way round.
Bug_Adjust ==
  /\ place = "adjust"
  /\ NoFault
  /\ asked' = Append(asked, prev_comp)
  /\ place' = "poll"
  /\ UNCHANGED <<result, pos, disturbed, dials, loopVars, lates>>

\* ptp_sony_adjust_property; the camera may have heard what failed.
Adjust ==
  /\ place = "adjust"
  /\ \/ NoFault /\ place' = "poll" /\ UNCHANGED result
        /\ asked' = Append(asked, -prev_comp)
     \/ Fault /\ Return("TRANSACTION")
        /\ asked' \in {asked, Append(asked, -prev_comp)}
  /\ UNCHANGED <<pos, disturbed, dials, loopVars, lates>>

\* Mutant: it does not wait until the camera has carried the step out.
Bug_Poll ==
  /\ place = "poll"
  /\ NoFault
  /\ place' = "read" /\ first_iter' = 0
  /\ UNCHANGED <<result, cameraVars, target, prev, prev_comp, calls, lates>>

\* The property is read again until it has another value, or time runs out:
\* because the camera did nothing, or took longer.
Poll ==
  /\ place = "poll"
  /\ \/ /\ Fault
        /\ Return("NOT_FOUND")
        /\ UNCHANGED <<first_iter, lates, disturbed>>
     \/ /\ NoFault
        /\ Compare(prev, Current) # 0
        /\ place' = "read" /\ first_iter' = 0
        /\ UNCHANGED <<result, lates, disturbed>>
     \/ /\ NoFault
        /\ Compare(prev, Current) = 0
        /\ Return("TIMEOUT")
        /\ IF asked = <<>>
           THEN UNCHANGED <<lates, disturbed>>
           ELSE lates < MaxLates /\ lates' = lates + 1 /\ disturbed' = 1
        /\ UNCHANGED first_iter
  /\ UNCHANGED <<pos, asked, dials, target, prev, prev_comp, calls>>

-----------------------------------------------------------------------------

HostStep == Read \/ Adjust \/ Poll

\* No call is left.
Finished == place = "idle" /\ calls = MaxCalls /\ asked = <<>> /\ UNCHANGED vars

Next == \/ \E v \in Targets : Begin(v)
        \/ HostStep
        \/ CarryOut \/ \E d \in Steps : Dial(d)
        \/ Finished

Spec == Init /\ [][Next]_vars

\* Transactions end, the clock runs, and the camera carries out what it
\* accepted in the end.
FairSpec == Spec /\ WF_vars(HostStep) /\ WF_vars(CarryOut)

-----------------------------------------------------------------------------
(* What must hold.                                                         *)

OnScale == {Scale[k] : k \in 1..Len(Scale)}

\* The values each variable takes; a call has one step under way at a
\* time, unless the dial made it take another's step for its own.
TypeOK ==
  /\ pos \in 1..Len(Scale) /\ target \in Targets /\ prev \in OnScale
  /\ asked \in Seq(Steps) /\ Len(asked) <= calls + dials
  /\ place \in Places /\ result \in Results
  /\ first_iter \in {0, 1} /\ prev_comp \in {-1, 0, 1} /\ disturbed \in {0, 1}
  /\ calls \in Nat /\ dials \in Nat /\ lates \in Nat /\ faults \in Nat

Undisturbed == place = "idle" /\ disturbed = 0

\* A success is one: the camera has the value, and no step is under way that
\* would take it away again.
GotValue == Undisturbed /\ result = "OK" => Current = target /\ asked = <<>>

\* The value is called unavailable only when the camera does not offer it:
\* passing it, or standing still at an end of the scale, shows that.
NoSuchValue == Undisturbed /\ result \in {"PASSED", "TIMEOUT"} =>
                 target \notin OnScale

\* The function returns, whatever the camera and its user do meanwhile: it does
\* not hunt to and fro about a value that is not there.
Returns == place # "idle" ~> place = "idle"

-----------------------------------------------------------------------------
(* The inductive invariant behind GotValue and NoSuchValue, for numbers that *)
(* the camera offers in ascending order.                                   *)

Positions == 1..Len(Scale)
Ascending == /\ Kind = "number" /\ Scale \in Seq(Int) /\ Targets \subseteq Int
             /\ \A j, k \in Positions : j < k => Scale[j] < Scale[k]

Types == /\ pos \in Positions /\ asked \in Seq(Steps) /\ target \in Targets
         /\ place \in Places /\ first_iter \in {0, 1} /\ disturbed \in {0, 1}
         /\ place = "adjust" => prev_comp \in Steps

\* The value read last is that of position p, and not the target.
ReadAt(p) == prev = Scale[p] /\ prev_comp = Compare(Scale[p], target) /\ prev_comp # 0

\* The step from p is under way, or was carried out, to no effect at the end of
\* the scale.
SteppedFrom(p) ==
  \/ asked = <<-prev_comp>> /\ pos = p
  \/ asked = <<>> /\ pos = p - prev_comp
  \/ asked = <<>> /\ pos = p /\ p - prev_comp \notin Positions

\* Where the camera is while an undisturbed call is under way.
CallInv ==
  disturbed = 0 =>
    /\ place = "read" =>
         /\ asked = <<>>
         /\ first_iter = 0 => \E p \in Positions : ReadAt(p) /\ pos = p - prev_comp
    /\ place = "adjust" => asked = <<>> /\ ReadAt(pos)
    /\ place = "poll" => \E p \in Positions : ReadAt(p) /\ SteppedFrom(p)

Inv == Types /\ CallInv /\ GotValue /\ NoSuchValue

-----------------------------------------------------------------------------
(* The inductive invariant behind TypeOK, for every scale.                  *)

\* The steps under way: each call adds one that may be left when it ends, and so
\* does each turn of the dial that the loop takes for a step's effect.  Once the
\* property shows another value than the one read, a step was carried out or the
\* dial was turned.
StepsBounded ==
  LET shown == Compare(prev, Current) # 0 IN
  /\ place = "idle" => Len(asked) <= calls + dials
  /\ place = "read" => Len(asked) + 1 <= calls + dials
  /\ place = "adjust" => Len(asked) + (IF shown THEN 2 ELSE 1) <= calls + dials
  /\ place = "poll" => Len(asked) + (IF shown THEN 1 ELSE 0) <= calls + dials

TypeInv == TypeOK /\ StepsBounded /\ (place = "adjust" => prev_comp \in Steps)

-----------------------------------------------------------------------------
(* The argument behind Returns, for numbers in ascending order.             *)

\* The positions that lie in the direction of the steps, the present one included.
Ahead == IF prev_comp = 1 THEN pos ELSE Len(Scale) - pos + 1

\* What an undisturbed call has still to do: four steps for each position.
ToGo ==
  LET shown == Compare(prev, Current) # 0 IN
  CASE place = "read"   -> 4 + 4 * (IF first_iter = 1 THEN Len(Scale) ELSE Ahead)
    [] place = "adjust" -> 3 + 4 * Ahead
    [] place = "poll"   -> (IF shown THEN 5 ELSE IF asked = <<>> THEN 1 ELSE 2) + 4 * Ahead
    [] OTHER            -> 0

\* Every step that does not end an undisturbed call leaves less to do: the camera
\* goes in one direction, and the scale has an end.
Approaches ==
  [][place # "idle" /\ place' # "idle" /\ disturbed' = 0 => ToGo' < ToGo]_vars
=============================================================================
