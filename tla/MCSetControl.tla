---------------------------- MODULE MCSetControl ----------------------------
(* Small instances of SetControl for TLC.                                  *)
EXTENDS SetControl

\* Numbers with gaps, and targets on, between and beyond them.
MCNumbers == <<1, 2, 4, 6>>
MCTargets == 0..7

\* Shutter speeds from slow to fast; the camera counts in tenths of a second.
Speed(n, d) == [num |-> n, denom |-> d]
MCSpeeds    == <<Speed(20, 10), Speed(5, 10), Speed(4, 10), Speed(1, 4)>>
MCSpeedSet  == {MCSpeeds[k] : k \in 1..Len(MCSpeeds)}
=============================================================================
