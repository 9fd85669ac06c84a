------------------------------ MODULE Delivery ------------------------------
(***************************************************************************)
(* What the transfer machinery of pyptp.c promises of each picture: it     *)
(* leaves the camera once, is held in memory by one running thread, and is *)
(* then saved or dropped, once; a thread that ends holds none.  A picture  *)
(* that leaves the camera and reaches no memory is the price of a failure, *)
(* one picture for each.                                                   *)
(***************************************************************************)
EXTENDS Naturals

CONSTANT Images

VARIABLES place,    \* where each picture is
          running,  \* is there a transfer thread?
          failures  \* what has failed so far

dvars == <<place, running, failures>>

DInit == place = [i \in Images |-> "world"] /\ running = FALSE /\ failures = 0

InMemory(i) == place[i] = "memory"
Failure     == failures' = failures + 1

Taken(i) ==
  /\ place[i] = "world"
  /\ place' = [place EXCEPT ![i] = "camera"]
  /\ UNCHANGED <<running, failures>>

Fetch(i) ==
  /\ running
  /\ place[i] = "camera"
  /\ \A j \in Images : ~InMemory(j)
  /\ place' = [place EXCEPT ![i] = "memory"]
  /\ UNCHANGED <<running, failures>>

Lose(i) ==
  /\ running
  /\ place[i] = "camera"
  /\ place' = [place EXCEPT ![i] = "lost"]
  /\ Failure
  /\ UNCHANGED running

\* A picture may be dropped for a reason of its own, or by a failure.
Settle(i) ==
  /\ running
  /\ InMemory(i)
  /\ \/ \E p \in {"saved", "dropped"} :
          place' = [place EXCEPT ![i] = p] /\ UNCHANGED failures
     \/ place' = [place EXCEPT ![i] = "dropped"] /\ Failure
  /\ UNCHANGED running

Start == ~running /\ running' = TRUE /\ UNCHANGED <<place, failures>>

Stop ==
  /\ running
  /\ \A i \in Images : ~InMemory(i)
  /\ running' = FALSE
  /\ UNCHANGED <<place, failures>>

Fail == Failure /\ UNCHANGED <<place, running>>

DNext == \/ Start \/ Stop \/ Fail
         \/ \E i \in Images : Taken(i) \/ Fetch(i) \/ Lose(i) \/ Settle(i)

DSpec == DInit /\ [][DNext]_dvars
=============================================================================
