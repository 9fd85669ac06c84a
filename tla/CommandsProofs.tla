--------------------------- MODULE CommandsProofs ---------------------------
(***************************************************************************)
(* What the abstract queue of commands promises, for any set of numbers.   *)
(***************************************************************************)
EXTENDS Commands, TLAPS

\* Nothing is promised of commands that were not given.
LEMMA PromisesInit ==
  ASSUME Numbers \subseteq Nat, CInit PROVE Promises
<1>1. executed \in [Numbers -> Nat] /\ \A n \in Numbers : executed[n] = 0
  BY DEF CInit
<1>2. busy = FALSE /\ success = TRUE /\ current = 0 /\ open = {} /\ replies = {}
  BY DEF CInit
<1>3. busy \in BOOLEAN /\ success \in BOOLEAN
  BY <1>2
<1>4. current \in Nat /\ open \subseteq Numbers /\ replies \subseteq Numbers
  BY <1>2
<1>5. Once
  BY <1>1, <1>2 DEF Once
<1>6. InTurn /\ Settled
  BY <1>2 DEF InTurn, Settled
<1> QED
  BY <1>1, <1>3, <1>4, <1>5, <1>6 DEF Promises

\* Each step keeps the promises: an answered command is the oldest, so its answer
\* is the last, and it is open no more.
LEMMA PromisesStep ==
  ASSUME Numbers \subseteq Nat, Promises, [CNext]_cvars PROVE Promises'
<1> USE DEF Promises
<1>a. \A n \in open \cup replies : n \in Nat /\ n \in Numbers
  OBVIOUS
<1>1. CASE Give
  <2>1. /\ current' = current + 1 /\ current' \in Numbers /\ busy' = TRUE
        /\ open' = open \cup {current'}
        /\ UNCHANGED <<success, replies, executed>>
    BY <1>1 DEF Give
  <2>2. InTurn'
    BY <1>a, <2>1 DEF InTurn
  <2>3. Once'
    BY <2>1 DEF Once
  <2> QED
    BY <2>1, <2>2, <2>3 DEF Settled
<1>2. ASSUME NEW n \in open, Answer(n) PROVE Promises'
  <2>1. /\ \A m \in open : n <= m
        /\ open' = open \ {n} /\ replies' = replies \cup {n}
        /\ executed' = executed \/ executed' = [executed EXCEPT ![n] = @ + 1]
        /\ UNCHANGED <<busy, success, current>>
    BY <1>2 DEF Answer, Oldest
  <2>2. /\ executed' \in [Numbers -> Nat]
        /\ \A m \in Numbers : m # n => executed'[m] = executed[m]
        /\ executed'[n] <= 1
    BY <1>a, <2>1 DEF Once
  <2>3. Once'
    BY <1>a, <2>1, <2>2 DEF Once
  <2>4. InTurn'
    BY <1>a, <2>1 DEF InTurn
  <2>5. \A m \in Numbers : m > current => executed'[m] = 0
    BY <1>a, <2>2 DEF InTurn
  <2>6. Settled'
    BY <2>1 DEF Settled
  <2> QED
    BY <1>a, <2>1, <2>2, <2>3, <2>4, <2>5, <2>6
<1>3. ASSUME NEW n \in open, Forget(n) PROVE Promises'
  BY <1>3 DEF Forget, Oldest, Once, InTurn, Settled
<1>4. CASE Succeed
  BY <1>4 DEF Succeed, Once, InTurn, Settled
<1>5. CASE Fail
  BY <1>5 DEF Fail, Once, InTurn, Settled
<1>6. CASE UNCHANGED cvars
  BY <1>6 DEF cvars, Once, InTurn, Settled
<1> QED
  BY <1>1, <1>2, <1>3, <1>4, <1>5, <1>6 DEF CNext

\* Commands are answered in their order, none is carried out twice, and after a
\* success nothing is still to come.
THEOREM PromisesHold ==
  ASSUME Numbers \subseteq Nat PROVE CSpec => [](Once /\ InTurn /\ Settled)
<1>1. CInit => Promises
  BY PromisesInit
<1>2. Promises /\ [CNext]_cvars => Promises'
  BY PromisesStep
<1>3. Promises => Once /\ InTurn /\ Settled
  BY DEF Promises
<1> QED
  BY <1>1, <1>2, <1>3, PTL DEF CSpec

\* Only an open command is carried out: none that was given before a success is
\* carried out after it.
THEOREM OnlyOpenHolds ==
  ASSUME Numbers \subseteq Nat PROVE CSpec => OnlyOpen
<1>1. CInit => Promises
  BY PromisesInit
<1>2. Promises /\ [CNext]_cvars => Promises'
  BY PromisesStep
<1>3. Promises /\ [CNext]_cvars =>
        [\A n \in Numbers : executed'[n] # executed[n] => n \in open]_cvars
  <2> SUFFICES ASSUME Promises, CNext, NEW n \in Numbers, executed'[n] # executed[n]
               PROVE  n \in open
    OBVIOUS
  <2>1. PICK m \in open : Answer(m)
    BY DEF CNext, Give, Forget, Succeed, Fail
  <2>2. m = n
    BY <2>1 DEF Answer, Promises
  <2> QED
    BY <2>2
<1> QED
  BY <1>1, <1>2, <1>3, PTL DEF CSpec, OnlyOpen
=============================================================================
