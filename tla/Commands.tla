------------------------------ MODULE Commands ------------------------------
(***************************************************************************)
(* What ptp_transact promises of the commands it is given: the camera      *)
(* answers them in their order, each at most once, and some not at all; a  *)
(* success means that the command was answered, that its answer was taken, *)
(* and that no command before it can still be carried out or answered.     *)
(***************************************************************************)
EXTENDS Naturals

CONSTANT Numbers    \* of the commands

VARIABLES busy,     \* is a call of ptp_transact under way?
          success,  \* did the last one that returned succeed?
          current,  \* the number of the command given last
          open,     \* commands that the camera may still handle
          replies,  \* commands answered, whose answer was not taken yet
          executed  \* how often each was carried out

cvars == <<busy, success, current, open, replies, executed>>

CInit ==
  /\ busy = FALSE /\ success = TRUE /\ current = 0
  /\ open = {} /\ replies = {}
  /\ executed = [n \in Numbers |-> 0]

Give ==
  /\ ~busy
  /\ busy' = TRUE
  /\ current' = current + 1
  /\ current' \in Numbers
  /\ open' = open \cup {current'}
  /\ UNCHANGED <<success, replies, executed>>

Oldest(n) == n \in open /\ \A m \in open : n <= m

\* The camera carries a command out, or refuses it.
Answer(n) ==
  /\ Oldest(n)
  /\ open' = open \ {n}
  /\ replies' = replies \cup {n}
  /\ executed' \in {executed, [executed EXCEPT ![n] = @ + 1]}
  /\ UNCHANGED <<busy, success, current>>

Forget(n) ==
  /\ Oldest(n)
  /\ open' = open \ {n}
  /\ UNCHANGED <<busy, success, current, replies, executed>>

Succeed ==
  /\ busy /\ open = {} /\ replies = {current}
  /\ busy' = FALSE /\ success' = TRUE /\ replies' = {}
  /\ UNCHANGED <<current, open, executed>>

\* A failure may be one to send the command, which then never comes, and may cost an
\* answer, which was refused or lost.
Fail ==
  /\ busy
  /\ busy' = FALSE /\ success' = FALSE
  /\ open' \in {open, open \ {current}}
  /\ \E lost \in {{}} \cup {{n} : n \in replies} : replies' = replies \ lost
  /\ UNCHANGED <<current, executed>>

CNext == Give \/ Succeed \/ Fail \/ \E n \in open : Answer(n) \/ Forget(n)

CSpec == CInit /\ [][CNext]_cvars

-----------------------------------------------------------------------------
(* What follows from it.                                                   *)

\* No command is carried out twice, and none that may still be was carried out.
Once == /\ \A n \in Numbers : executed[n] <= 1
        /\ \A n \in open : executed[n] = 0

\* Answers come in the order of the commands, and belong to commands given.
InTurn == /\ \A n \in open, r \in replies : r < n
          /\ \A n \in open \cup replies : n <= current

\* After a success nothing is still to come.
Settled == ~busy /\ success => open = {} /\ replies = {}

\* Only an open command is carried out: none that was given before a success is
\* carried out after it.
OnlyOpen == [][\A n \in Numbers : executed'[n] # executed[n] => n \in open]_cvars

Promises ==
  /\ busy \in BOOLEAN /\ success \in BOOLEAN /\ current \in Nat
  /\ open \subseteq Numbers /\ replies \subseteq Numbers
  /\ executed \in [Numbers -> Nat]
  /\ \A n \in Numbers : n > current => executed[n] = 0
  /\ Once /\ InTurn /\ Settled
=============================================================================
