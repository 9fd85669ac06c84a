--------------------------- MODULE TransactProofs ---------------------------
(***************************************************************************)
(* Proofs about the transactions, for any number of them, any id space     *)
(* larger than that number and any number of failures and stalls.          *)
(***************************************************************************)
EXTENDS Transact, SequenceTheorems, TLAPS

USE DEF vars, hostVars, cameraVars, boundVars

\* Taking the first element off a pipe leaves the others, one place nearer.
LEMMA TakeFirst ==
  ASSUME NEW S, NEW s \in Seq(S), s # <<>>
  PROVE  /\ Head(s) \in S /\ Head(s) = s[1] /\ 1 \in 1..Len(s)
         /\ Tail(s) \in Seq(S)
         /\ Len(s) \in Nat /\ Len(Tail(s)) = Len(s) - 1
         /\ \A k \in 1..Len(Tail(s)) : Tail(s)[k] = s[k + 1] /\ k + 1 \in 2..Len(s)
BY HeadTailProperties, LenProperties

\* Putting an element at the end of a pipe leaves the others where they are.
LEMMA PutLast ==
  ASSUME NEW S, NEW s \in Seq(S), NEW e \in S
  PROVE  /\ Append(s, e) \in Seq(S)
         /\ Len(s) \in Nat /\ Len(Append(s, e)) = Len(s) + 1
         /\ \A k \in 1..Len(s) : Append(s, e)[k] = s[k]
         /\ Append(s, e)[Len(s) + 1] = e
BY LenProperties

\* An id that is the transaction's number, less one, stays so from one
\* transaction to the next: it does not come round again.
LEMMA NextId ==
  ASSUME TypeOK, IdsAgree, count < MaxTransactions
  PROVE  (transaction_id + 1) % IdSpace = count
<1>1. IdSpace \in Nat /\ IdSpace > 1 /\ MaxTransactions < IdSpace
      /\ MaxTransactions \in Nat
  BY IdAssumption, LengthAssumption
<1>2. CASE count = 0
  <2>1. transaction_id + 1 = IdSpace
    BY <1>1, <1>2 DEF IdsAgree
  <2>2. IdSpace % IdSpace = 0
    BY <1>1
  <2> QED
    BY <1>2, <2>1, <2>2
<1>3. CASE count # 0
  <2>1. transaction_id + 1 = count /\ count \in 0..(IdSpace - 1)
    BY <1>1, <1>3 DEF IdsAgree, TypeOK
  <2>2. count % IdSpace = count
    BY <1>1, <2>1
  <2> QED
    BY <2>1, <2>2
<1> QED
  BY <1>2, <1>3

\* What the camera answers with are units, of the command's transaction and id.
LEMMA Answers ==
  ASSUME NEW c \in Containers
  PROVE  /\ Unit(c, "response") \in Units
         /\ \A d \in DataReads(c) :
              /\ d \in Seq(Units)
              /\ \A k \in 1..Len(d) : d[k].id = c.id /\ d[k].n = c.n
<1>1. \A k \in Kinds : Unit(c, k) \in Units
  BY DEF Unit, Units, Containers
<1>2. {"data", "long", "rest", "zlp", "response"} = Kinds
  BY DEF Kinds
<1>3. \A k : Unit(c, k).id = c.id /\ Unit(c, k).n = c.n
  BY DEF Unit
<1>4. ASSUME NEW d \in DataReads(c)
      PROVE  /\ d \in Seq(Units)
             /\ \A k \in 1..Len(d) : d[k].id = c.id /\ d[k].n = c.n
  <2>1. CASE d = <<Unit(c, "data")>>
    BY <2>1, <1>1, <1>2, <1>3
  <2>2. CASE d = <<Unit(c, "data"), Unit(c, "zlp")>>
    BY <2>2, <1>1, <1>2, <1>3
  <2>3. CASE d = <<Unit(c, "long"), Unit(c, "rest")>>
    BY <2>3, <1>1, <1>2, <1>3
  <2>4. CASE d = <<Unit(c, "long"), Unit(c, "rest"), Unit(c, "zlp")>>
    BY <2>4, <1>1, <1>2, <1>3
  <2> QED
    BY <1>4, <2>1, <2>2, <2>3, <2>4 DEF DataReads
<1> QED
  BY <1>1, <1>2, <1>4

-----------------------------------------------------------------------------
(* The steps, one lemma for what each side does to the pipes.              *)

\* A camera step takes one or two containers off the OUT pipe, puts its answer
\* behind what is in the IN pipe, and carries out at most the first container.
LEMMA CameraMoves ==
  ASSUME TypeOK, Camera
  PROVE  /\ outPipe # <<>> /\ Head(outPipe) = outPipe[1]
         /\ outPipe[1] \in Containers /\ 1 \in 1..Len(outPipe)
         /\ outPipe' \in Seq(Containers)
         /\ \E j \in {1, 2} : \A k \in 1..Len(outPipe') :
              k + j \in 2..Len(outPipe) /\ outPipe'[k] = outPipe[k + j]
         /\ inPipe' \in Seq(Units)
         /\ \A k \in 1..Len(inPipe') :
              \/ k \in 1..Len(inPipe) /\ inPipe'[k] = inPipe[k]
              \/ inPipe'[k].id = outPipe[1].id /\ inPipe'[k].n = outPipe[1].n
         /\ \/ UNCHANGED executed
            \/ Execute(outPipe[1]) /\ outPipe[1].kind # "data"
         /\ UNCHANGED <<hostVars, boundVars>>
<1> DEFINE c == Head(outPipe)
<1>1. outPipe \in Seq(Containers) /\ inPipe \in Seq(Units) /\ outPipe # <<>>
  BY DEF TypeOK, Camera
<1>2. /\ c \in Containers /\ c = outPipe[1] /\ 1 \in 1..Len(outPipe)
      /\ Tail(outPipe) \in Seq(Containers)
      /\ Len(outPipe) \in Nat /\ Len(Tail(outPipe)) = Len(outPipe) - 1
      /\ \A k \in 1..Len(Tail(outPipe)) :
           Tail(outPipe)[k] = outPipe[k + 1] /\ k + 1 \in 2..Len(outPipe)
  BY <1>1, TakeFirst
<1> DEFINE Moved(s) == \E j \in {1, 2} : \A k \in 1..Len(s) :
                         k + j \in 2..Len(outPipe) /\ s[k] = outPipe[k + j]
           Extended(s) == \A k \in 1..Len(s) :
                            \/ k \in 1..Len(inPipe) /\ s[k] = inPipe[k]
                            \/ s[k].id = c.id /\ s[k].n = c.n
<1>3. Moved(Tail(outPipe))
  BY <1>2
<1>4. ASSUME Len(outPipe) > 1
      PROVE  Tail(Tail(outPipe)) \in Seq(Containers) /\ Moved(Tail(Tail(outPipe)))
  <2>1. Tail(outPipe) # <<>>
    <3>1. Len(Tail(outPipe)) # 0
      BY <1>2, <1>4
    <3> QED
      BY <3>1, EmptySeq
  <2>2. /\ Tail(Tail(outPipe)) \in Seq(Containers)
        /\ Len(Tail(Tail(outPipe))) = Len(Tail(outPipe)) - 1
        /\ \A k \in 1..Len(Tail(Tail(outPipe))) :
             /\ Tail(Tail(outPipe))[k] = Tail(outPipe)[k + 1]
             /\ k + 1 \in 2..Len(Tail(outPipe))
    BY <1>2, <2>1, TakeFirst
  <2>3. \A k \in 1..Len(Tail(Tail(outPipe))) :
          /\ k + 2 \in 2..Len(outPipe)
          /\ Tail(Tail(outPipe))[k] = outPipe[k + 2]
    BY <1>2, <2>2
  <2> QED
    BY <2>2, <2>3
<1>5. Unit(c, "response") \in Units
  BY <1>2, Answers
<1>6. \A s \in Seq(Units) :
        Extended(s) => /\ Append(s, Unit(c, "response")) \in Seq(Units)
                       /\ Extended(Append(s, Unit(c, "response")))
  <2> SUFFICES ASSUME NEW s \in Seq(Units), Extended(s)
               PROVE  /\ Append(s, Unit(c, "response")) \in Seq(Units)
                      /\ Extended(Append(s, Unit(c, "response")))
    OBVIOUS
  <2>1. /\ Append(s, Unit(c, "response")) \in Seq(Units)
        /\ Len(s) \in Nat
        /\ Len(Append(s, Unit(c, "response"))) = Len(s) + 1
        /\ \A k \in 1..Len(s) : Append(s, Unit(c, "response"))[k] = s[k]
        /\ Append(s, Unit(c, "response"))[Len(s) + 1] = Unit(c, "response")
    BY <1>5, PutLast
  <2>2. Unit(c, "response").id = c.id /\ Unit(c, "response").n = c.n
    BY DEF Unit
  <2> HIDE DEF c
  <2>3. \A k \in 1..(Len(s) + 1) : k \in 1..Len(s) \/ k = Len(s) + 1
    BY <2>1
  <2> QED
    BY <2>1, <2>2, <2>3
<1>7. ASSUME NEW d \in DataReads(c)
      PROVE  inPipe \o d \in Seq(Units) /\ Extended(inPipe \o d)
  <2>1. d \in Seq(Units) /\ \A k \in 1..Len(d) : d[k].id = c.id /\ d[k].n = c.n
    BY <1>2, <1>7, Answers
  <2>2. /\ inPipe \o d \in Seq(Units)
        /\ Len(inPipe \o d) = Len(inPipe) + Len(d)
        /\ \A k \in 1..(Len(inPipe) + Len(d)) :
             (inPipe \o d)[k] = IF k <= Len(inPipe) THEN inPipe[k]
                                                    ELSE d[k - Len(inPipe)]
    BY <1>1, <2>1, ConcatProperties
  <2>3. Len(inPipe) \in Nat /\ Len(d) \in Nat
    BY <1>1, <2>1, LenProperties
  <2>4. \A k \in 1..(Len(inPipe) + Len(d)) :
          k \in 1..Len(inPipe) \/ (k > Len(inPipe) /\ k - Len(inPipe) \in 1..Len(d))
    BY <2>3
  <2> HIDE DEF c
  <2> QED
    BY <2>1, <2>2, <2>3, <2>4
<1>8. Extended(inPipe)
  OBVIOUS
<1>9. outPipe' \in Seq(Containers) /\ Moved(outPipe')
  BY <1>2, <1>3, <1>4 DEF Camera
<1>10. inPipe' \in Seq(Units) /\ Extended(inPipe')
  <2>1. \/ inPipe' = inPipe
        \/ inPipe' = Append(inPipe, Unit(c, "response"))
        \/ \E d \in DataReads(c) :
             inPipe' = Append(inPipe \o d, Unit(c, "response"))
    BY DEF Camera
  <2>2. CASE inPipe' = inPipe
    BY <1>1, <1>8, <2>2
  <2>3. CASE inPipe' = Append(inPipe, Unit(c, "response"))
    BY <1>1, <1>6, <1>8, <2>3
  <2>4. CASE \E d \in DataReads(c) :
               inPipe' = Append(inPipe \o d, Unit(c, "response"))
    <3>1. PICK d \in DataReads(c) :
                 inPipe' = Append(inPipe \o d, Unit(c, "response"))
      BY <2>4
    <3>2. inPipe \o d \in Seq(Units) /\ Extended(inPipe \o d)
      BY <1>7
    <3> HIDE DEF Extended
    <3> QED
      BY <1>6, <3>1, <3>2
  <2> HIDE DEF Extended
  <2> QED
    BY <2>1, <2>2, <2>3, <2>4
<1>11. UNCHANGED executed \/ (Execute(c) /\ c.kind # "data")
  BY DEF Camera
<1>12. UNCHANGED <<hostVars, boundVars>>
  BY DEF Camera
<1> QED
  BY <1>1, <1>2, <1>9, <1>10, <1>11, <1>12

-----------------------------------------------------------------------------
(* Types.                                                                  *)

\* The initial state has its types.
LEMMA TypeInit == Init => TypeOK
<1> SUFFICES ASSUME Init PROVE TypeOK
  OBVIOUS
<1>1. IdSpace - 1 \in 0..(IdSpace - 1) /\ 0 \in 0..MaxTransactions
  BY IdAssumption, LengthAssumption
<1>2. <<>> \in Seq(Containers) /\ <<>> \in Seq(Units)
  BY EmptySeq
<1> QED
  BY <1>1, <1>2 DEF Init, TypeOK, HostPlaces, Directions, PTP_RETRY_COUNT

\* A container that the host sends is one, of the transaction under way.
LEMMA ArrivesType ==
  ASSUME TypeOK, Progress, host # "idle", NEW k, k \in {"none", "out", "in", "data"},
         Arrives(k)
  PROVE  /\ outPipe' \in Seq(Containers)
         /\ Len(outPipe) \in Nat /\ Len(outPipe') = Len(outPipe) + 1
         /\ \A j \in 1..Len(outPipe) : outPipe'[j] = outPipe[j]
         /\ outPipe'[Len(outPipe) + 1] =
              [kind |-> k, id |-> transaction_id, n |-> count]
<1>1. count \in Transactions
  BY LengthAssumption DEF TypeOK, Progress, Transactions
<1>2. [kind |-> k, id |-> transaction_id, n |-> count] \in Containers
  BY <1>1 DEF Containers, TypeOK
<1>3. outPipe \in Seq(Containers)
  BY DEF TypeOK
<1> QED
  BY <1>2, <1>3, PutLast DEF Arrives

\* What the host can read is a unit, and reading it leaves units.
LEMMA ReadType ==
  ASSUME TypeOK, inPipe # <<>>
  PROVE  /\ Head(inPipe) \in Units /\ Head(inPipe) = inPipe[1]
         /\ 1 \in 1..Len(inPipe) /\ Tail(inPipe) \in Seq(Units)
         /\ \A k \in 1..Len(Tail(inPipe)) :
              Tail(inPipe)[k] = inPipe[k + 1] /\ k + 1 \in 1..Len(inPipe)
<1>1. inPipe \in Seq(Units)
  BY DEF TypeOK
<1>2. 2..Len(inPipe) \subseteq 1..Len(inPipe)
  OBVIOUS
<1> QED
  BY <1>1, <1>2, TakeFirst

\* A container read is refused with an error.
LEMMA CheckResult ==
  ASSUME NEW u, NEW kinds
  PROVE  Check(u, kinds) \in {"OK", "DATA_LEN", "TRANSACTION_ID", "CONTAINER_TYPE"}
BY DEF Check

\* Each step keeps every variable in its range.
LEMMA TypeStep == TypeOK /\ Progress /\ [Next]_vars => TypeOK'
<1> SUFFICES ASSUME TypeOK, Progress, [Next]_vars PROVE TypeOK'
  OBVIOUS
<1> USE DEF HostPlaces, Directions, Errors, PTP_RETRY_COUNT
<1>1. ASSUME NEW d \in Directions, Begin(d) PROVE TypeOK'
  <2>1. transaction_id' \in 0..(IdSpace - 1)
    BY <1>1, IdAssumption DEF Begin, TypeOK
  <2>2. count' \in 0..MaxTransactions /\ 0 \in 0..MaxTransactions
    BY <1>1, LengthAssumption DEF Begin, TypeOK
  <2> QED
    BY <1>1, <2>1, <2>2 DEF Begin, TypeOK
<1>2. ASSUME NEW k \in {"none", "out", "in", "data"},
             NEW next \in {"data_out", "data_in", "response"},
             host \in {"command", "data_out"}, Send(k, next), UNCHANGED sendVars
      PROVE  TypeOK'
  <2>1. CASE Stall
    BY <1>2, <2>1 DEF Stall, sendVars, TypeOK, Return, Progress
  <2>2. ASSUME Arrives(k) PROVE outPipe' \in Seq(Containers)
    BY <1>2, <2>2, ArrivesType
  <2>3. CASE SendFails(k)
    BY <1>2, <2>2, <2>3 DEF SendFails, Fault, Return, sendVars, TypeOK
  <2>4. CASE Sent(k, next)
    BY <1>2, <2>2, <2>4 DEF Sent, NoFault, sendVars, TypeOK
  <2> QED
    BY <1>2, <2>1, <2>3, <2>4 DEF Send
<1>3. CASE SendCommand
  <2>1. AfterCommand \in {"data_out", "data_in", "response"}
    BY DEF AfterCommand, TypeOK
  <2>2. data \in {"none", "out", "in", "data"}
    BY DEF TypeOK
  <2> QED
    BY <1>2, <1>3, <2>1, <2>2 DEF SendCommand
<1>4. CASE SendData
  BY <1>2, <1>4 DEF SendData
<1>5. CASE SkipEmpty
  BY <1>5, ReadType DEF SkipEmpty, TypeOK
<1>6. CASE ReadFails
  <2>1. inPipe' \in Seq(Units)
    BY <1>6, ReadType DEF ReadFails, TypeOK
  <2> QED
    BY <1>6, <2>1 DEF ReadFails, Fault, Return, TypeOK
<1>7. CASE RecvData
  <2>1. inPipe' \in Seq(Units) /\ Head(inPipe).n \in 0..MaxTransactions
    BY <1>7, ReadType DEF RecvData, Readable, Units, Transactions
  <2> QED
    BY <1>7, <2>1, CheckResult
       DEF RecvData, Return, Fault, NoFault, TypeOK
<1>8. CASE RecvRest
  BY <1>8, ReadType DEF RecvRest, Return, TypeOK
<1>9. CASE RecvResponse
  <2>1. inPipe' \in Seq(Units) /\ Head(inPipe).n \in 0..MaxTransactions
    BY <1>9, ReadType DEF RecvResponse, Readable, Units, Transactions
  <2> QED
    BY <1>9, <2>1, CheckResult DEF RecvResponse, Return, TypeOK
<1>10. CASE Camera
  <2>1. executed' \in [Transactions -> Nat]
    <3>1. outPipe[1].n \in Transactions
      BY <1>10, CameraMoves DEF Containers
    <3>2. executed \in [Transactions -> Nat]
      BY DEF TypeOK
    <3>3. executed' = executed \/ Execute(outPipe[1])
      BY <1>10, CameraMoves
    <3>4. CASE Execute(outPipe[1])
      BY <3>1, <3>2, <3>4 DEF Execute
    <3> QED
      BY <3>2, <3>3, <3>4
  <2>2. outPipe' \in Seq(Containers) /\ inPipe' \in Seq(Units)
    BY <1>10, CameraMoves
  <2>3. UNCHANGED <<hostVars, boundVars>>
    BY <1>10, CameraMoves
  <2> QED
    BY <2>1, <2>2, <2>3 DEF TypeOK
<1>11. CASE UNCHANGED vars
  BY <1>11 DEF TypeOK
<1> QED
  BY <1>1, <1>3, <1>4, <1>5, <1>6, <1>7, <1>8, <1>9, <1>10, <1>11
     DEF Next, HostStep, Finished

-----------------------------------------------------------------------------
(* The invariant.                                                          *)

\* The initial state satisfies the strengthened invariant.
LEMMA InvInit == Init => Inv
<1> SUFFICES ASSUME Init PROVE Inv
  OBVIOUS
<1>1. TypeOK
  BY TypeInit
<1>2. Len(outPipe) = 0 /\ Len(inPipe) = 0 /\ 1..0 = {}
  BY DEF Init
<1>3. \A n \in Transactions : executed[n] = 0
  BY DEF Init
<1> QED
  BY <1>1, <1>2, <1>3 DEF Init, Inv, IdsAgree, Progress, OwnAnswer, BufferOwned,
     Succeeded, SentOnce, ExecutedOnce

\* A container read that passes the checks is of this transaction, and of a kind
\* asked for: stale containers carry another id.
LEMMA CheckedIsOwn ==
  ASSUME TypeOK, IdsAgree, Progress, host # "idle", inPipe # <<>>,
         NEW kinds, Check(Head(inPipe), kinds) = "OK"
  PROVE  Head(inPipe).n = count /\ Head(inPipe).kind \in kinds
<1>1. Head(inPipe) \in Units /\ Head(inPipe) = inPipe[1] /\ 1 \in 1..Len(inPipe)
  BY ReadType
<1>2. Head(inPipe).id = transaction_id /\ Head(inPipe).kind \in kinds
  BY DEF Check
<1>3. transaction_id = count - 1 /\ count \in Nat
  BY DEF IdsAgree, Progress, TypeOK
<1>4. Head(inPipe).id = Head(inPipe).n - 1 /\ Head(inPipe).n \in Nat
  BY <1>1 DEF IdsAgree, Units, Transactions
<1> QED
  BY <1>2, <1>3, <1>4

\* Ids and transactions keep agreeing.
LEMMA IdsStep == TypeOK /\ IdsAgree /\ Progress /\ [Next]_vars => IdsAgree'
<1> SUFFICES ASSUME TypeOK, IdsAgree, Progress, [Next]_vars PROVE IdsAgree'
  OBVIOUS
<1>1. ASSUME NEW d \in Directions, Begin(d) PROVE IdsAgree'
  <2>1. transaction_id' = count /\ count' = count + 1 /\ count \in Nat
    BY <1>1, NextId DEF Begin, TypeOK
  <2> QED
    BY <1>1, <2>1 DEF Begin, IdsAgree
<1>2. ASSUME NEW k \in {"none", "out", "in", "data"}, NEW next,
             host # "idle", Send(k, next), UNCHANGED sendVars
      PROVE  IdsAgree'
  <2>1. CASE UNCHANGED outPipe
    BY <1>2, <2>1 DEF sendVars, IdsAgree
  <2>2. CASE Arrives(k)
    <3>1. \A j \in 1..Len(outPipe') :
            \/ j \in 1..Len(outPipe) /\ outPipe'[j] = outPipe[j]
            \/ outPipe'[j] = [kind |-> k, id |-> transaction_id, n |-> count]
      <4>1. /\ Len(outPipe) \in Nat /\ Len(outPipe') = Len(outPipe) + 1
            /\ \A j \in 1..Len(outPipe) : outPipe'[j] = outPipe[j]
            /\ outPipe'[Len(outPipe) + 1] =
                 [kind |-> k, id |-> transaction_id, n |-> count]
        BY <1>2, <2>2, ArrivesType
      <4>2. \A j \in 1..Len(outPipe') : j \in 1..Len(outPipe) \/ j = Len(outPipe) + 1
        BY <4>1
      <4> QED
        BY <4>1, <4>2
    <3>2. transaction_id = count - 1
      BY <1>2 DEF IdsAgree, Progress, TypeOK
    <3> QED
      BY <1>2, <3>1, <3>2 DEF sendVars, IdsAgree
  <2> QED
    BY <1>2, <2>1, <2>2 DEF Send, Stall, SendFails, Sent
<1>3. CASE SendCommand
  <2>1. data \in {"none", "out", "in", "data"}
    BY DEF TypeOK, Directions
  <2> QED
    BY <1>2, <1>3, <2>1 DEF SendCommand
<1>4. CASE SendData
  BY <1>2, <1>4 DEF SendData
<1>5. ASSUME UNCHANGED <<transaction_id, count, outPipe>>,
             inPipe' = inPipe \/ (inPipe # <<>> /\ inPipe' = Tail(inPipe))
      PROVE  IdsAgree'
  <2>1. \A k \in 1..Len(inPipe') :
          \E j \in 1..Len(inPipe) : inPipe'[k] = inPipe[j]
    <3>1. CASE inPipe' = inPipe
      BY <3>1
    <3>2. CASE inPipe # <<>> /\ inPipe' = Tail(inPipe)
      BY <3>2, ReadType
    <3> QED
      BY <1>5, <3>1, <3>2
  <2> QED
    BY <1>5, <2>1 DEF IdsAgree
<1>6. CASE SkipEmpty
  BY <1>5, <1>6 DEF SkipEmpty
<1>7. CASE ReadFails
  BY <1>5, <1>7 DEF ReadFails
<1>8. CASE RecvData
  BY <1>5, <1>8 DEF RecvData, Readable
<1>9. CASE RecvRest
  BY <1>5, <1>9 DEF RecvRest
<1>10. CASE RecvResponse
  BY <1>5, <1>10 DEF RecvResponse, Readable
<1>11. CASE Camera
  <2>1. \A k \in 1..Len(outPipe') : outPipe'[k].id = outPipe'[k].n - 1
    <3>1. PICK j \in {1, 2} : \A k \in 1..Len(outPipe') :
                 k + j \in 2..Len(outPipe) /\ outPipe'[k] = outPipe[k + j]
      BY <1>11, CameraMoves
    <3>2. 2..Len(outPipe) \subseteq 1..Len(outPipe)
      OBVIOUS
    <3> QED
      BY <3>1, <3>2 DEF IdsAgree
  <2>2. \A k \in 1..Len(inPipe') : inPipe'[k].id = inPipe'[k].n - 1
    <3>1. outPipe[1].id = outPipe[1].n - 1
      BY <1>11, CameraMoves DEF IdsAgree
    <3>2. \A k \in 1..Len(inPipe') :
            \/ k \in 1..Len(inPipe) /\ inPipe'[k] = inPipe[k]
            \/ inPipe'[k].id = outPipe[1].id /\ inPipe'[k].n = outPipe[1].n
      BY <1>11, CameraMoves
    <3> QED
      BY <3>1, <3>2 DEF IdsAgree
  <2> QED
    BY <1>11, <2>1, <2>2, CameraMoves DEF IdsAgree
<1>12. CASE UNCHANGED vars
  BY <1>12 DEF IdsAgree
<1> QED
  BY <1>1, <1>3, <1>4, <1>6, <1>7, <1>8, <1>9, <1>10, <1>11, <1>12
     DEF Next, HostStep, Finished

\* What the host holds at each place, and what it hands out.
LEMMA HostStepKeeps ==
  TypeOK /\ IdsAgree /\ Progress /\ OwnAnswer /\ BufferOwned /\ [Next]_vars
    => Progress' /\ OwnAnswer' /\ BufferOwned'
<1> SUFFICES ASSUME TypeOK, IdsAgree, Progress, OwnAnswer, BufferOwned,
                    [Next]_vars
             PROVE  Progress' /\ OwnAnswer' /\ BufferOwned'
  OBVIOUS
<1> USE DEF HostPlaces, Directions, Errors, PTP_RETRY_COUNT, Progress,
            OwnAnswer, BufferOwned, Succeeded, TypeOK
<1>1. ASSUME NEW d \in Directions, Begin(d)
      PROVE  Progress' /\ OwnAnswer' /\ BufferOwned'
  BY <1>1 DEF Begin
<1>2. CASE SendCommand
  BY <1>2 DEF SendCommand, Send, Stall, SendFails, Sent, Return, sendVars,
     AfterCommand
<1>3. CASE SendData
  BY <1>3 DEF SendData, Send, Stall, SendFails, Sent, Return, sendVars
<1>4. CASE SkipEmpty
  BY <1>4 DEF SkipEmpty
<1>5. CASE ReadFails
  BY <1>5 DEF ReadFails, Return
<1>6. CASE RecvData
  <2>1. \/ Return(Check(Head(inPipe), {"data", "long"}))
           /\ Check(Head(inPipe), {"data", "long"}) # "OK"
           /\ UNCHANGED <<buffer, answer>>
        \/ Return("MEMORY") /\ UNCHANGED <<buffer, answer>>
        \/ /\ Check(Head(inPipe), {"data", "long"}) = "OK"
           /\ buffer' = "held"
           /\ answer' = [answer EXCEPT !.data = Head(inPipe).n]
           /\ host' \in {"data_rest", "response"}
           /\ UNCHANGED result
    BY <1>6 DEF RecvData
  <2>2. Check(Head(inPipe), {"data", "long"}) = "OK" => Head(inPipe).n = count
    BY <1>6, CheckedIsOwn DEF RecvData, Readable
  <2> QED
    BY <1>6, <2>1, <2>2 DEF RecvData, Return
<1>7. CASE RecvRest
  BY <1>7 DEF RecvRest, Return
<1>8. CASE RecvResponse
  <2>1. Check(Head(inPipe), {"response"}) = "OK" => Head(inPipe).n = count
    BY <1>8, CheckedIsOwn DEF RecvResponse, Readable
  <2> QED
    BY <1>8, <2>1 DEF RecvResponse, Return
<1>9. CASE Camera
  <2>1. UNCHANGED <<hostVars, boundVars>>
    BY <1>9, CameraMoves
  <2> QED
    BY <2>1
<1>10. CASE UNCHANGED vars
  BY <1>10
<1> QED
  BY <1>1, <1>2, <1>3, <1>4, <1>5, <1>6, <1>7, <1>8, <1>9, <1>10
     DEF Next, HostStep, Finished

\* The containers in the OUT pipe are of transactions.
LEMMA Numbered ==
  TypeOK => \A k \in 1..Len(outPipe) : outPipe[k].n \in Transactions
<1> SUFFICES ASSUME TypeOK, NEW k \in 1..Len(outPipe)
             PROVE  outPipe[k].n \in Transactions
  OBVIOUS
<1>1. outPipe \in Seq(Containers)
  BY DEF TypeOK
<1>2. outPipe[k] \in Containers
  BY <1>1, ElementOfSeq
<1> QED
  BY <1>2 DEF Containers

\* No command is in the pipe twice, nor after it was carried out.
LEMMA SentStep ==
  TypeOK /\ Progress /\ SentOnce /\ [Next]_vars => SentOnce'
<1> SUFFICES ASSUME TypeOK, Progress, SentOnce, [Next]_vars PROVE SentOnce'
  OBVIOUS
<1> USE DEF ExecutedOnce
<1>1. ASSUME NEW d \in Directions, Begin(d) PROVE SentOnce'
  <2>1. count' = count + 1 /\ count \in Nat /\ count' \in Transactions
    BY <1>1, LengthAssumption DEF Begin, TypeOK, Transactions
  <2>2. outPipe' = outPipe /\ executed' = executed /\ host' = "command"
    BY <1>1 DEF Begin
  <2>3. \A k \in 1..Len(outPipe) : outPipe[k].n \in Nat
    BY Numbered DEF Transactions
  <2> QED
    BY <2>1, <2>2, <2>3 DEF SentOnce, Transactions
<1>2. ASSUME NEW k \in {"none", "out", "in", "data"}, NEW next,
             next # "command", next # "idle",
             \/ host = "command"
             \/ host = "data_out" /\ k = "data",
             Send(k, next), UNCHANGED sendVars
      PROVE  SentOnce'
  <2>1. count' = count /\ executed' = executed
    BY <1>2 DEF sendVars
  <2>2. CASE UNCHANGED outPipe /\ host' \in {host, "idle"}
    BY <1>2, <2>1, <2>2 DEF SentOnce
  <2>3. CASE Arrives(k) /\ host' # "command"
    <3> DEFINE c == [kind |-> k, id |-> transaction_id, n |-> count]
    <3>1. /\ Len(outPipe) \in Nat /\ Len(outPipe') = Len(outPipe) + 1
          /\ \A j \in 1..Len(outPipe) : outPipe'[j] = outPipe[j]
          /\ outPipe'[Len(outPipe) + 1] = c
      BY <1>2, <2>3, ArrivesType
    <3>2. \A j \in 1..Len(outPipe') : j \in 1..Len(outPipe) \/ j = Len(outPipe) + 1
      BY <3>1
    <3>3. \A j \in 1..Len(outPipe') :
            \/ j \in 1..Len(outPipe) /\ outPipe'[j] = outPipe[j]
            \/ j = Len(outPipe) + 1 /\ outPipe'[j] = c
      BY <3>1, <3>2
    <3>4. c.n = count /\ c.kind = k
      OBVIOUS
    <3>5. count \in Transactions /\ count \in Nat
      BY <1>2, LengthAssumption DEF Progress, TypeOK, Transactions
    <3> HIDE DEF c
    <3>6. \A j \in 1..Len(outPipe') : outPipe'[j].n <= count
      BY <3>3, <3>4, <3>5 DEF SentOnce
    <3>7. \A j \in 1..Len(outPipe') :
            outPipe'[j].kind # "data" => executed[outPipe'[j].n] = 0
      BY <1>2, <3>3, <3>4 DEF SentOnce
    <3>8. \A i, j \in 1..Len(outPipe') :
            i # j /\ outPipe'[i].kind # "data" /\ outPipe'[j].kind # "data" =>
              outPipe'[i].n # outPipe'[j].n
      <4>1. CASE k = "data"
        BY <3>3, <3>4, <4>1 DEF SentOnce
      <4>2. CASE k # "data"
        <5>1. \A j \in 1..Len(outPipe) : outPipe[j].n < count
          BY <1>2, <4>2 DEF SentOnce
        <5>2. \A j \in 1..Len(outPipe) : outPipe[j].n \in Nat
          BY Numbered DEF Transactions
        <5> QED
          BY <3>3, <3>4, <3>5, <5>1, <5>2 DEF SentOnce
      <4> QED
        BY <4>1, <4>2
    <3> QED
      BY <2>1, <2>3, <3>6, <3>7, <3>8 DEF SentOnce
  <2> QED
    BY <1>2, <2>2, <2>3 DEF Send, Stall, SendFails, Sent, Return
<1>3. CASE SendCommand
  <2>1. data \in {"none", "out", "in", "data"}
    BY DEF TypeOK, Directions
  <2>2. AfterCommand # "command" /\ AfterCommand # "idle"
    BY DEF TypeOK, Directions, AfterCommand
  <2> QED
    BY <1>2, <1>3, <2>1, <2>2 DEF SendCommand
<1>4. CASE SendData
  BY <1>2, <1>4 DEF SendData
<1>5. ASSUME UNCHANGED <<count, outPipe, executed>>, host # "command",
             host' # "command"
      PROVE  SentOnce'
  BY <1>5 DEF SentOnce
<1>6. CASE SkipEmpty
  BY <1>5, <1>6 DEF SkipEmpty
<1>7. CASE ReadFails
  BY <1>5, <1>7 DEF ReadFails, Return
<1>8. CASE RecvData
  BY <1>5, <1>8 DEF RecvData, Return
<1>9. CASE RecvRest
  BY <1>5, <1>9 DEF RecvRest, Return
<1>10. CASE RecvResponse
  BY <1>5, <1>10 DEF RecvResponse, Return
<1>11. CASE Camera
  <2>1. PICK j \in {1, 2} : \A k \in 1..Len(outPipe') :
               k + j \in 2..Len(outPipe) /\ outPipe'[k] = outPipe[k + j]
    BY <1>11, CameraMoves
  <2>2. 1 \in 1..Len(outPipe) /\ outPipe[1].n \in Transactions
        /\ count' = count /\ host' = host
    BY <1>11, CameraMoves DEF Containers
  <2>3. \A k \in 1..Len(outPipe') :
          k + j \in 1..Len(outPipe) /\ k + j # 1 /\ outPipe'[k] = outPipe[k + j]
    BY <2>1
  <2>4. \A k, m \in 1..Len(outPipe') : k # m => k + j # m + j
    BY <2>1
  <2>5. \A k, m \in 1..Len(outPipe') :
          k # m /\ outPipe'[k].kind # "data" /\ outPipe'[m].kind # "data" =>
            outPipe'[k].n # outPipe'[m].n
    <3> SUFFICES ASSUME NEW k \in 1..Len(outPipe'), NEW m \in 1..Len(outPipe'),
                        k # m, outPipe'[k].kind # "data", outPipe'[m].kind # "data"
                 PROVE  outPipe'[k].n # outPipe'[m].n
      OBVIOUS
    <3> DEFINE a == k + j
               b == m + j
    <3>1. /\ a \in 1..Len(outPipe) /\ b \in 1..Len(outPipe) /\ a # b
          /\ outPipe'[k] = outPipe[a] /\ outPipe'[m] = outPipe[b]
      BY <2>3, <2>4
    <3> HIDE DEF a, b
    <3> QED
      BY <3>1 DEF SentOnce
  <2>6. \A k \in 1..Len(outPipe') :
          outPipe'[k].n <= count /\ (host = "command" => outPipe'[k].n < count)
    BY <2>3 DEF SentOnce
  <2>7. CASE UNCHANGED executed
    <3>1. \A k \in 1..Len(outPipe') :
            outPipe'[k].kind # "data" => executed'[outPipe'[k].n] = 0
      BY <2>3, <2>7 DEF SentOnce
    <3>2. /\ \A n \in Transactions : n > count => executed'[n] = 0
          /\ host = "command" => executed'[count] = 0
          /\ ExecutedOnce'
      BY <2>7 DEF SentOnce
    <3> QED
      BY <2>2, <2>5, <2>6, <3>1, <3>2 DEF SentOnce
  <2>8. CASE Execute(outPipe[1]) /\ outPipe[1].kind # "data"
    <3>1. executed[outPipe[1].n] = 0
      BY <2>2, <2>8 DEF SentOnce
    <3>2. /\ executed'[outPipe[1].n] = 1
          /\ \A n \in Transactions : n # outPipe[1].n => executed'[n] = executed[n]
      BY <2>2, <2>8, <3>1 DEF Execute, TypeOK
    <3>3. \A k \in 1..Len(outPipe') :
            outPipe'[k].kind # "data" => /\ outPipe'[k].n # outPipe[1].n
                                         /\ outPipe'[k].n \in Transactions
      <4>1. \A k \in 1..Len(outPipe) : outPipe[k].n \in Transactions
        BY Numbered
      <4> QED
        BY <2>2, <2>3, <2>8, <4>1 DEF SentOnce
    <3>4. \A k \in 1..Len(outPipe') :
            outPipe'[k].kind # "data" => executed'[outPipe'[k].n] = 0
      BY <2>3, <3>2, <3>3 DEF SentOnce
    <3>5. ExecutedOnce'
      BY <3>2 DEF SentOnce
    <3>6. \A n \in Transactions : n > count => executed'[n] = 0
      BY <2>2, <3>2 DEF SentOnce, Transactions, TypeOK
    <3>7. host = "command" => executed'[count] = 0
      <4> SUFFICES ASSUME host = "command" PROVE executed'[count] = 0
        OBVIOUS
      <4>1. count \in Transactions /\ outPipe[1].n < count
        BY <2>2, LengthAssumption DEF SentOnce, Progress, TypeOK, Transactions
      <4>2. outPipe[1].n # count
        BY <2>2, <4>1 DEF Transactions
      <4> QED
        BY <3>2, <4>1, <4>2 DEF SentOnce
    <3> QED
      BY <2>2, <2>5, <2>6, <3>4, <3>5, <3>6, <3>7 DEF SentOnce
  <2> QED
    BY <1>11, <2>7, <2>8, CameraMoves
<1>12. CASE UNCHANGED vars
  BY <1>12 DEF SentOnce
<1> QED
  BY <1>1, <1>3, <1>4, <1>6, <1>7, <1>8, <1>9, <1>10, <1>11, <1>12
     DEF Next, HostStep, Finished

\* The strengthened invariant is inductive ...
LEMMA InvStep == Inv /\ [Next]_vars => Inv'
BY TypeStep, IdsStep, HostStepKeeps, SentStep DEF Inv

\* ... and so holds in every state of every execution.
THEOREM InvHolds == Spec => []Inv
BY InvInit, InvStep, PTL DEF Spec

\* The variables keep their types.
THEOREM TypeCorrect == Spec => []TypeOK
<1>1. Inv => TypeOK
  BY DEF Inv
<1> QED
  BY <1>1, InvHolds, PTL

\* A successful ptp_transact returns the camera's answer to its own command,
\* however many transactions and failures went before.
THEOREM OwnAnswerHolds == Spec => []OwnAnswer
<1>1. Inv => OwnAnswer
  BY DEF Inv
<1> QED
  BY <1>1, InvHolds, PTL

\* The data read is the caller's after a success and freed otherwise.
THEOREM BufferOwnedHolds == Spec => []BufferOwned
<1>1. Inv => BufferOwned
  BY DEF Inv
<1> QED
  BY <1>1, InvHolds, PTL

\* The camera carries out no command twice: a retry sends only what it has not
\* seen.
THEOREM ExecutedOnceHolds == Spec => []ExecutedOnce
<1>1. Inv => ExecutedOnce
  BY DEF Inv, SentOnce
<1> QED
  BY <1>1, InvHolds, PTL

-----------------------------------------------------------------------------
(* The shape of the pipes.                                                 *)

\* What a camera step does to the pipes: j containers are taken off the OUT pipe,
\* an answer of some shape is put behind what is in the IN pipe, and which
\* command gets which.
TakenOff(j) ==
  /\ Len(outPipe) \in Nat /\ Len(outPipe) >= j
  /\ Len(outPipe') = Len(outPipe) - j
  /\ \A k \in 1..Len(outPipe') : outPipe'[k] = outPipe[k + j]

PutBehind(ans) ==
  /\ Len(inPipe) \in Nat /\ Len(inPipe') = Len(inPipe) + Len(ans)
  /\ \A k \in 1..Len(inPipe) : inPipe'[k] = inPipe[k]
  /\ \A k \in 1..Len(ans) : /\ inPipe'[Len(inPipe) + k].kind = ans[k]
                            /\ inPipe'[Len(inPipe) + k].n = outPipe[1].n

AnswerTo(j, ans) ==
  \/ /\ ans = <<>> /\ j = 1 /\ outPipe[1].kind = "out"
     /\ Len(outPipe) > 1 /\ outPipe[2].kind # "data"
  \/ ans \in AnswerShapes /\ j = 1 /\ outPipe[1].kind = "in"
  \/ ans = <<"response">> /\ j = 1 /\ outPipe[1].kind = "none"
  \/ /\ ans = <<"response">> /\ j = 2 /\ outPipe[1].kind = "out"
     /\ Len(outPipe) > 1 /\ outPipe[2].kind = "data"

\* A camera step forgets a command whose data never came, or takes a command,
\* with its data if it has any, off the OUT pipe and puts an answer of one of the
\* shapes behind what is in the IN pipe.
LEMMA CameraAnswers ==
  ASSUME TypeOK, Camera
  PROVE  \E j \in {1, 2}, ans \in AnswerShapes \cup {<<>>} :
           TakenOff(j) /\ PutBehind(ans) /\ AnswerTo(j, ans)
<1> DEFINE c == Head(outPipe)
<1>1. outPipe \in Seq(Containers) /\ inPipe \in Seq(Units) /\ outPipe # <<>>
  BY DEF TypeOK, Camera
<1>2. /\ c \in Containers /\ c = outPipe[1]
      /\ Tail(outPipe) \in Seq(Containers)
      /\ Len(outPipe) \in Nat /\ Len(Tail(outPipe)) = Len(outPipe) - 1
      /\ \A k \in 1..Len(Tail(outPipe)) : Tail(outPipe)[k] = outPipe[k + 1]
      /\ Len(outPipe) >= 1
  BY <1>1, TakeFirst
<1>3. ASSUME Len(outPipe) > 1
      PROVE  /\ Len(Tail(Tail(outPipe))) = Len(outPipe) - 2
             /\ \A k \in 1..Len(Tail(Tail(outPipe))) :
                  Tail(Tail(outPipe))[k] = outPipe[k + 2]
  <2>1. Tail(outPipe) # <<>>
    <3>1. Len(Tail(outPipe)) # 0
      BY <1>2, <1>3
    <3> QED
      BY <3>1, EmptySeq
  <2>2. /\ Len(Tail(Tail(outPipe))) = Len(Tail(outPipe)) - 1
        /\ \A k \in 1..Len(Tail(Tail(outPipe))) :
             /\ Tail(Tail(outPipe))[k] = Tail(outPipe)[k + 1]
             /\ k + 1 \in 2..Len(Tail(outPipe))
    BY <1>2, <2>1, TakeFirst
  <2> QED
    BY <1>2, <2>2
<1>4. /\ \A k : Unit(c, k).kind = k /\ Unit(c, k).n = outPipe[1].n
      /\ \A k \in Kinds : Unit(c, k) \in Units
  BY <1>2 DEF Unit, Units, Containers
<1>k. {"data", "long", "rest", "zlp", "response"} = Kinds
  BY DEF Kinds
<1>5. UNCHANGED inPipe => PutBehind(<<>>)
  BY <1>1, LenProperties DEF PutBehind
<1> DEFINE r == Unit(c, "response")
<1>6. ASSUME NEW s \in Seq(Units)
      PROVE  /\ Append(s, r) \in Seq(Units) /\ Len(Append(s, r)) = Len(s) + 1
             /\ Len(s) \in Nat
             /\ \A k \in 1..Len(s) : Append(s, r)[k] = s[k]
             /\ Append(s, r)[Len(s) + 1] = r
  BY <1>4, <1>k, PutLast
<1>7. inPipe' = Append(inPipe, r) => PutBehind(<<"response">>)
  BY <1>1, <1>4, <1>6 DEF PutBehind
<1>8. ASSUME NEW d \in DataReads(c), inPipe' = Append(inPipe \o d, r)
      PROVE  \E ans \in AnswerShapes : PutBehind(ans)
  <2>1. d \in Seq(Units)
    BY <1>2, Answers
  <2>2. /\ inPipe \o d \in Seq(Units)
        /\ Len(inPipe \o d) = Len(inPipe) + Len(d)
        /\ \A k \in 1..(Len(inPipe) + Len(d)) :
             (inPipe \o d)[k] = IF k <= Len(inPipe) THEN inPipe[k]
                                                    ELSE d[k - Len(inPipe)]
        /\ Len(inPipe) \in Nat /\ Len(d) \in Nat
    BY <1>1, <2>1, ConcatProperties, LenProperties
  <2>3. /\ Len(inPipe') = Len(inPipe) + Len(d) + 1
        /\ \A k \in 1..Len(inPipe) : inPipe'[k] = inPipe[k]
        /\ \A k \in 1..Len(d) : inPipe'[Len(inPipe) + k] = d[k]
        /\ inPipe'[Len(inPipe) + Len(d) + 1] = r
    <3>1. /\ Len(inPipe') = Len(inPipe) + Len(d) + 1
          /\ \A k \in 1..(Len(inPipe) + Len(d)) : inPipe'[k] = (inPipe \o d)[k]
          /\ inPipe'[Len(inPipe) + Len(d) + 1] = r
      BY <1>6, <1>8, <2>2
    <3>2. \A k \in 1..Len(inPipe) : k \in 1..(Len(inPipe) + Len(d)) /\ k <= Len(inPipe)
      BY <2>2
    <3>3. \A k \in 1..Len(d) : /\ Len(inPipe) + k \in 1..(Len(inPipe) + Len(d))
                               /\ ~(Len(inPipe) + k <= Len(inPipe))
                               /\ Len(inPipe) + k - Len(inPipe) = k
      BY <2>2
    <3>4. ASSUME NEW k \in 1..Len(inPipe) PROVE inPipe'[k] = inPipe[k]
      BY <2>2, <3>1, <3>2
    <3>5. ASSUME NEW k \in 1..Len(d) PROVE inPipe'[Len(inPipe) + k] = d[k]
      <4> DEFINE i == Len(inPipe) + k
      <4>1. i \in 1..(Len(inPipe) + Len(d)) /\ ~(i <= Len(inPipe)) /\ i - Len(inPipe) = k
        BY <3>3
      <4> HIDE DEF i
      <4>2. inPipe'[i] = (inPipe \o d)[i] /\ (inPipe \o d)[i] = d[i - Len(inPipe)]
        BY <2>2, <3>1, <4>1
      <4>3. inPipe'[i] = d[k]
        BY <4>1, <4>2
      <4> QED
        BY <4>3 DEF i
    <3> QED
      BY <3>1, <3>4, <3>5
  <2>4. CASE d = <<Unit(c, "data")>>
    <3>1. Len(d) = 1 /\ d[1] = Unit(c, "data")
      BY <2>4
    <3>2. PutBehind(<<"data", "response">>)
      BY <1>4, <2>2, <2>3, <3>1 DEF PutBehind
    <3> QED
      BY <3>2 DEF AnswerShapes
  <2>5. CASE d = <<Unit(c, "data"), Unit(c, "zlp")>>
    <3>1. Len(d) = 2 /\ d[1] = Unit(c, "data") /\ d[2] = Unit(c, "zlp")
      BY <2>5
    <3>2. PutBehind(<<"data", "zlp", "response">>)
      BY <1>4, <2>2, <2>3, <3>1 DEF PutBehind
    <3> QED
      BY <3>2 DEF AnswerShapes
  <2>6. CASE d = <<Unit(c, "long"), Unit(c, "rest")>>
    <3>1. Len(d) = 2 /\ d[1] = Unit(c, "long") /\ d[2] = Unit(c, "rest")
      BY <2>6
    <3>2. PutBehind(<<"long", "rest", "response">>)
      BY <1>4, <2>2, <2>3, <3>1 DEF PutBehind
    <3> QED
      BY <3>2 DEF AnswerShapes
  <2>7. CASE d = <<Unit(c, "long"), Unit(c, "rest"), Unit(c, "zlp")>>
    <3>1. /\ Len(d) = 3 /\ d[1] = Unit(c, "long") /\ d[2] = Unit(c, "rest")
          /\ d[3] = Unit(c, "zlp")
      BY <2>7
    <3>2. /\ Len(inPipe') = Len(inPipe) + 4
          /\ inPipe'[Len(inPipe) + 1] = Unit(c, "long")
          /\ inPipe'[Len(inPipe) + 2] = Unit(c, "rest")
          /\ inPipe'[Len(inPipe) + 3] = Unit(c, "zlp")
          /\ inPipe'[Len(inPipe) + 4] = r
      BY <2>2, <2>3, <3>1
    <3>3. PutBehind(<<"long", "rest", "zlp", "response">>)
      BY <1>4, <2>2, <2>3, <3>2 DEF PutBehind
    <3> QED
      BY <3>3 DEF AnswerShapes
  <2> QED
    BY <1>8, <2>4, <2>5, <2>6, <2>7 DEF DataReads
<1>9. <<"response">> \in AnswerShapes
  BY DEF AnswerShapes
<1>10. CASE outPipe[1].kind = "none"
  <2>1. outPipe' = Tail(outPipe) /\ inPipe' = Append(inPipe, r)
    BY <1>2, <1>10 DEF Camera
  <2>2. PutBehind(<<"response">>)
    BY <1>7, <2>1
  <2> HIDE DEF r, c
  <2> USE <1>9
  <2> WITNESS 1 \in {1, 2}, <<"response">> \in AnswerShapes \cup {<<>>}
  <2> QED
    BY <1>2, <1>9, <1>10, <2>1, <2>2 DEF TakenOff, AnswerTo
<1>11. CASE outPipe[1].kind = "in"
  <2>1. /\ outPipe' = Tail(outPipe)
        /\ \/ inPipe' = Append(inPipe, r)
           \/ \E d \in DataReads(c) : inPipe' = Append(inPipe \o d, r)
    BY <1>2, <1>11 DEF Camera
  <2>2. PICK ans \in AnswerShapes : PutBehind(ans)
    <3> QED
      BY <1>7, <1>8, <1>9, <2>1
  <2> HIDE DEF r, c
  <2> WITNESS 1 \in {1, 2}, ans \in AnswerShapes \cup {<<>>}
  <2> QED
    BY <1>2, <1>11, <2>1, <2>2 DEF TakenOff, AnswerTo
<1>12. CASE outPipe[1].kind = "out" /\ Len(outPipe) > 1 /\ outPipe[2].kind = "data"
  <2>1. outPipe' = Tail(Tail(outPipe)) /\ inPipe' = Append(inPipe, r)
    BY <1>2, <1>12 DEF Camera
  <2>2. PutBehind(<<"response">>)
    BY <1>7, <2>1
  <2> HIDE DEF r, c
  <2> USE <1>9
  <2> WITNESS 2 \in {1, 2}, <<"response">> \in AnswerShapes \cup {<<>>}
  <2> QED
    BY <1>2, <1>3, <1>9, <1>12, <2>1, <2>2 DEF TakenOff, AnswerTo
<1>13. CASE outPipe[1].kind = "out" /\ Len(outPipe) > 1 /\ outPipe[2].kind # "data"
  <2>1. outPipe' = Tail(outPipe) /\ inPipe' = inPipe
    BY <1>2, <1>13 DEF Camera
  <2>2. PutBehind(<<>>)
    BY <1>5, <2>1
  <2> HIDE DEF r, c
  <2> WITNESS 1 \in {1, 2}, <<>> \in AnswerShapes \cup {<<>>}
  <2> QED
    BY <1>2, <1>13, <2>1, <2>2 DEF TakenOff, AnswerTo
<1> QED
  BY <1>2, <1>10, <1>11, <1>12, <1>13 DEF Camera

\* Every answer ends with a response, and holds no other.
LEMMA ShapeFacts ==
  ASSUME NEW ans \in AnswerShapes
  PROVE  /\ Len(ans) \in Nat /\ Len(ans) >= 1
         /\ ans[Len(ans)] = "response"
         /\ \A k \in 1..Len(ans) : ans[k] = "response" <=> k = Len(ans)
<1>1. CASE ans = <<"response">>
  BY <1>1
<1>2. CASE ans = <<"data", "response">>
  BY <1>2
<1>3. CASE ans = <<"data", "zlp", "response">>
  BY <1>3
<1>4. CASE ans = <<"long", "rest", "response">>
  BY <1>4
<1>5. CASE ans = <<"long", "rest", "zlp", "response">>
  BY <1>5
<1> QED
  BY <1>1, <1>2, <1>3, <1>4, <1>5 DEF AnswerShapes

\* The numbers of what is in the pipes, and their lengths.
LEMMA PipeNumbers ==
  ASSUME TypeOK
  PROVE  /\ Len(inPipe) \in Nat /\ Len(outPipe) \in Nat /\ count \in Nat
         /\ \A k \in 1..Len(inPipe) : inPipe[k].n \in Nat /\ inPipe[k].n > 0
         /\ \A k \in 1..Len(outPipe) : outPipe[k].n \in Nat /\ outPipe[k].n > 0
<1>1. inPipe \in Seq(Units) /\ outPipe \in Seq(Containers)
  BY DEF TypeOK
<1>2. \A k \in 1..Len(inPipe) : inPipe[k] \in Units
  BY <1>1, ElementOfSeq
<1>3. \A k \in 1..Len(outPipe) : outPipe[k] \in Containers
  BY <1>1, ElementOfSeq
<1>4. (\A n \in Transactions : n \in Nat /\ n > 0) /\ count \in Nat
  BY LengthAssumption DEF Transactions, TypeOK
<1>5. Len(inPipe) \in Nat /\ Len(outPipe) \in Nat
  BY <1>1, LenProperties
<1>6. /\ \A k \in 1..Len(inPipe) : inPipe[k].n \in Transactions
      /\ \A k \in 1..Len(outPipe) : outPipe[k].n \in Transactions
  BY <1>2, <1>3 DEF Units, Containers
<1> QED
  BY <1>4, <1>5, <1>6

\* A step of the host that reads takes at most the first unit off the IN pipe.
LEMMA HostReads ==
  ASSUME TypeOK, SkipEmpty \/ ReadFails \/ RecvData \/ RecvRest \/ RecvResponse
  PROVE  /\ UNCHANGED <<outPipe, executed, count, data, transaction_id>>
         /\ host \in {"data_in", "data_rest", "response"}
         /\ host' \in {"idle", "data_in", "data_rest", "response"}
         /\ \E j \in {0, 1} :
              /\ Len(inPipe) \in Nat
              /\ Len(inPipe') = Len(inPipe) - j
              /\ \A k \in 1..Len(inPipe') : /\ inPipe'[k] = inPipe[k + j]
                                            /\ k + j \in 1..Len(inPipe)
<1>1. /\ UNCHANGED <<outPipe, executed, count, data, transaction_id>>
      /\ host \in {"data_in", "data_rest", "response"}
      /\ host' \in {"idle", "data_in", "data_rest", "response"}
      /\ inPipe' = inPipe \/ (inPipe # <<>> /\ inPipe' = Tail(inPipe))
  BY DEF SkipEmpty, ReadFails, RecvData, RecvRest, RecvResponse, Return, Readable
<1>2. inPipe \in Seq(Units) /\ Len(inPipe) \in Nat
  BY LenProperties DEF TypeOK
<1> DEFINE Taken(j) ==
             /\ Len(inPipe) \in Nat
             /\ Len(inPipe') = Len(inPipe) - j
             /\ \A k \in 1..Len(inPipe') : /\ inPipe'[k] = inPipe[k + j]
                                           /\ k + j \in 1..Len(inPipe)
<1>3. CASE inPipe' = inPipe
  <2>1. Taken(0)
    BY <1>2, <1>3
  <2> QED
    BY <1>1, <2>1
<1>4. CASE inPipe # <<>> /\ inPipe' = Tail(inPipe)
  <2>1. Taken(1)
    BY <1>2, <1>4, TakeFirst
  <2> QED
    BY <1>1, <2>1
<1> QED
  BY <1>1, <1>3, <1>4

\* A step of the host that sends puts at most one container, of the transaction
\* under way, at the end of the OUT pipe; if it goes on, it did.
LEMMA HostSends ==
  ASSUME TypeOK, Progress, SendCommand \/ SendData
  PROVE  /\ UNCHANGED <<inPipe, executed, count, data, transaction_id>>
         /\ host \in {"command", "data_out"}
         /\ \/ UNCHANGED outPipe /\ host' \in {host, "idle"}
            \/ /\ host' = "idle" \/ host' = IF host = "command" THEN AfterCommand
                                                                ELSE "response"
               /\ Len(outPipe) \in Nat /\ Len(outPipe') = Len(outPipe) + 1
               /\ \A k \in 1..Len(outPipe) : outPipe'[k] = outPipe[k]
               /\ LET c == outPipe'[Len(outPipe) + 1] IN
                  /\ c.kind = IF host = "command" THEN data ELSE "data"
                  /\ c.n = count
<1> DEFINE k == IF host = "command" THEN data ELSE "data"
           next == IF host = "command" THEN AfterCommand ELSE "response"
<1>1. /\ host \in {"command", "data_out"} /\ Send(k, next) /\ UNCHANGED sendVars
  BY DEF SendCommand, SendData
<1>2. \/ UNCHANGED outPipe /\ host' \in {host, "idle"}
      \/ Arrives(k) /\ (host' = "idle" \/ host' = next)
  BY <1>1 DEF Send, Stall, SendFails, Sent, Return
<1>3. k \in {"none", "out", "in", "data"}
  BY DEF TypeOK, Directions
<1> HIDE DEF k, next
<1>4. ASSUME Arrives(k)
      PROVE  /\ Len(outPipe) \in Nat /\ Len(outPipe') = Len(outPipe) + 1
             /\ \A j \in 1..Len(outPipe) : outPipe'[j] = outPipe[j]
             /\ outPipe'[Len(outPipe) + 1].kind = k
             /\ outPipe'[Len(outPipe) + 1].n = count
  <2>1. /\ Len(outPipe) \in Nat /\ Len(outPipe') = Len(outPipe) + 1
        /\ \A j \in 1..Len(outPipe) : outPipe'[j] = outPipe[j]
        /\ outPipe'[Len(outPipe) + 1] = [kind |-> k, id |-> transaction_id, n |-> count]
    BY <1>1, <1>3, <1>4, ArrivesType
  <2> QED
    BY <2>1
<1> USE DEF k, next
<1> QED
  BY <1>1, <1>2, <1>4 DEF sendVars

\* The kinds of step, for the proofs about the pipes.
LEMMA Steps ==
  ASSUME [Next]_vars
  PROVE  \/ \E d \in Directions : Begin(d)
         \/ SendCommand \/ SendData
         \/ SkipEmpty \/ ReadFails \/ RecvData \/ RecvRest \/ RecvResponse
         \/ Camera
         \/ UNCHANGED vars
BY DEF Next, HostStep, Finished

\* The pipes stay in the order of the transactions.
LEMMA InOrderStep == PipeInv /\ [Next]_vars => InOrder'
<1> SUFFICES ASSUME PipeInv, [Next]_vars PROVE InOrder'
  OBVIOUS
<1>a. TypeOK /\ Progress /\ SentOnce /\ InOrder /\ DataFollows
  BY DEF PipeInv, Inv
<1>b. /\ Len(inPipe) \in Nat /\ Len(outPipe) \in Nat /\ count \in Nat
      /\ \A k \in 1..Len(inPipe) : inPipe[k].n \in Nat /\ inPipe[k].n > 0
      /\ \A k \in 1..Len(outPipe) : outPipe[k].n \in Nat /\ outPipe[k].n > 0
  BY <1>a, PipeNumbers
<1>1. ASSUME NEW d \in Directions, Begin(d) PROVE InOrder'
  BY <1>1, <1>a, <1>b DEF Begin, InOrder
<1>2. CASE SendCommand \/ SendData
  <2>1. /\ UNCHANGED <<inPipe, count>> /\ host \in {"command", "data_out"}
        /\ host' = "command" => host = "command"
    BY <1>2, <1>a, HostSends DEF AfterCommand, TypeOK, Directions
  <2>2. \A j \in 1..Len(inPipe) : inPipe[j].n < count
    <3>1. CASE host = "command"
      BY <1>a, <3>1 DEF InOrder
    <3>2. CASE host = "data_out"
      <4>1. Len(outPipe) \in 1..Len(outPipe) /\ outPipe[Len(outPipe)].n = count
        BY <1>a, <1>b, <3>2, EmptySeq DEF DataFollows, TypeOK
      <4> QED
        BY <1>a, <4>1 DEF InOrder
    <3> QED
      BY <2>1, <3>1, <3>2
  <2>3. CASE UNCHANGED outPipe
    BY <1>a, <2>1, <2>3 DEF InOrder
  <2>4. CASE /\ Len(outPipe') = Len(outPipe) + 1
             /\ \A k \in 1..Len(outPipe) : outPipe'[k] = outPipe[k]
             /\ outPipe'[Len(outPipe) + 1].n = count
    <3>1. \A k \in 1..Len(outPipe') :
            k \in 1..Len(outPipe) \/ k = Len(outPipe) + 1
      BY <1>b, <2>4
    <3> QED
      BY <1>a, <2>1, <2>2, <2>4, <3>1 DEF InOrder
  <2> QED
    BY <1>2, <1>a, <2>3, <2>4, HostSends
<1>3. CASE SkipEmpty \/ ReadFails \/ RecvData \/ RecvRest \/ RecvResponse
  <2>1. /\ UNCHANGED <<outPipe, count>> /\ host' # "command"
        /\ \E j \in {0, 1} : \A k \in 1..Len(inPipe') :
             inPipe'[k] = inPipe[k + j] /\ k + j \in 1..Len(inPipe)
    BY <1>3, <1>a, HostReads
  <2>2. PICK j \in {0, 1} : \A k \in 1..Len(inPipe') :
               inPipe'[k] = inPipe[k + j] /\ k + j \in 1..Len(inPipe)
    BY <2>1
  <2>3. \A i, k \in 1..Len(inPipe') : i < k => i + j < k + j
    BY <2>2
  <2> QED
    BY <1>a, <2>1, <2>2, <2>3 DEF InOrder
<1>4. CASE Camera
  <2> USE DEF TakenOff, PutBehind, AnswerTo
  <2>1. PICK j \in {1, 2}, ans \in AnswerShapes \cup {<<>>} :
                 TakenOff(j) /\ PutBehind(ans) /\ AnswerTo(j, ans)
    BY <1>4, <1>a, CameraAnswers
  <2>2. UNCHANGED <<host, count>> /\ 1 \in 1..Len(outPipe)
    BY <1>4, <1>a, <1>b, <2>1 DEF Camera
  <2>3. /\ Len(ans) \in Nat
        /\ \A k \in 1..Len(ans) : ans[k] = "response" => k = Len(ans)
    BY <2>1, ShapeFacts
  <2> DEFINE old(k) == k \in 1..Len(inPipe) /\ inPipe'[k] = inPipe[k]
             new(k) == /\ k > Len(inPipe) /\ inPipe'[k].n = outPipe[1].n
                       /\ inPipe'[k].kind = "response" => k = Len(inPipe')
  <2>4. \A k \in 1..Len(inPipe') : old(k) \/ new(k)
    <3> SUFFICES ASSUME NEW k \in 1..Len(inPipe'), k > Len(inPipe) PROVE new(k)
      BY <1>b, <2>1
    <3>1. PICK m \in 1..Len(ans) : k = Len(inPipe) + m
      <4>1. \A a, b \in Nat : \A i \in 1..(a + b) : i > a =>
              i - a \in 1..b /\ i = a + (i - a)
        OBVIOUS
      <4>2. k \in 1..(Len(inPipe) + Len(ans))
        BY <2>1
      <4>3. k - Len(inPipe) \in 1..Len(ans) /\ k = Len(inPipe) + (k - Len(inPipe))
        BY <1>b, <2>3, <4>1, <4>2
      <4> QED
        BY <4>3
    <3> QED
      BY <1>b, <2>1, <2>3, <3>1
  <2>5. \A k \in 1..Len(outPipe') : k + j \in 1..Len(outPipe) /\ outPipe[1].n < outPipe[k + j].n
    <3> SUFFICES ASSUME NEW k \in 1..Len(outPipe')
                 PROVE  k + j \in 1..Len(outPipe) /\ outPipe[1].n < outPipe[k + j].n
      OBVIOUS
    <3>1. k + j \in 1..Len(outPipe) /\ k + j > 1 /\ (k + j = 2 => j = 1)
      BY <1>b, <2>1
    <3>2. ~(k + j = 2 /\ outPipe[k + j].kind = "data")
      BY <1>a, <2>1, <3>1 DEF DataFollows
    <3> QED
      BY <1>a, <2>2, <3>1, <3>2 DEF DataFollows
  <2>6. /\ outPipe[1].n <= count
        /\ host = "command" => outPipe[1].n < count
        /\ \A k \in 1..Len(inPipe) : inPipe[k].n < outPipe[1].n
        /\ outPipe[1].n \in Nat
    BY <1>a, <1>b, <2>2 DEF SentOnce, InOrder
  <2>7. ASSUME NEW i \in 1..Len(inPipe'), NEW k \in 1..Len(inPipe'), i < k
        PROVE  /\ inPipe'[i].n <= inPipe'[k].n
               /\ inPipe'[i].kind = "response" => inPipe'[i].n < inPipe'[k].n
    <3>1. CASE old(i) /\ old(k)
      BY <1>a, <2>7, <3>1 DEF InOrder
    <3>2. CASE old(i) /\ new(k)
      BY <1>b, <2>6, <3>2
    <3>3. CASE new(i) /\ new(k)
      BY <2>6, <2>7, <3>3
    <3>4. ~(new(i) /\ old(k))
      BY <1>b, <2>7
    <3> QED
      BY <2>4, <3>1, <3>2, <3>3, <3>4
  <2>8. \A i \in 1..Len(inPipe'), k \in 1..Len(outPipe') : inPipe'[i].n < outPipe'[k].n
    BY <1>a, <2>1, <2>4, <2>5 DEF InOrder
  <2>9. \A i \in 1..Len(inPipe') : /\ inPipe'[i].n <= count
                                   /\ host = "command" => inPipe'[i].n < count
    BY <1>a, <2>4, <2>6 DEF InOrder
  <2> QED
    BY <2>2, <2>7, <2>8, <2>9 DEF InOrder
<1>5. CASE UNCHANGED vars
  BY <1>5, <1>a DEF InOrder
<1> QED
  BY <1>1, <1>2, <1>3, <1>4, <1>5, Steps

\* Data stays next to its command.
LEMMA DataFollowsStep == PipeInv /\ [Next]_vars => DataFollows'
<1> SUFFICES ASSUME PipeInv, [Next]_vars PROVE DataFollows'
  OBVIOUS
<1>a. TypeOK /\ Progress /\ SentOnce /\ DataFollows
  BY DEF PipeInv, Inv
<1>b. /\ Len(outPipe) \in Nat /\ count \in Nat /\ outPipe \in Seq(Containers)
      /\ \A k \in 1..Len(outPipe) : outPipe[k].n \in Nat
  BY <1>a, PipeNumbers DEF TypeOK
<1>1. ASSUME NEW d \in Directions, Begin(d) PROVE DataFollows'
  BY <1>1, <1>a DEF Begin, DataFollows
<1>2. CASE SendCommand \/ SendData
  <2>1. UNCHANGED count /\ host \in {"command", "data_out"}
    BY <1>2, <1>a, HostSends
  <2>2. CASE UNCHANGED outPipe /\ host' \in {host, "idle"}
    BY <1>a, <2>1, <2>2 DEF DataFollows
  <2>3. CASE /\ host' = "idle" \/ host' = IF host = "command" THEN AfterCommand
                                                              ELSE "response"
             /\ Len(outPipe') = Len(outPipe) + 1
             /\ \A k \in 1..Len(outPipe) : outPipe'[k] = outPipe[k]
             /\ LET c == outPipe'[Len(outPipe) + 1] IN
                /\ c.kind = IF host = "command" THEN data ELSE "data"
                /\ c.n = count
    <3> DEFINE last == Len(outPipe) + 1
    <3>1. \A k \in 1..Len(outPipe') : k \in 1..Len(outPipe) \/ k = last
      BY <1>b, <2>3
    <3>2. Len(outPipe') = last /\ last \in Nat /\ outPipe' # <<>>
      BY <1>b, <2>3
    <3>3. CASE host = "command"
      <4>1. \A k \in 1..Len(outPipe) : outPipe[k].n < count
        BY <1>a, <3>3 DEF SentOnce
      <4>2. outPipe'[last].n = count /\ outPipe'[last].kind = data /\ data # "data"
        BY <1>a, <2>3, <3>3 DEF TypeOK, Directions
      <4>3. host' = "data_out" => data = "out"
        BY <1>a, <2>3, <3>3 DEF AfterCommand, TypeOK, Directions
      <4> HIDE DEF last
      <4>4. \A j, k \in 1..Len(outPipe') :
              j < k /\ (k # j + 1 \/ outPipe'[k].kind # "data") =>
                outPipe'[j].n < outPipe'[k].n
        BY <1>a, <1>b, <2>3, <3>1, <3>2, <4>1, <4>2 DEF DataFollows, last
      <4>5. \A k \in 1..Len(outPipe') : outPipe'[k].kind = "data" =>
              /\ k > 1 /\ outPipe'[k - 1].kind = "out"
              /\ outPipe'[k - 1].n = outPipe'[k].n
        <5> SUFFICES ASSUME NEW k \in 1..Len(outPipe), outPipe[k].kind = "data"
                     PROVE  /\ k > 1 /\ outPipe'[k - 1].kind = "out"
                            /\ outPipe'[k - 1].n = outPipe'[k].n
          BY <2>3, <3>1, <4>2
        <5>1. k > 1 /\ outPipe[k - 1].kind = "out" /\ outPipe[k - 1].n = outPipe[k].n
          BY <1>a DEF DataFollows
        <5>2. k - 1 \in 1..Len(outPipe)
          BY <1>b, <5>1
        <5> QED
          BY <2>3, <5>1, <5>2
      <4> QED
        BY <2>1, <3>2, <4>2, <4>3, <4>4, <4>5 DEF DataFollows
    <3>4. CASE host = "data_out"
      <4>1. /\ Len(outPipe) \in 1..Len(outPipe) /\ outPipe[Len(outPipe)].kind = "out"
            /\ outPipe[Len(outPipe)].n = count
        BY <1>a, <1>b, <3>4, EmptySeq DEF DataFollows
      <4>2. outPipe'[last].n = count /\ outPipe'[last].kind = "data" /\ host' # "data_out"
        BY <2>3, <3>4
      <4>3. \A k \in 1..Len(outPipe) : k # Len(outPipe) => outPipe[k].n < count
        BY <1>a, <1>b, <4>1 DEF DataFollows
      <4> HIDE DEF last
      <4>4. \A j, k \in 1..Len(outPipe') :
              j < k /\ (k # j + 1 \/ outPipe'[k].kind # "data") =>
                outPipe'[j].n < outPipe'[k].n
        BY <1>a, <1>b, <2>3, <3>1, <3>2, <4>2, <4>3 DEF DataFollows, last
      <4>5. ASSUME NEW k \in 1..Len(outPipe'), outPipe'[k].kind = "data"
            PROVE  /\ k > 1 /\ outPipe'[k - 1].kind = "out"
                   /\ outPipe'[k - 1].n = outPipe'[k].n
        <5>1. CASE k = last
          <6>1. k - 1 = Len(outPipe) /\ k > 1
            BY <1>b, <4>1, <5>1 DEF last
          <6> QED
            BY <2>3, <4>1, <4>2, <5>1, <6>1
        <5>2. CASE k \in 1..Len(outPipe)
          <6>1. k > 1 /\ outPipe[k - 1].kind = "out" /\ outPipe[k - 1].n = outPipe[k].n
            BY <1>a, <2>3, <4>5, <5>2 DEF DataFollows
          <6>2. k - 1 \in 1..Len(outPipe)
            BY <1>b, <5>2, <6>1
          <6> QED
            BY <2>3, <5>2, <6>1, <6>2
        <5> QED
          BY <3>1, <5>1, <5>2
      <4> QED
        BY <4>2, <4>4, <4>5 DEF DataFollows
    <3> QED
      BY <2>1, <3>3, <3>4
  <2> QED
    BY <1>2, <1>a, <2>2, <2>3, HostSends
<1>3. CASE SkipEmpty \/ ReadFails \/ RecvData \/ RecvRest \/ RecvResponse
  <2>1. UNCHANGED <<outPipe, count>> /\ host' # "data_out"
    BY <1>3, <1>a, HostReads
  <2> QED
    BY <1>a, <2>1 DEF DataFollows
<1>4. CASE Camera
  <2>1. PICK j \in {1, 2}, ans \in AnswerShapes \cup {<<>>} :
               TakenOff(j) /\ PutBehind(ans) /\ AnswerTo(j, ans)
    BY <1>4, <1>a, CameraAnswers
  <2>2. UNCHANGED <<host, count>>
    BY <1>4 DEF Camera
  <2>3. \A k \in 1..Len(outPipe') : k + j \in 1..Len(outPipe) /\ outPipe'[k] = outPipe[k + j]
    BY <2>1 DEF TakenOff
  <2>4. \A i, k \in 1..Len(outPipe') : /\ i < k => i + j < k + j
                                       /\ k # i + 1 => k + j # (i + j) + 1
    BY <2>3
  <2>5. \A i, k \in 1..Len(outPipe') :
          i < k /\ (k # i + 1 \/ outPipe'[k].kind # "data") =>
            outPipe'[i].n < outPipe'[k].n
    <3> SUFFICES ASSUME NEW i \in 1..Len(outPipe'), NEW k \in 1..Len(outPipe'),
                        i < k, k # i + 1 \/ outPipe'[k].kind # "data"
                 PROVE  outPipe'[i].n < outPipe'[k].n
      OBVIOUS
    <3> DEFINE a == i + j
               b == k + j
    <3>1. /\ a \in 1..Len(outPipe) /\ b \in 1..Len(outPipe) /\ a < b
          /\ b # a + 1 \/ outPipe[b].kind # "data"
          /\ outPipe'[i] = outPipe[a] /\ outPipe'[k] = outPipe[b]
      BY <2>3, <2>4
    <3> HIDE DEF a, b
    <3> QED
      BY <1>a, <3>1 DEF DataFollows
  <2>6. ASSUME NEW k \in 1..Len(outPipe'), outPipe'[k].kind = "data"
        PROVE  /\ k > 1 /\ outPipe'[k - 1].kind = "out"
               /\ outPipe'[k - 1].n = outPipe'[k].n
    <3>1. /\ outPipe[k + j].kind = "data" /\ k + j \in 1..Len(outPipe)
          /\ outPipe[k + j - 1].kind = "out" /\ outPipe[k + j - 1].n = outPipe'[k].n
      BY <1>a, <2>3, <2>6 DEF DataFollows
    <3>2. k > 1
      <4>1. CASE k = 1 /\ j = 1
        BY <2>1, <3>1, <4>1 DEF AnswerTo
      <4>2. CASE k = 1 /\ j = 2
        BY <2>1, <3>1, <4>2 DEF AnswerTo
      <4> QED
        BY <4>1, <4>2
    <3>3. k - 1 \in 1..Len(outPipe') /\ (k - 1) + j = k + j - 1
      BY <2>1, <3>2 DEF TakenOff
    <3> QED
      BY <2>3, <3>1, <3>2, <3>3
  <2>7. ASSUME host = "data_out"
        PROVE  /\ outPipe' # <<>> /\ outPipe'[Len(outPipe')].kind = "out"
               /\ outPipe'[Len(outPipe')].n = count
    <3>1. outPipe[Len(outPipe)].kind = "out" /\ outPipe[Len(outPipe)].n = count
      BY <1>a, <2>7 DEF DataFollows
    <3>2. Len(outPipe) # j
      BY <2>1, <3>1 DEF AnswerTo
    <3>3. Len(outPipe') \in 1..Len(outPipe') /\ Len(outPipe') + j = Len(outPipe)
      BY <2>1, <3>2 DEF TakenOff
    <3> QED
      BY <2>3, <3>1, <3>3
  <2> QED
    BY <2>2, <2>5, <2>6, <2>7 DEF DataFollows
<1>5. CASE UNCHANGED vars
  BY <1>5, <1>a DEF DataFollows
<1> QED
  BY <1>1, <1>2, <1>3, <1>4, <1>5, Steps

\* Taking a unit that is no response off the IN pipe leaves the responses.
LEMMA ResponseStays ==
  ASSUME TypeOK, UNCHANGED count, inPipe # <<>>, inPipe' = Tail(inPipe),
         Head(inPipe).kind # "response" \/ Head(inPipe).n # count,
         NEW k \in 1..Len(inPipe), inPipe[k].kind = "response", inPipe[k].n = count
  PROVE  \E m \in 1..Len(inPipe') : inPipe'[m].kind = "response" /\ inPipe'[m].n = count'
<1>1. inPipe \in Seq(Units)
  BY DEF TypeOK
<1>2. /\ Head(inPipe) = inPipe[1] /\ Len(inPipe) \in Nat
      /\ Len(Tail(inPipe)) = Len(inPipe) - 1
      /\ \A m \in 1..Len(Tail(inPipe)) : Tail(inPipe)[m] = inPipe[m + 1]
  BY <1>1, TakeFirst
<1>3. k # 1
  BY <1>2
<1>4. k - 1 \in 1..Len(inPipe') /\ (k - 1) + 1 = k
  BY <1>2, <1>3
<1> QED
  BY <1>2, <1>4

\* The host never waits for a response that is not there and will not come.
LEMMA AnswerComesStep == PipeInv /\ [Next]_vars => AnswerComes'
<1> SUFFICES ASSUME PipeInv, [Next]_vars PROVE AnswerComes'
  OBVIOUS
<1>a. TypeOK /\ Progress /\ IdsAgree /\ DataFollows /\ AnswerComes
  BY DEF PipeInv, Inv
<1> DEFINE waiting == host \in {"data_in", "data_rest", "response"}
           there == \E k \in 1..Len(inPipe) :
                      inPipe[k].kind = "response" /\ inPipe[k].n = count
           coming == \E k \in 1..Len(outPipe) :
                       outPipe[k].kind # "out" /\ outPipe[k].n = count
<1>b. waiting => there \/ coming
  BY <1>a DEF AnswerComes
<1> SUFFICES ASSUME waiting' PROVE there' \/ coming'
  BY DEF AnswerComes
<1>1. ~\E d \in Directions : Begin(d)
  BY DEF Begin
<1>2. CASE SendCommand \/ SendData
  <2>1. /\ UNCHANGED count /\ host \in {"command", "data_out"}
        /\ host' = IF host = "command" THEN AfterCommand ELSE "response"
        /\ Len(outPipe) + 1 \in 1..Len(outPipe')
        /\ LET c == outPipe'[Len(outPipe) + 1] IN
           /\ c.kind = IF host = "command" THEN data ELSE "data"
           /\ c.n = count
    BY <1>2, <1>a, HostSends
  <2>2. host = "command" => data # "out"
    BY <2>1 DEF AfterCommand
  <2>3. coming'
    BY <2>1, <2>2
  <2> QED
    BY <2>3
<1>3. CASE SkipEmpty \/ ReadFails \/ RecvData \/ RecvRest \/ RecvResponse
  <2>1. /\ UNCHANGED <<outPipe, count>> /\ waiting
        /\ ~ReadFails /\ ~RecvResponse
    BY <1>3, <1>a, HostReads DEF ReadFails, RecvResponse, Return
  <2>2. inPipe # <<>> /\ inPipe' = Tail(inPipe)
    BY <1>3, <2>1 DEF SkipEmpty, RecvData, RecvRest, Readable
  <2>3. Head(inPipe).kind # "response"
    <3>1. CASE SkipEmpty
      BY <3>1 DEF SkipEmpty
    <3>2. CASE RecvData
      <4>1. Check(Head(inPipe), {"data", "long"}) = "OK"
        BY <3>2 DEF RecvData, Return
      <4> QED
        BY <4>1 DEF Check
    <3>3. CASE RecvRest
      BY <3>3 DEF RecvRest, Return
    <3> QED
      BY <1>3, <2>1, <3>1, <3>2, <3>3
  <2>4. CASE coming
    BY <2>1, <2>4
  <2>5. CASE there
    BY <1>a, <2>1, <2>2, <2>3, <2>5, ResponseStays
  <2> QED
    BY <1>b, <2>1, <2>4, <2>5
<1>4. CASE Camera
  <2>1. PICK j \in {1, 2}, ans \in AnswerShapes \cup {<<>>} :
               TakenOff(j) /\ PutBehind(ans) /\ AnswerTo(j, ans)
    BY <1>4, <1>a, CameraAnswers
  <2>2. UNCHANGED <<host, count>>
    BY <1>4 DEF Camera
  <2>3. CASE there
    <3>1. PICK k \in 1..Len(inPipe) : inPipe[k].kind = "response" /\ inPipe[k].n = count
      BY <2>3
    <3>2. k \in 1..Len(inPipe') /\ inPipe'[k] = inPipe[k]
      <4>1. Len(ans) \in Nat
        BY <2>1, ShapeFacts
      <4> QED
        BY <2>1, <4>1 DEF PutBehind
    <3> QED
      BY <2>2, <3>1, <3>2
  <2>4. CASE coming
    <3>1. PICK k \in 1..Len(outPipe) : outPipe[k].kind # "out" /\ outPipe[k].n = count
      BY <2>4
    <3>2. CASE k > j
      <4>1. k - j \in 1..Len(outPipe') /\ (k - j) + j = k
        BY <2>1, <3>2 DEF TakenOff
      <4> QED
        BY <2>1, <2>2, <3>1, <4>1 DEF TakenOff
    <3>3. CASE k <= j
      <4>1. ans \in AnswerShapes /\ outPipe[1].n = count
        <5>1. CASE k = 1
          BY <2>1, <3>1, <5>1 DEF AnswerTo, AnswerShapes
        <5>2. CASE k = 2
          <6>1. ans = <<"response">> /\ outPipe[2].kind = "data"
            BY <2>1, <3>1, <3>3, <5>2 DEF AnswerTo
          <6>2. outPipe[2 - 1].n = outPipe[2].n
            BY <1>a, <3>1, <5>2, <6>1 DEF DataFollows
          <6> QED
            BY <3>1, <5>2, <6>1, <6>2 DEF AnswerShapes
        <5> QED
          BY <3>3, <5>1, <5>2
      <4>2. Len(ans) \in 1..Len(ans) /\ ans[Len(ans)] = "response"
        BY <4>1, ShapeFacts
      <4>3. Len(inPipe) + Len(ans) \in 1..Len(inPipe')
        BY <2>1, <4>1, ShapeFacts DEF PutBehind
      <4> QED
        BY <2>1, <2>2, <4>1, <4>2, <4>3 DEF PutBehind
    <3> QED
      BY <2>1, <3>2, <3>3 DEF TakenOff
  <2> QED
    BY <1>b, <2>2, <2>3, <2>4
<1>5. CASE UNCHANGED vars
  BY <1>5, <1>b
<1> QED
  BY <1>1, <1>2, <1>3, <1>4, <1>5, Steps

\* A transaction succeeds with nothing left in either pipe, and nothing comes
\* before the next one begins.
LEMMA CleanStep == PipeInv /\ [Next]_vars => CleanAfterSuccess'
<1> SUFFICES ASSUME PipeInv, [Next]_vars, Succeeded'
             PROVE  outPipe' = <<>> /\ inPipe' = <<>>
  BY DEF CleanAfterSuccess
<1>a. /\ TypeOK /\ IdsAgree /\ Progress /\ SentOnce /\ InOrder
      /\ CleanAfterSuccess
  BY DEF PipeInv, Inv
<1>1. ~\E d \in Directions : Begin(d)
  BY DEF Begin, Succeeded
<1>2. ~(SendCommand \/ SendData)
  <2>1. AfterCommand # "idle"
    BY <1>a DEF AfterCommand, TypeOK, Directions
  <2> QED
    BY <2>1 DEF SendCommand, SendData, Send, Stall, SendFails, Sent, Return, Succeeded
<1>3. ~(SkipEmpty \/ ReadFails \/ RecvData \/ RecvRest)
  BY DEF SkipEmpty, ReadFails, RecvData, RecvRest, Return, Succeeded
<1>4. CASE RecvResponse
  <2>1. /\ inPipe # <<>> /\ inPipe' = Tail(inPipe) /\ outPipe' = outPipe
        /\ host = "response" /\ Check(Head(inPipe), {"response"}) = "OK"
    BY <1>4 DEF RecvResponse, Return, Succeeded, Readable
  <2>2. Head(inPipe).n = count /\ Head(inPipe).kind = "response"
    BY <1>a, <2>1, CheckedIsOwn
  <2>3. /\ Head(inPipe) = inPipe[1] /\ 1 \in 1..Len(inPipe) /\ Len(inPipe) \in Nat
        /\ Len(Tail(inPipe)) = Len(inPipe) - 1 /\ Tail(inPipe) \in Seq(Units)
    BY <1>a, <2>1, TakeFirst DEF TypeOK
  <2>4. /\ \A k \in 1..Len(inPipe) : inPipe[k].n \in Nat
        /\ \A k \in 1..Len(outPipe) : outPipe[k].n \in Nat
        /\ Len(outPipe) \in Nat /\ count \in Nat
    BY <1>a, PipeNumbers
  <2>5. Len(inPipe) = 1
    <3> SUFFICES ASSUME 2 \in 1..Len(inPipe) PROVE FALSE
      BY <2>3
    <3>1. count < inPipe[2].n /\ inPipe[2].n <= count
      BY <1>a, <2>2, <2>3 DEF InOrder
    <3> QED
      BY <2>4, <3>1
  <2>6. Len(outPipe) = 0
    <3> SUFFICES ASSUME 1 \in 1..Len(outPipe) PROVE FALSE
      BY <2>4
    <3>1. count < outPipe[1].n /\ outPipe[1].n <= count
      BY <1>a, <2>2, <2>3 DEF InOrder, SentOnce
    <3> QED
      BY <2>4, <3>1
  <2> QED
    BY <1>a, <2>1, <2>3, <2>5, <2>6, EmptySeq DEF TypeOK
<1>5. CASE Camera
  BY <1>5, <1>a DEF Camera, CleanAfterSuccess, Succeeded
<1>6. CASE UNCHANGED vars
  BY <1>6, <1>a DEF CleanAfterSuccess, Succeeded
<1> QED
  BY <1>1, <1>2, <1>3, <1>4, <1>5, <1>6, Steps

\* The initial state satisfies the invariant about the pipes.
LEMMA PipeInit == Init => PipeInv
<1> SUFFICES ASSUME Init PROVE PipeInv
  OBVIOUS
<1>1. Len(outPipe) = 0 /\ Len(inPipe) = 0 /\ 1..0 = {} /\ host = "idle"
      /\ ~Succeeded
  BY DEF Init, Succeeded
<1>2. Inv
  BY InvInit
<1> QED
  BY <1>1, <1>2 DEF PipeInv, InOrder, DataFollows, AnswerComes, CleanAfterSuccess

\* Every step keeps it.
LEMMA PipeStep == PipeInv /\ [Next]_vars => PipeInv'
BY InvStep, InOrderStep, DataFollowsStep, AnswerComesStep, CleanStep DEF PipeInv

\* The invariant about the pipes holds.
THEOREM PipeInvHolds == Spec => []PipeInv
BY PipeInit, PipeStep, PTL DEF Spec

\* A transaction that succeeds leaves host and camera in step: both pipes are
\* empty, and stay so until the next one begins.
THEOREM CleanAfterSuccessHolds == Spec => []CleanAfterSuccess
<1>1. PipeInv => CleanAfterSuccess
  BY DEF PipeInv
<1> QED
  BY <1>1, PipeInvHolds, PTL

\* The host waits for a response only if it is in the pipe, or its command is
\* there for the camera to answer.
THEOREM AnswerComesHolds == Spec => []AnswerComes
<1>1. PipeInv => AnswerComes
  BY DEF PipeInv
<1> QED
  BY <1>1, PipeInvHolds, PTL

-----------------------------------------------------------------------------
(* Without failures, host and camera stay in step.                         *)

\* Once part of the answer to a command has been put in the IN pipe, nothing that
\* was sent is unhandled.
LEMMA AllHandled ==
  ASSUME PipeInv, NEW k \in 1..Len(inPipe), inPipe[k].n = count
  PROVE  Len(outPipe) = 0
<1>1. TypeOK /\ SentOnce /\ InOrder
  BY DEF PipeInv, Inv
<1>2. /\ Len(outPipe) \in Nat /\ count \in Nat
      /\ \A m \in 1..Len(outPipe) : outPipe[m].n \in Nat
  BY <1>1, PipeNumbers
<1> SUFFICES ASSUME 1 \in 1..Len(outPipe) PROVE FALSE
  BY <1>2
<1>3. count < outPipe[1].n /\ outPipe[1].n <= count
  BY <1>1 DEF InOrder, SentOnce
<1> QED
  BY <1>2, <1>3

\* A pipe is empty if its length is zero.
LEMMA NoneLeft ==
  ASSUME TypeOK
  PROVE  /\ Len(inPipe) \in Nat /\ (inPipe = <<>> <=> Len(inPipe) = 0)
         /\ Len(outPipe) \in Nat /\ (outPipe = <<>> <=> Len(outPipe) = 0)
BY EmptySeq, LenProperties DEF TypeOK

\* The host reads the answer to its command from the front, and finds it to be its
\* own: what is left then is the rest of a shape.
LEMMA ReadsOwn ==
  ASSUME PipeInv, host # "idle", inPipe # <<>>, NEW shape \in Unread, Holds(shape)
  PROVE  /\ Len(outPipe) = 0
         /\ Len(shape) = Len(inPipe) /\ Len(inPipe) \in Nat /\ Len(inPipe) >= 1
         /\ Head(inPipe).kind = shape[1] /\ Head(inPipe).id = transaction_id
         /\ Len(Tail(inPipe)) = Len(shape) - 1
         /\ \A k \in 1..Len(Tail(inPipe)) : /\ Tail(inPipe)[k].kind = shape[k + 1]
                                            /\ Tail(inPipe)[k].n = count
<1>1. TypeOK /\ IdsAgree /\ Progress /\ inPipe \in Seq(Units)
  BY DEF PipeInv, Inv, TypeOK
<1>2. /\ Head(inPipe) = inPipe[1] /\ 1 \in 1..Len(inPipe) /\ Len(inPipe) \in Nat
      /\ Len(Tail(inPipe)) = Len(inPipe) - 1
      /\ \A k \in 1..Len(Tail(inPipe)) :
           Tail(inPipe)[k] = inPipe[k + 1] /\ k + 1 \in 2..Len(inPipe)
  BY <1>1, TakeFirst
<1>3. Len(shape) = Len(inPipe)
      /\ \A k \in 1..Len(inPipe) : inPipe[k].kind = shape[k] /\ inPipe[k].n = count
  BY DEF Holds
<1>4. Head(inPipe).id = transaction_id
  <2>1. inPipe[1].id = count - 1 /\ transaction_id = count - 1
    BY <1>1, <1>2, <1>3 DEF IdsAgree, Progress, TypeOK
  <2> QED
    BY <1>2, <2>1
<1>5. Len(outPipe) = 0
  BY <1>2, <1>3, AllHandled
<1>6. ASSUME NEW k \in 1..Len(Tail(inPipe))
      PROVE  Tail(inPipe)[k].kind = shape[k + 1] /\ Tail(inPipe)[k].n = count
  <2>1. Tail(inPipe)[k] = inPipe[k + 1] /\ k + 1 \in 1..Len(inPipe)
    BY <1>2
  <2> QED
    BY <1>3, <2>1
<1> QED
  BY <1>2, <1>3, <1>4, <1>5, <1>6

\* Without failures, what is left after a step that reads is the rest of the
\* answer to the command under way.
LEMMA UndamagedReads ==
  ASSUME PipeInv, PipeInv', Undamaged, faults = 0, faults' = 0,
         SkipEmpty \/ ReadFails \/ RecvData \/ RecvRest \/ RecvResponse
  PROVE  Undamaged'
<1>a. TypeOK /\ TypeOK' /\ ~ReadFails /\ ~Fault
  BY DEF PipeInv, Inv, ReadFails, Fault
<1>1. /\ inPipe # <<>> /\ inPipe' = Tail(inPipe) /\ UNCHANGED <<outPipe, count, data>>
      /\ host \in {"data_in", "data_rest", "response"}
  BY <1>a DEF SkipEmpty, RecvData, RecvRest, RecvResponse, Readable
<1>2. PICK shape \in Unread : Holds(shape)
  BY <1>1 DEF Undamaged
<1>3. /\ Len(outPipe) = 0 /\ Len(shape) \in Nat /\ Len(shape) >= 1
      /\ Head(inPipe).kind = shape[1] /\ Head(inPipe).id = transaction_id
      /\ Len(inPipe') = Len(shape) - 1
      /\ \A k \in 1..Len(inPipe') : inPipe'[k].kind = shape[k + 1] /\ inPipe'[k].n = count'
  BY <1>1, <1>2, ReadsOwn
<1>4. 1..Len(outPipe') = {}
  BY <1>1, <1>3
<1> DEFINE done == host' = "idle" /\ inPipe' = <<>>
           going(rest) == /\ inPipe' # <<>> /\ Len(inPipe') = Len(rest)
                          /\ \A k \in 1..Len(rest) : /\ inPipe'[k].kind = rest[k]
                                                     /\ inPipe'[k].n = count'
<1>5. /\ Len(shape) = 1 => inPipe' = <<>>
      /\ shape = <<"zlp", "response">> => going(<<"response">>)
      /\ shape = <<"rest", "response">> => going(<<"response">>)
      /\ shape = <<"data", "response">> => going(<<"response">>)
      /\ shape = <<"data", "zlp", "response">> => going(<<"zlp", "response">>)
      /\ shape = <<"rest", "zlp", "response">> => going(<<"zlp", "response">>)
      /\ shape = <<"long", "rest", "response">> => going(<<"rest", "response">>)
      /\ shape = <<"long", "rest", "zlp", "response">> =>
           going(<<"rest", "zlp", "response">>)
  <2>1. inPipe' = <<>> <=> Len(inPipe') = 0
    BY <1>a, NoneLeft
  <2>2. Len(shape) = 1 => inPipe' = <<>>
    BY <1>3, <2>1
  <2>3. ASSUME Len(shape) = 2, shape[2] = "response" PROVE going(<<"response">>)
    BY <1>3, <2>1, <2>3
  <2>4. ASSUME NEW x, Len(shape) = 3, shape[2] = x, shape[3] = "response"
        PROVE  going(<<x, "response">>)
    <3>1. Len(inPipe') = 2 /\ inPipe' # <<>>
      BY <1>3, <2>1, <2>4
    <3>2. /\ inPipe'[1].kind = x /\ inPipe'[1].n = count'
          /\ inPipe'[2].kind = "response" /\ inPipe'[2].n = count'
      BY <1>3, <2>4, <3>1
    <3> QED
      BY <3>1, <3>2
  <2>a. ASSUME shape = <<"long", "rest", "zlp", "response">>
        PROVE  going(<<"rest", "zlp", "response">>)
    <3>1. Len(inPipe') = 3 /\ inPipe' # <<>>
      BY <1>3, <2>1, <2>a
    <3>2. /\ inPipe'[1].kind = "rest" /\ inPipe'[1].n = count'
          /\ inPipe'[2].kind = "zlp" /\ inPipe'[2].n = count'
          /\ inPipe'[3].kind = "response" /\ inPipe'[3].n = count'
      BY <1>3, <2>a, <3>1
    <3> QED
      BY <3>1, <3>2
  <2> HIDE DEF going
  <2>5. shape = <<"zlp", "response">> => going(<<"response">>)
    BY <2>3
  <2>6. shape = <<"rest", "response">> => going(<<"response">>)
    BY <2>3
  <2>7. shape = <<"data", "response">> => going(<<"response">>)
    BY <2>3
  <2>8. shape = <<"data", "zlp", "response">> => going(<<"zlp", "response">>)
    BY <2>4
  <2>9. shape = <<"long", "rest", "response">> => going(<<"rest", "response">>)
    BY <2>4
  <2>10. shape = <<"rest", "zlp", "response">> => going(<<"zlp", "response">>)
    BY <2>4
  <2> QED
    BY <2>2, <2>5, <2>6, <2>7, <2>8, <2>9, <2>10, <2>a
<1>6. \/ done
      \/ host' = "response" /\ (going(<<"response">>) \/ going(<<"zlp", "response">>))
      \/ /\ host' = "data_rest"
         /\ going(<<"rest", "response">>) \/ going(<<"rest", "zlp", "response">>)
  <2> HIDE DEF going
  <2>1. CASE RecvData
    <3>1. host = "data_in" /\ shape \in AnswerShapes
      BY <1>2, <2>1 DEF RecvData, Unread
    <3>2. CASE shape = <<"response">>
      <4>1. Check(Head(inPipe), {"data", "long"}) = "CONTAINER_TYPE"
        BY <1>3, <3>2 DEF Check
      <4> QED
        BY <1>5, <2>1, <3>2, <4>1 DEF RecvData, Return
    <3>3. CASE shape[1] = "data"
      <4>1. Check(Head(inPipe), {"data", "long"}) = "OK"
        BY <1>3, <3>3 DEF Check
      <4>2. host' = "response"
        BY <1>a, <1>3, <2>1, <3>3, <4>1 DEF RecvData
      <4> QED
        BY <1>5, <3>1, <3>3, <4>2 DEF AnswerShapes
    <3>4. CASE shape \in {<<"long", "rest", "response">>,
                          <<"long", "rest", "zlp", "response">>}
      <4>1. shape[1] = "long"
        BY <3>4
      <4>2. Check(Head(inPipe), {"data", "long"}) = "OK"
        BY <1>3, <4>1 DEF Check
      <4>3. host' = "data_rest"
        BY <1>a, <1>3, <2>1, <4>1, <4>2 DEF RecvData
      <4> QED
        BY <1>5, <3>4, <4>3
    <3> QED
      BY <3>1, <3>2, <3>3, <3>4 DEF AnswerShapes
  <2>2. CASE RecvRest
    <3>1. /\ host = "data_rest"
          /\ shape = <<"rest", "response">> \/ shape = <<"rest", "zlp", "response">>
      BY <1>2, <2>2 DEF RecvRest, Unread
    <3>a. shape[1] = "rest"
      BY <3>1
    <3>2. host' = "response"
      BY <1>3, <2>2, <3>a DEF RecvRest
    <3> QED
      BY <1>5, <3>1, <3>2
  <2>3. CASE SkipEmpty
    <3>1. shape[1] = "zlp" /\ host' = host
      BY <1>3, <2>3 DEF SkipEmpty
    <3>2. host # "data_in" /\ host # "data_rest"
      <4>1. \A s \in AnswerShapes \cup {<<"rest", "response">>,
                                        <<"rest", "zlp", "response">>} : s[1] # "zlp"
        BY DEF AnswerShapes
      <4> QED
        BY <1>2, <3>1, <4>1 DEF Unread
    <3>3. host = "response" /\ shape = <<"zlp", "response">>
      BY <1>1, <1>2, <3>1, <3>2 DEF Unread
    <3> QED
      BY <1>5, <3>1, <3>3
  <2>4. CASE RecvResponse
    <3>1. host = "response" /\ host' = "idle" /\ Head(inPipe).kind # "zlp"
      BY <2>4 DEF RecvResponse, Return, Readable
    <3>2. shape = <<"response">>
      BY <1>2, <1>3, <3>1 DEF Unread
    <3> QED
      BY <1>5, <3>1, <3>2
  <2> QED
    BY <1>a, <2>1, <2>2, <2>3, <2>4
<1>7. CASE done
  BY <1>4, <1>7 DEF Undamaged
<1>8. CASE host' = "response" /\ (going(<<"response">>) \/ going(<<"zlp", "response">>))
  BY <1>4, <1>8 DEF Undamaged, Unread, Holds
<1>9. CASE /\ host' = "data_rest"
           /\ going(<<"rest", "response">>) \/ going(<<"rest", "zlp", "response">>)
  BY <1>4, <1>9 DEF Undamaged, Unread, Holds
<1> QED
  BY <1>6, <1>7, <1>8, <1>9

\* Nor does a camera step do any damage: it answers only the command under way,
\* and only when nothing is unread.
LEMMA UndamagedCamera ==
  ASSUME PipeInv, PipeInv', Undamaged, faults = 0, Camera
  PROVE  Undamaged'
<1>a. /\ TypeOK /\ TypeOK' /\ Progress /\ SentOnce /\ DataFollows
      /\ InOrder
  BY DEF PipeInv, Inv
<1>b. /\ Len(inPipe) \in Nat /\ Len(outPipe) \in Nat /\ count \in Nat
      /\ \A k \in 1..Len(outPipe) : outPipe[k].n \in Nat
      /\ inPipe = <<>> <=> Len(inPipe) = 0
      /\ inPipe' = <<>> <=> Len(inPipe') = 0
  BY <1>a, PipeNumbers, NoneLeft
<1>1. PICK j \in {1, 2}, ans \in AnswerShapes \cup {<<>>} :
             TakenOff(j) /\ PutBehind(ans) /\ AnswerTo(j, ans)
  BY <1>a, CameraAnswers
<1>2. UNCHANGED <<host, count, data, faults>> /\ 1 \in 1..Len(outPipe)
  BY <1>b, <1>1 DEF Camera, AnswerTo, TakenOff
<1>3. \A k \in 1..Len(outPipe') :
        /\ outPipe'[k].n < count \/ host \in {"idle", "command", "data_out"} =>
             outPipe'[k].kind = "out"
        /\ outPipe'[k].n = count => outPipe'[k].kind \in {data, "data"}
  <2>1. \A k \in 1..Len(outPipe') :
          k + j \in 1..Len(outPipe) /\ outPipe'[k] = outPipe[k + j]
    BY <1>1 DEF TakenOff
  <2> QED
    BY <2>1 DEF Undamaged
<1>4. CASE ans = <<>>
  <2>1. UNCHANGED inPipe
    BY <1>1, <1>4 DEF AnswerTo, AnswerShapes, Camera
  <2>2. Unread' = Unread /\ \A shape : Holds(shape)' <=> Holds(shape)
    BY <1>2, <2>1 DEF Unread, Holds
  <2>3. inPipe' = <<>> \/ \E shape \in Unread' : Holds(shape)'
    BY <2>1, <2>2 DEF Undamaged
  <2>4. host' = "data_rest" \/ (host' = "response" /\ data' = "in") => inPipe' # <<>>
    BY <1>2, <2>1 DEF Undamaged
  <2> QED
    BY <1>2, <1>3, <2>3, <2>4 DEF Undamaged
<1>5. CASE ans \in AnswerShapes
  <2>a. ans # <<>>
    <3>1. Len(ans) >= 1 /\ Len(<<>>) = 0
      BY <1>5, ShapeFacts
    <3> QED
      BY <3>1
  <2>1. /\ outPipe[1].kind # "out" \/ (2 \in 1..Len(outPipe) /\ outPipe[2].kind = "data")
        /\ outPipe[1].kind \in Directions
    BY <1>b, <1>1, <2>a DEF AnswerTo, Directions
  <2>2. host \in {"data_in", "data_rest", "response"}
    BY <1>2, <1>a, <2>1 DEF Undamaged, TypeOK, HostPlaces
  <2>3. outPipe[1].n = count
    <3>1. outPipe[1].n <= count
      BY <1>a, <1>2 DEF SentOnce
    <3> SUFFICES ASSUME outPipe[1].n < count PROVE FALSE
      BY <1>b, <1>2, <3>1
    <3>2. 2 \in 1..Len(outPipe) /\ outPipe[2].kind = "data"
      BY <1>2, <2>1 DEF Undamaged
    <3>3. outPipe[2 - 1].n = outPipe[2].n
      BY <1>a, <3>2 DEF DataFollows
    <3> QED
      BY <3>2, <3>3 DEF Undamaged
  <2>4. Len(inPipe) = 0
    <3> SUFFICES ASSUME 1 \in 1..Len(inPipe) PROVE FALSE
      BY <1>b
    <3>1. inPipe[1].n = count
      BY <1>b DEF Undamaged, Holds
    <3>2. inPipe[1].n < outPipe[1].n
      BY <1>2, <1>a DEF InOrder
    <3> QED
      BY <1>b, <2>3, <3>1, <3>2
  <2>5. outPipe[1].kind = data
    BY <1>2, <2>1, <2>3 DEF Undamaged, Directions
  <2>6. ans \in Unread'
    <3>1. host = "data_in" \/ (host = "response" /\ data # "in")
      BY <1>b, <2>2, <2>4 DEF Undamaged
    <3>2. CASE host = "data_in"
      BY <1>2, <1>5, <3>2 DEF Unread
    <3>3. CASE host = "response" /\ data # "in"
      <4>1. ans = <<"response">>
        BY <1>1, <2>a, <2>5, <3>3 DEF AnswerTo
      <4> QED
        BY <1>2, <3>3, <4>1 DEF Unread
    <3> QED
      BY <3>1, <3>2, <3>3
  <2>7. Len(ans) \in Nat /\ Len(ans) >= 1
    BY <1>5, ShapeFacts
  <2>8. /\ Len(inPipe') = Len(ans)
        /\ \A k \in 1..Len(ans) : inPipe'[k].kind = ans[k] /\ inPipe'[k].n = count'
    BY <1>1, <1>2, <2>3, <2>4, <2>7 DEF PutBehind
  <2>9. Holds(ans)' /\ inPipe' # <<>>
    BY <1>b, <2>7, <2>8 DEF Holds
  <2> QED
    BY <1>2, <1>3, <2>6, <2>9 DEF Undamaged
<1> QED
  BY <1>4, <1>5

\* Without failures, what is unread is the rest of the answer to the command under
\* way.
LEMMA UndamagedStep == PipeInv /\ PipeInv' /\ Undamaged /\ [Next]_vars => Undamaged'
<1> SUFFICES ASSUME PipeInv, PipeInv', Undamaged, [Next]_vars, faults' = 0
             PROVE  Undamaged'
  BY DEF Undamaged
<1>a. /\ TypeOK /\ Progress /\ SentOnce
      /\ Len(outPipe) \in Nat /\ count \in Nat
      /\ \A k \in 1..Len(outPipe) : outPipe[k].n \in Nat
  BY PipeNumbers DEF PipeInv, Inv
<1>b. faults \in Nat
  BY <1>a DEF TypeOK
<1>1. ASSUME NEW d \in Directions, Begin(d) PROVE Undamaged'
  <2>1. /\ faults = 0 /\ host = "idle" /\ host' = "command" /\ count' = count + 1
        /\ UNCHANGED <<inPipe, outPipe>>
    BY <1>1 DEF Begin
  <2>2. inPipe = <<>>
    BY <2>1 DEF Undamaged, Unread
  <2>3. \A k \in 1..Len(outPipe) : outPipe[k].kind = "out" /\ outPipe[k].n # count'
    BY <1>a, <2>1 DEF Undamaged, SentOnce
  <2> QED
    BY <2>1, <2>2, <2>3 DEF Undamaged
<1>2. CASE SendCommand \/ SendData
  <2>1. /\ ~Fault /\ faults = 0 /\ UNCHANGED <<inPipe, count, data>>
        /\ host \in {"command", "data_out"}
    BY <1>2, <1>b DEF SendCommand, SendData, sendVars, Send, Stall, SendFails, Sent, Fault,
       NoFault
  <2>2. inPipe = <<>> /\ \A k \in 1..Len(outPipe) :
                           /\ outPipe[k].kind = "out"
                           /\ outPipe[k].n = count => outPipe[k].kind \in {data, "data"}
    BY <2>1 DEF Undamaged, Unread
  <2>3. CASE Stall
    <3>1. UNCHANGED outPipe /\ host' \in {host, "idle"}
      BY <2>3 DEF Stall, Return
    <3> QED
      BY <2>1, <2>2, <3>1 DEF Undamaged
  <2> DEFINE k == IF host = "command" THEN data ELSE "data"
             next == IF host = "command" THEN AfterCommand ELSE "response"
             last == Len(outPipe) + 1
  <2>4. CASE Sent(k, next)
    <3>1. host' = next /\ next # "idle" /\ next # host
      BY <1>a, <2>1, <2>4 DEF Sent, AfterCommand, TypeOK, Directions
    <3>2. /\ Len(outPipe') = last
          /\ \A m \in 1..Len(outPipe) : outPipe'[m] = outPipe[m]
          /\ outPipe'[last].kind = k /\ outPipe'[last].n = count
      BY <1>a, <1>2, <3>1, HostSends
    <3>3. \A m \in 1..Len(outPipe') : m \in 1..Len(outPipe) \/ m = last
      BY <1>a, <3>2
    <3>4. CASE host = "command"
      <4>1. \A m \in 1..Len(outPipe) : outPipe[m].n < count
        BY <1>a, <3>4 DEF SentOnce
      <4>2. host' # "data_rest" /\ (host' = "response" => data # "in")
            /\ (host' \in {"idle", "command", "data_out"} => data = "out")
        BY <1>a, <3>1, <3>4 DEF AfterCommand, TypeOK, Directions
      <4>3. \A m \in 1..Len(outPipe') :
              /\ outPipe'[m].n < count \/ host' \in {"idle", "command", "data_out"} =>
                   outPipe'[m].kind = "out"
              /\ outPipe'[m].n = count => outPipe'[m].kind \in {data, "data"}
        <5> SUFFICES ASSUME NEW m \in 1..Len(outPipe')
                     PROVE  /\ outPipe'[m].n < count
                                 \/ host' \in {"idle", "command", "data_out"} =>
                                 outPipe'[m].kind = "out"
                            /\ outPipe'[m].n = count =>
                                 outPipe'[m].kind \in {data, "data"}
          OBVIOUS
        <5>1. CASE m \in 1..Len(outPipe)
          BY <2>2, <3>2, <5>1
        <5>2. CASE m = last
          BY <1>a, <3>2, <3>4, <4>2, <5>2
        <5> QED
          BY <3>3, <5>1, <5>2
      <4> QED
        BY <2>1, <2>2, <4>2, <4>3 DEF Undamaged
    <3>5. CASE host = "data_out"
      <4>1. host' = "response" /\ data = "out"
        BY <1>a, <3>1, <3>5 DEF Progress
      <4>2. \A m \in 1..Len(outPipe') :
              /\ outPipe'[m].n < count => outPipe'[m].kind = "out"
              /\ outPipe'[m].n = count => outPipe'[m].kind \in {data, "data"}
        <5> SUFFICES ASSUME NEW m \in 1..Len(outPipe')
                     PROVE  /\ outPipe'[m].n < count => outPipe'[m].kind = "out"
                            /\ outPipe'[m].n = count =>
                                 outPipe'[m].kind \in {data, "data"}
          OBVIOUS
        <5>1. CASE m \in 1..Len(outPipe)
          BY <2>2, <3>2, <5>1
        <5>2. CASE m = last
          BY <1>a, <3>2, <3>5, <5>2
        <5> QED
          BY <3>3, <5>1, <5>2
      <4> QED
        BY <2>1, <2>2, <4>1, <4>2 DEF Undamaged
    <3> QED
      BY <2>1, <3>4, <3>5
  <2>5. Stall \/ Sent(k, next)
    BY <1>2, <2>1 DEF SendCommand, SendData, Send, SendFails
  <2> QED
    BY <2>3, <2>4, <2>5
<1>3. CASE SkipEmpty \/ ReadFails \/ RecvData \/ RecvRest \/ RecvResponse
  <2>1. faults = 0
    BY <1>3, <1>b DEF SkipEmpty, ReadFails, RecvData, RecvRest, RecvResponse, Fault, NoFault
  <2> QED
    BY <1>3, <2>1, UndamagedReads
<1>4. CASE Camera
  <2>1. faults = 0
    BY <1>4 DEF Camera
  <2> QED
    BY <1>4, <2>1, UndamagedCamera
<1>5. CASE UNCHANGED vars
  BY <1>5 DEF Undamaged, Unread, Holds
<1> QED
  BY <1>1, <1>2, <1>3, <1>4, <1>5, Steps

\* As long as no transfer and no allocation has failed, the IN pipe is empty
\* between transactions: refusals, stalls and data of any length put nothing out
\* of step.
THEOREM InStepHolds == Spec => []InStep
<1>1. Init => Undamaged
  BY DEF Init, Undamaged
<1>2. Spec => []Undamaged
  BY <1>1, UndamagedStep, PipeInvHolds, PTL DEF Spec
<1>3. Undamaged => InStep
  BY DEF Undamaged, Unread, InStep
<1> QED
  BY <1>2, <1>3, PTL

-----------------------------------------------------------------------------
(* Out of step once, out of step for good.                                 *)

\* While something of an earlier transaction is owed, the next container to read is
\* not of the transaction under way.
LEMMA HeadIsOld ==
  ASSUME PipeInv, Owed, host # "idle", inPipe # <<>>
  PROVE  Head(inPipe) = inPipe[1] /\ inPipe[1].n # count
<1>a. TypeOK /\ InOrder /\ inPipe \in Seq(Units)
  BY DEF PipeInv, Inv, TypeOK
<1>1. Head(inPipe) = inPipe[1] /\ 1 \in 1..Len(inPipe)
  BY <1>a, TakeFirst
<1>2. /\ count \in Nat
      /\ \A k \in 1..Len(inPipe) : inPipe[k].n \in Nat
      /\ \A k \in 1..Len(outPipe) : outPipe[k].n \in Nat
  BY <1>a, PipeNumbers
<1>3. CASE \E k \in 1..Len(inPipe) : inPipe[k].n < count
  <2>1. PICK k \in 1..Len(inPipe) : inPipe[k].n < count
    BY <1>3
  <2>2. k = 1 \/ inPipe[1].n <= inPipe[k].n
    BY <1>a, <1>1 DEF InOrder
  <2> QED
    BY <1>1, <1>2, <2>1, <2>2
<1>4. CASE \E k \in 1..Len(outPipe) : outPipe[k].n < count
  BY <1>a, <1>1, <1>2, <1>4 DEF InOrder
<1> QED
  BY <1>3, <1>4 DEF Owed, Reading

\* A transaction that gives up while something is owed leaves its own answer, or
\* its own command, for the next.
LEMMA OwesItsOwn ==
  ASSUME PipeInv, Owed, host \in {"data_in", "response"}, host' = "idle",
         UNCHANGED <<outPipe, count>>,
         UNCHANGED inPipe \/ (inPipe # <<>> /\ inPipe' = Tail(inPipe))
  PROVE  Owed'
<1>a. TypeOK /\ AnswerComes /\ inPipe \in Seq(Units)
  BY DEF PipeInv, Inv, TypeOK
<1>b. count \in Nat /\ Reading' = count + 1
  BY <1>a, PipeNumbers DEF Reading
<1>1. CASE \E k \in 1..Len(outPipe) : outPipe[k].kind # "out" /\ outPipe[k].n = count
  BY <1>b, <1>1 DEF Owed
<1>2. CASE \E k \in 1..Len(inPipe) : inPipe[k].kind = "response" /\ inPipe[k].n = count
  <2>1. PICK k \in 1..Len(inPipe) : inPipe[k].kind = "response" /\ inPipe[k].n = count
    BY <1>2
  <2>2. \E m \in 1..Len(inPipe') : inPipe'[m].kind = "response" /\ inPipe'[m].n = count'
    <3>1. CASE UNCHANGED inPipe
      BY <2>1, <3>1
    <3>2. CASE inPipe # <<>> /\ inPipe' = Tail(inPipe)
      <4>1. Head(inPipe).n # count
        BY <3>2, HeadIsOld
      <4> QED
        BY <1>a, <2>1, <3>2, <4>1, ResponseStays
    <3> QED
      BY <3>1, <3>2
  <2> QED
    BY <1>b, <2>2 DEF Owed
<1> QED
  BY <1>a, <1>1, <1>2 DEF AnswerComes

\* The camera's steps keep what is owed: the answer to an earlier command is of
\* that command.
LEMMA OwedCamera ==
  ASSUME PipeInv, Owed, Camera
  PROVE  Owed'
<1>a. TypeOK /\ DataFollows
  BY DEF PipeInv, Inv
<1>1. PICK j \in {1, 2}, ans \in AnswerShapes \cup {<<>>} :
             TakenOff(j) /\ PutBehind(ans) /\ AnswerTo(j, ans)
  BY <1>a, CameraAnswers
<1>2. Reading' = Reading /\ Len(inPipe) \in Nat /\ Len(outPipe) \in Nat
  BY <1>a, PipeNumbers DEF Camera, Reading
<1>3. CASE \E k \in 1..Len(inPipe) : inPipe[k].kind # "zlp" /\ inPipe[k].n < Reading
  <2>1. PICK k \in 1..Len(inPipe) : inPipe[k].kind # "zlp" /\ inPipe[k].n < Reading
    BY <1>3
  <2>2. Len(ans) \in Nat
    BY <1>1, ShapeFacts
  <2>3. k \in 1..Len(inPipe') /\ inPipe'[k] = inPipe[k]
    BY <1>1, <1>2, <2>2 DEF PutBehind
  <2> QED
    BY <1>2, <2>1, <2>3 DEF Owed
<1>4. CASE \E k \in 1..Len(outPipe) : outPipe[k].kind # "out" /\ outPipe[k].n < Reading
  <2>1. PICK k \in 1..Len(outPipe) : outPipe[k].kind # "out" /\ outPipe[k].n < Reading
    BY <1>4
  <2>2. CASE k > j
    <3>1. k - j \in 1..Len(outPipe') /\ (k - j) + j = k
      BY <1>1, <2>2 DEF TakenOff
    <3>2. outPipe'[k - j] = outPipe[k]
      BY <1>1, <3>1 DEF TakenOff
    <3> QED
      BY <1>2, <2>1, <3>1, <3>2 DEF Owed
  <2>3. CASE k <= j
    <3>1. ans \in AnswerShapes /\ outPipe[1].n = outPipe[k].n
      <4>1. CASE k = 1
        BY <1>1, <2>1, <4>1 DEF AnswerTo, AnswerShapes
      <4>2. CASE k = 2
        <5>1. ans = <<"response">> /\ outPipe[2].kind = "data"
          BY <1>1, <2>1, <2>3, <4>2 DEF AnswerTo
        <5>2. outPipe[2 - 1].n = outPipe[2].n
          BY <1>a, <2>1, <4>2, <5>1 DEF DataFollows
        <5> QED
          BY <4>2, <5>1, <5>2 DEF AnswerShapes
      <4> QED
        BY <2>3, <4>1, <4>2
    <3>2. Len(ans) \in 1..Len(ans) /\ ans[Len(ans)] = "response"
      BY <3>1, ShapeFacts
    <3>3. Len(inPipe) + Len(ans) \in 1..Len(inPipe')
      BY <1>1, <3>1, ShapeFacts DEF PutBehind
    <3>4. /\ inPipe'[Len(inPipe) + Len(ans)].kind = "response"
          /\ inPipe'[Len(inPipe) + Len(ans)].n = outPipe[k].n
      BY <1>1, <3>1, <3>2 DEF PutBehind
    <3> QED
      BY <1>2, <2>1, <3>3, <3>4 DEF Owed
  <2> QED
    BY <1>1, <2>2, <2>3 DEF TakenOff
<1> QED
  BY <1>3, <1>4 DEF Owed

\* Host and camera do not come back in step.
LEMMA OutOfStepStep == PipeInv /\ OutOfStep /\ [Next]_vars => OutOfStep'
<1> SUFFICES ASSUME PipeInv, OutOfStep, [Next]_vars PROVE OutOfStep'
  OBVIOUS
<1>a. /\ TypeOK /\ IdsAgree /\ Progress /\ Owed /\ host # "data_rest"
      /\ host = "idle" => result # "OK"
  BY DEF PipeInv, Inv, OutOfStep
<1>b. /\ Len(inPipe) \in Nat /\ Len(outPipe) \in Nat /\ count \in Nat
      /\ \A k \in 1..Len(inPipe) : inPipe[k].n \in Nat
      /\ \A k \in 1..Len(outPipe) : outPipe[k].n \in Nat
      /\ inPipe \in Seq(Units)
  BY <1>a, PipeNumbers DEF TypeOK
<1>1. ASSUME NEW d \in Directions, Begin(d) PROVE OutOfStep'
  <2>1. Reading' = Reading /\ UNCHANGED <<inPipe, outPipe>> /\ host' = "command"
    BY <1>1 DEF Begin, Reading
  <2> QED
    BY <1>a, <2>1 DEF OutOfStep, Owed
<1>2. CASE SendCommand \/ SendData
  <2>1. /\ UNCHANGED <<inPipe, count>> /\ host \in {"command", "data_out"}
        /\ \A k \in 1..Len(outPipe) : k \in 1..Len(outPipe') /\ outPipe'[k] = outPipe[k]
    BY <1>2, <1>a, <1>b, HostSends
  <2>2. /\ host' # "data_rest" /\ (host' = "idle" => result' # "OK")
    BY <1>2, <1>a DEF SendCommand, SendData, Send, Stall, SendFails, Sent, Return, AfterCommand,
       TypeOK, Directions
  <2>3. Reading = count /\ Reading' \in {count, count + 1}
    BY <2>1 DEF Reading
  <2>4. \A n \in Nat : n < Reading => n < Reading'
    BY <1>b, <2>3
  <2>5. Owed'
    <3>1. CASE \E k \in 1..Len(inPipe) : inPipe[k].kind # "zlp" /\ inPipe[k].n < Reading
      BY <1>b, <2>1, <2>4, <3>1 DEF Owed
    <3>2. CASE \E k \in 1..Len(outPipe) : outPipe[k].kind # "out" /\ outPipe[k].n < Reading
      <4>1. PICK k \in 1..Len(outPipe) : outPipe[k].kind # "out" /\ outPipe[k].n < Reading
        BY <3>2
      <4> QED
        BY <1>b, <2>1, <2>4, <4>1 DEF Owed
    <3> QED
      BY <1>a, <3>1, <3>2 DEF Owed
  <2> QED
    BY <2>2, <2>5 DEF OutOfStep
<1>3. CASE SkipEmpty
  <2>1. /\ inPipe # <<>> /\ inPipe' = Tail(inPipe) /\ Head(inPipe).kind = "zlp"
        /\ UNCHANGED <<outPipe, host, count, result>> /\ Reading' = Reading
    BY <1>3 DEF SkipEmpty, Reading
  <2>2. /\ Head(inPipe) = inPipe[1] /\ Len(inPipe') = Len(inPipe) - 1
        /\ \A k \in 1..Len(inPipe') : inPipe'[k] = inPipe[k + 1]
    BY <1>b, <2>1, TakeFirst
  <2>3. CASE \E k \in 1..Len(inPipe) : inPipe[k].kind # "zlp" /\ inPipe[k].n < Reading
    <3>1. PICK k \in 1..Len(inPipe) : inPipe[k].kind # "zlp" /\ inPipe[k].n < Reading
      BY <2>3
    <3>a. k # 1
      BY <2>1, <2>2, <3>1
    <3>2. k - 1 \in 1..Len(inPipe') /\ (k - 1) + 1 = k
      BY <1>b, <2>2, <3>a
    <3>3. inPipe'[k - 1] = inPipe[k]
      BY <2>2, <3>2
    <3> QED
      BY <1>a, <2>1, <3>1, <3>2, <3>3 DEF OutOfStep, Owed
  <2>4. CASE \E k \in 1..Len(outPipe) : outPipe[k].kind # "out" /\ outPipe[k].n < Reading
    BY <1>a, <2>1, <2>4 DEF OutOfStep, Owed
  <2> QED
    BY <1>a, <2>3, <2>4 DEF Owed
<1>4. CASE ReadFails \/ RecvData \/ RecvResponse
  <2>1. ASSUME NEW kinds, inPipe # <<>>, host # "idle"
        PROVE  Check(Head(inPipe), kinds) # "OK"
    <3>1. Head(inPipe).n # count
      BY <2>1, HeadIsOld, <1>a
    <3> QED
      BY <1>a, <2>1, <3>1, CheckedIsOwn
  <2>2. /\ host \in {"data_in", "response"} /\ UNCHANGED <<outPipe, count>>
        /\ UNCHANGED inPipe \/ (inPipe # <<>> /\ inPipe' = Tail(inPipe))
        /\ host' = "idle" /\ result' # "OK"
    <3>1. CASE ReadFails
      BY <1>a, <3>1 DEF ReadFails, Return
    <3>2. CASE RecvData
      <4>1. inPipe # <<>> /\ host = "data_in"
        BY <3>2 DEF RecvData, Readable
      <4>2. Check(Head(inPipe), {"data", "long"}) # "OK"
        BY <2>1, <4>1
      <4> QED
        BY <3>2, <4>1, <4>2 DEF RecvData, Return
    <3>3. CASE RecvResponse
      <4>1. inPipe # <<>> /\ host = "response"
        BY <3>3 DEF RecvResponse, Readable
      <4>2. Check(Head(inPipe), {"response"}) # "OK"
        BY <2>1, <4>1
      <4> QED
        BY <3>3, <4>1, <4>2 DEF RecvResponse, Return
    <3> QED
      BY <1>4, <3>1, <3>2, <3>3
  <2>3. Owed'
    BY <1>a, <2>2, OwesItsOwn
  <2> QED
    BY <2>2, <2>3 DEF OutOfStep
<1>5. ~RecvRest
  BY <1>a DEF RecvRest
<1>6. CASE Camera
  <2>1. Owed' /\ UNCHANGED <<host, result>>
    BY <1>6, <1>a, OwedCamera DEF Camera
  <2> QED
    BY <1>a, <2>1 DEF OutOfStep
<1>7. CASE UNCHANGED vars
  BY <1>7, <1>a DEF OutOfStep, Owed, Reading
<1> QED
  BY <1>1, <1>2, <1>3, <1>4, <1>5, <1>6, <1>7, Steps

\* Once a transaction has left a container in the pipe, no later one succeeds: each
\* reads what an earlier one left, refuses it and leaves its own.
THEOREM OutOfStepStaysHolds == Spec => OutOfStepStays
<1>1. PipeInv /\ host = "idle" /\ Leftover => OutOfStep
  <2> SUFFICES ASSUME PipeInv, host = "idle", Leftover PROVE OutOfStep
    OBVIOUS
  <2>a. TypeOK /\ InOrder /\ CleanAfterSuccess
    BY DEF PipeInv, Inv
  <2>1. PICK k \in 1..Len(inPipe) : inPipe[k].kind # "zlp"
    BY DEF Leftover
  <2>2. inPipe[k].n \in Nat /\ inPipe[k].n > 0 /\ inPipe[k].n <= count /\ count \in Nat
    BY <2>a, <2>1, PipeNumbers DEF InOrder
  <2>3. inPipe # <<>>
    BY <2>1, <2>a, NoneLeft
  <2>4. result # "OK"
    BY <2>a, <2>2, <2>3 DEF CleanAfterSuccess, Succeeded
  <2> QED
    BY <2>1, <2>2, <2>4 DEF OutOfStep, Owed, Reading
<1>2. OutOfStep => (host = "idle" => result # "OK")
  BY DEF OutOfStep
<1> QED
  BY <1>1, <1>2, OutOfStepStep, PipeInvHolds, PTL DEF Spec, OutOfStepStays

-----------------------------------------------------------------------------
(* The transactions implement Commands.                                    *)

\* A step that changes neither host's place from busy to idle nor back, nor the
\* open commands, nor the replies, is none of Commands'.
LEMMA NoCommandStep ==
  ASSUME UNCHANGED <<count, result, executed>>, host # "idle", host' # "idle",
         Open' = Open, Replies' = Replies
  PROVE  UNCHANGED C!cvars
BY DEF C!cvars

\* A transaction that fails in one step.
LEMMA FailStep ==
  ASSUME UNCHANGED <<count, executed>>, host # "idle", host' = "idle", result' # "OK",
         Open' \in {Open, Open \ {count}},
         \E lost \in {{}} \cup {{n} : n \in Replies} : Replies' = Replies \ lost
  PROVE  C!Fail
<1>1. (host # "idle")' = FALSE /\ (result = "OK")' = FALSE
  OBVIOUS
<1> QED
  BY <1>1 DEF C!Fail

\* What a step that reads does to the replies: it leaves them, or it takes the one
\* at the head, if that is one.
LEMMA RepliesRead ==
  ASSUME PipeInv, inPipe # <<>>, inPipe' = Tail(inPipe)
  PROVE  IF Head(inPipe).kind = "response"
         THEN Head(inPipe).n \in Replies /\ Replies' = Replies \ {Head(inPipe).n}
         ELSE Replies' = Replies
<1>a. InOrder /\ TypeOK /\ inPipe \in Seq(Units)
  BY DEF PipeInv, Inv, TypeOK
<1>b. /\ Len(inPipe) \in Nat
      /\ \A k \in 1..Len(inPipe) : inPipe[k].n \in Nat
  BY <1>a, PipeNumbers
<1>1. /\ Head(inPipe) = inPipe[1] /\ 1 \in 1..Len(inPipe)
      /\ Len(inPipe') = Len(inPipe) - 1
      /\ \A k \in 1..Len(inPipe') : inPipe'[k] = inPipe[k + 1] /\ k + 1 \in 2..Len(inPipe)
  BY <1>a, TakeFirst
<1>2. \A n : n \in Replies <=>
               \E k \in 1..Len(inPipe) : inPipe[k].kind = "response" /\ inPipe[k].n = n
  BY DEF Replies
<1>3. \A n : n \in Replies' <=>
               \E k \in 1..Len(inPipe') : inPipe'[k].kind = "response" /\ inPipe'[k].n = n
  BY DEF Replies
<1>4. \A n : n \in Replies' <=>
               \E k \in 2..Len(inPipe) : inPipe[k].kind = "response" /\ inPipe[k].n = n
  <2>1. ASSUME NEW k \in 2..Len(inPipe)
        PROVE  k - 1 \in 1..Len(inPipe') /\ inPipe'[k - 1] = inPipe[k]
    <3>1. k - 1 \in 1..Len(inPipe') /\ (k - 1) + 1 = k
      BY <1>b, <1>1
    <3> QED
      BY <1>1, <3>1
  <2>2. ASSUME NEW n, NEW k \in 1..Len(inPipe'), inPipe'[k].kind = "response",
               inPipe'[k].n = n
        PROVE  \E m \in 2..Len(inPipe) : inPipe[m].kind = "response" /\ inPipe[m].n = n
    <3>1. k + 1 \in 2..Len(inPipe) /\ inPipe'[k] = inPipe[k + 1]
      BY <1>1
    <3> QED
      BY <2>2, <3>1
  <2>3. ASSUME NEW n, NEW m \in 2..Len(inPipe), inPipe[m].kind = "response",
               inPipe[m].n = n
        PROVE  \E k \in 1..Len(inPipe') : inPipe'[k].kind = "response" /\ inPipe'[k].n = n
    BY <2>1, <2>3
  <2> QED
    BY <1>3, <2>2, <2>3
<1>5. \A k \in 1..Len(inPipe) : k = 1 \/ k \in 2..Len(inPipe)
  BY <1>b
<1>6. \A k \in 2..Len(inPipe) : k \in 1..Len(inPipe)
  BY <1>b
<1>7. CASE Head(inPipe).kind = "response"
  <2>1. \A k \in 2..Len(inPipe) : inPipe[k].n # inPipe[1].n
    BY <1>a, <1>b, <1>1, <1>7 DEF InOrder
  <2>2. \A n : n \in Replies' <=> (n \in Replies /\ n # inPipe[1].n)
    BY <1>1, <1>2, <1>4, <1>5, <1>6, <2>1
  <2>3. inPipe[1].n \in Replies
    BY <1>1, <1>2, <1>7
  <2> QED
    BY <1>1, <1>7, <2>2, <2>3
<1>8. CASE Head(inPipe).kind # "response"
  <2>1. \A n : n \in Replies' <=> n \in Replies
    BY <1>1, <1>2, <1>4, <1>5, <1>6, <1>8
  <2>2. Replies' = Replies
    BY <2>1 DEF Replies
  <2> QED
    BY <1>8, <2>2
<1> QED
  BY <1>7, <1>8

\* While it is being sent, a command is open; sending it leaves it so, or, where
\* it failed, takes it back.
LEMMA OpenSent ==
  ASSUME PipeInv, SendCommand \/ SendData
  PROVE  /\ Open' \in {Open, Open \ {count}}
         /\ host' # "idle" => Open' = Open
         /\ Replies' = Replies
<1>a. /\ TypeOK /\ Progress /\ SentOnce /\ DataFollows
      /\ Len(outPipe) \in Nat /\ count \in Nat
      /\ \A k \in 1..Len(outPipe) : outPipe[k].n \in Nat
  BY PipeNumbers DEF PipeInv, Inv
<1> DEFINE outs == {outPipe[k].n : k \in 1..Len(outPipe)}
<1>1. UNCHANGED <<inPipe, count>> /\ host \in {"command", "data_out"}
  BY <1>a, HostSends
<1>2. Replies' = Replies
  BY <1>1 DEF Replies
<1>3. Open = outs \cup (IF host = "command" THEN {count} ELSE {})
      /\ Open' = outs' \cup (IF host' = "command" THEN {count} ELSE {})
  BY <1>1 DEF Open
<1>4. host = "command" => count \notin outs
  BY <1>a DEF SentOnce
<1>5. host = "data_out" => count \in outs
  <2> SUFFICES ASSUME host = "data_out" PROVE count \in outs
    OBVIOUS
  <2>1. Len(outPipe) \in 1..Len(outPipe) /\ outPipe[Len(outPipe)].n = count
    BY <1>a, EmptySeq DEF DataFollows, TypeOK
  <2> QED
    BY <2>1
<1>6. CASE UNCHANGED outPipe /\ host' \in {host, "idle"}
  <2>1. outs' = outs
    BY <1>6
  <2> HIDE DEF outs
  <2> QED
    BY <1>1, <1>2, <1>3, <1>4, <1>6, <2>1
<1>7. CASE /\ host' = "idle" \/ host' = IF host = "command" THEN AfterCommand
                                                            ELSE "response"
           /\ Len(outPipe') = Len(outPipe) + 1
           /\ \A k \in 1..Len(outPipe) : outPipe'[k] = outPipe[k]
           /\ outPipe'[Len(outPipe) + 1].n = count
  <2>1. host' # "command"
    BY <1>a, <1>7 DEF AfterCommand, TypeOK, Directions
  <2>2. outs' = outs \cup {count}
    <3>1. \A k : k \in 1..Len(outPipe') <=> k \in 1..Len(outPipe) \/ k = Len(outPipe) + 1
      BY <1>a, <1>7
    <3>2. \A n : n \in outs' <=> \E k \in 1..Len(outPipe') : outPipe'[k].n = n
      OBVIOUS
    <3>3. \A n : n \in outs <=> \E k \in 1..Len(outPipe) : outPipe[k].n = n
      OBVIOUS
    <3> HIDE DEF outs
    <3>4. \A n : n \in outs' <=> n \in outs \/ n = count
      BY <1>7, <3>1, <3>2, <3>3
    <3>5. outs' \subseteq outs \cup {count} /\ outs \cup {count} \subseteq outs'
      BY <3>4
    <3> QED
      BY <3>5
  <2> HIDE DEF outs
  <2> QED
    BY <1>1, <1>2, <1>3, <1>5, <2>1, <2>2
<1> QED
  BY <1>a, <1>6, <1>7, HostSends

\* The command that the camera takes is the oldest that is open, and then it is
\* open no more.
LEMMA OpenTaken ==
  ASSUME PipeInv, NEW j \in {1, 2}, NEW ans, AnswerTo(j, ans), TakenOff(j),
         UNCHANGED <<host, count>>, outPipe # <<>>
  PROVE  C!Oldest(outPipe[1].n) /\ Open' = Open \ {outPipe[1].n}
<1>a. /\ TypeOK /\ SentOnce /\ DataFollows
      /\ Len(outPipe) \in Nat /\ count \in Nat
      /\ \A k \in 1..Len(outPipe) : outPipe[k].n \in Nat
  BY PipeNumbers DEF PipeInv, Inv
<1> DEFINE first == outPipe[1].n
<1>1. 1 \in 1..Len(outPipe)
  BY <1>a DEF TakenOff
<1>2. \A n : n \in Open <=> \/ \E k \in 1..Len(outPipe) : outPipe[k].n = n
                            \/ host = "command" /\ n = count
  BY DEF Open
<1>3. \A n : n \in Open' <=> \/ \E k \in 1..Len(outPipe') : outPipe'[k].n = n
                             \/ host = "command" /\ n = count
  BY DEF Open
<1>4. host = "command" => first < count
  BY <1>1, <1>a DEF SentOnce
<1>5. \A k \in 1..Len(outPipe) : k > j => first < outPipe[k].n
  <2> SUFFICES ASSUME NEW k \in 1..Len(outPipe), k > j PROVE first < outPipe[k].n
    OBVIOUS
  <2>1. 1 < k /\ (k = 2 => j = 1)
    OBVIOUS
  <2>2. ~(k = 2 /\ outPipe[k].kind = "data")
    <3> SUFFICES ASSUME k = 2, outPipe[2].kind = "data" PROVE FALSE
      OBVIOUS
    <3>1. outPipe[2 - 1].kind = "out"
      BY <1>a DEF DataFollows
    <3> QED
      BY <2>1, <3>1 DEF AnswerTo
  <2> QED
    BY <1>1, <1>a, <2>1, <2>2 DEF DataFollows
<1>6. \A k \in 1..Len(outPipe) : k <= j => outPipe[k].n = first
  <2> SUFFICES ASSUME 2 \in 1..Len(outPipe), j = 2 PROVE outPipe[2].n = first
    OBVIOUS
  <2>1. outPipe[2].kind = "data"
    BY DEF AnswerTo
  <2>2. outPipe[2 - 1].n = outPipe[2].n
    BY <1>a, <2>1 DEF DataFollows
  <2> QED
    BY <2>2
<1>7. \A n : (\E k \in 1..Len(outPipe') : outPipe'[k].n = n) <=>
             (\E k \in 1..Len(outPipe) : k > j /\ outPipe[k].n = n)
  <2>1. \A k \in 1..Len(outPipe') :
          k + j \in 1..Len(outPipe) /\ k + j > j /\ outPipe'[k] = outPipe[k + j]
    BY <1>a DEF TakenOff
  <2>2. ASSUME NEW k \in 1..Len(outPipe), k > j
        PROVE  k - j \in 1..Len(outPipe') /\ outPipe'[k - j] = outPipe[k]
    <3>1. k - j \in 1..Len(outPipe') /\ (k - j) + j = k
      BY <1>a, <2>2 DEF TakenOff
    <3> QED
      BY <3>1 DEF TakenOff
  <2>3. ASSUME NEW n, NEW k \in 1..Len(outPipe'), outPipe'[k].n = n
        PROVE  \E m \in 1..Len(outPipe) : m > j /\ outPipe[m].n = n
    BY <2>1, <2>3
  <2>4. ASSUME NEW n, NEW k \in 1..Len(outPipe), k > j, outPipe[k].n = n
        PROVE  \E m \in 1..Len(outPipe') : outPipe'[m].n = n
    BY <2>2, <2>4
  <2> QED
    BY <2>3, <2>4
<1>8. first \in Open /\ \A m \in Open : first <= m
  <2>1. \A k \in 1..Len(outPipe) : first <= outPipe[k].n
    BY <1>1, <1>a, <1>5, <1>6
  <2>2. host = "command" => first <= count
    BY <1>1, <1>4, <1>a
  <2> HIDE DEF first
  <2>3. first \in Open
    BY <1>1, <1>2 DEF first
  <2> QED
    BY <1>2, <2>1, <2>2, <2>3
<1>9. \A n : n \in Open' <=> n \in Open /\ n # first
  <2>1. \A k \in 1..Len(outPipe) : outPipe[k].n # first <=> k > j
    BY <1>1, <1>a, <1>5, <1>6
  <2>2. host = "command" => count # first
    BY <1>1, <1>4, <1>a
  <2> HIDE DEF first
  <2> QED
    BY <1>2, <1>3, <1>7, <2>1, <2>2
<1>10. Open' = Open \ {first}
  <2> HIDE DEF first
  <2> QED
    BY <1>9
<1> QED
  BY <1>8, <1>10 DEF C!Oldest

\* A camera step answers the oldest open command, or forgets it.
LEMMA CameraIsStep ==
  ASSUME PipeInv, Camera
  PROVE  \E n \in Open : C!Answer(n) \/ C!Forget(n)
<1>a. TypeOK /\ Len(inPipe) \in Nat
  BY PipeNumbers DEF PipeInv, Inv
<1>1. PICK j \in {1, 2}, ans \in AnswerShapes \cup {<<>>} :
             TakenOff(j) /\ PutBehind(ans) /\ AnswerTo(j, ans)
  BY <1>a, CameraAnswers
<1>2. outPipe # <<>> /\ UNCHANGED <<host, count, result>>
  BY DEF Camera
<1> DEFINE first == outPipe[1].n
<1>3. C!Oldest(first) /\ Open' = Open \ {first}
  BY <1>1, <1>2, OpenTaken
<1>4. first \in Open
  BY <1>3 DEF C!Oldest
<1>5. executed' \in {executed, [executed EXCEPT ![first] = @ + 1]}
  BY <1>a, CameraMoves DEF Execute
<1>6. CASE ans = <<>>
  <2>1. UNCHANGED <<inPipe, executed>>
    BY <1>1, <1>6 DEF AnswerTo, AnswerShapes, Camera
  <2>2. Replies' = Replies
    BY <2>1 DEF Replies
  <2>3. C!Forget(first)
    BY <1>2, <1>3, <2>1, <2>2 DEF C!Forget
  <2> QED
    BY <1>4, <2>3
<1>7. CASE ans \in AnswerShapes
  <2> DEFINE last == Len(inPipe) + Len(ans)
  <2>1. /\ Len(ans) \in Nat /\ Len(ans) >= 1 /\ Len(inPipe') = last /\ last \in 1..last
        /\ inPipe'[last].kind = "response" /\ inPipe'[last].n = first
        /\ \A k \in 1..Len(inPipe) : inPipe'[k] = inPipe[k] /\ k \in 1..last
        /\ \A m \in 1..Len(ans) : inPipe'[Len(inPipe) + m].kind = ans[m]
    BY <1>a, <1>1, <1>7, ShapeFacts DEF PutBehind
  <2>2. \A k \in 1..last : k > Len(inPipe) /\ inPipe'[k].kind = "response" => k = last
    <3> SUFFICES ASSUME NEW k \in 1..last, k > Len(inPipe), inPipe'[k].kind = "response"
                 PROVE  k = last
      OBVIOUS
    <3> DEFINE m == k - Len(inPipe)
    <3>1. m \in 1..Len(ans) /\ k = Len(inPipe) + m
      BY <1>a, <2>1
    <3>2. ans[m] = "response"
      BY <2>1, <3>1
    <3>3. m = Len(ans)
      BY <1>7, <3>1, <3>2, ShapeFacts
    <3> QED
      BY <3>1, <3>3
  <2>3. \A k \in 1..last : k \in 1..Len(inPipe) \/ k > Len(inPipe)
    BY <1>a
  <2>4. \A n : n \in Replies <=>
                 \E k \in 1..Len(inPipe) : inPipe[k].kind = "response" /\ inPipe[k].n = n
    BY DEF Replies
  <2>5. \A n : n \in Replies' <=>
                 \E k \in 1..last : inPipe'[k].kind = "response" /\ inPipe'[k].n = n
    BY <2>1 DEF Replies
  <2> HIDE DEF last, first
  <2>6. \A n : n \in Replies' <=> n \in Replies \/ n = first
    <3> SUFFICES ASSUME NEW n PROVE n \in Replies' <=> n \in Replies \/ n = first
      OBVIOUS
    <3>1. ASSUME n \in Replies' PROVE n \in Replies \/ n = first
      <4>1. PICK k \in 1..last : inPipe'[k].kind = "response" /\ inPipe'[k].n = n
        BY <2>5, <3>1
      <4>2. CASE k \in 1..Len(inPipe)
        <5>1. inPipe[k].kind = "response" /\ inPipe[k].n = n
          BY <2>1, <4>1, <4>2
        <5> QED
          BY <2>4, <4>2, <5>1
      <4>3. CASE k > Len(inPipe)
        BY <2>1, <2>2, <4>1, <4>3
      <4> QED
        BY <2>3, <4>2, <4>3
    <3>2. ASSUME n \in Replies PROVE n \in Replies'
      <4>1. PICK k \in 1..Len(inPipe) : inPipe[k].kind = "response" /\ inPipe[k].n = n
        BY <2>4, <3>2
      <4>2. k \in 1..last /\ inPipe'[k] = inPipe[k]
        BY <2>1
      <4> QED
        BY <2>5, <4>1, <4>2
    <3>3. first \in Replies'
      BY <2>1, <2>5
    <3> QED
      BY <3>1, <3>2, <3>3
  <2>7. Replies' = Replies \cup {first}
    <3>1. Replies' \subseteq Replies \cup {first} /\ Replies \cup {first} \subseteq Replies'
      BY <2>6
    <3> QED
      BY <3>1
  <2>8. C!Answer(first)
    BY <1>2, <1>3, <1>5, <2>7 DEF C!Answer
  <2> QED
    BY <1>4, <2>8
<1> QED
  BY <1>6, <1>7

\* A transaction that succeeds takes the one answer that is there, to the one
\* command that was open.
LEMMA SuccessIsStep ==
  ASSUME PipeInv, PipeInv', RecvResponse, result' = "OK"
  PROVE  C!Succeed
<1>a. TypeOK /\ IdsAgree /\ Progress /\ CleanAfterSuccess' /\ TypeOK'
  BY DEF PipeInv, Inv
<1>1. /\ host = "response" /\ host' = "idle" /\ inPipe # <<>> /\ inPipe' = Tail(inPipe)
      /\ UNCHANGED <<outPipe, count, executed>>
      /\ Check(Head(inPipe), {"response"}) = "OK"
  BY DEF RecvResponse, Return, Readable
<1>2. Head(inPipe).n = count /\ Head(inPipe).kind = "response" /\ count > 0
  BY <1>a, <1>1, CheckedIsOwn DEF Progress
<1>3. outPipe' = <<>> /\ inPipe' = <<>>
  BY <1>a, <1>1, <1>2 DEF CleanAfterSuccess, Succeeded
<1>4. Len(outPipe) = 0 /\ Len(inPipe') = 0
  BY <1>1, <1>3
<1>5. Open = {} /\ Open' = {}
  BY <1>1, <1>4 DEF Open
<1>6. Replies' = {}
  BY <1>4 DEF Replies
<1>7. Replies = {count}
  <2>1. count \in Replies /\ Replies' = Replies \ {count}
    BY <1>1, <1>2, RepliesRead
  <2> QED
    BY <1>6, <2>1
<1>8. (host # "idle") = TRUE /\ (host # "idle")' = FALSE /\ (result = "OK")' = TRUE
  BY <1>1
<1> QED
  BY <1>1, <1>5, <1>6, <1>7, <1>8 DEF C!Succeed

\* Each step of the transactions is a step of Commands, or none.
LEMMA CommandsStep == PipeInv /\ PipeInv' /\ [Next]_vars => [C!CNext]_C!cvars
<1> SUFFICES ASSUME PipeInv, PipeInv', [Next]_vars PROVE C!CNext \/ UNCHANGED C!cvars
  OBVIOUS
<1>a. TypeOK /\ TypeOK' /\ Progress
  BY DEF PipeInv, Inv
<1>1. ASSUME NEW d \in Directions, Begin(d) PROVE C!CNext
  <2>1. /\ host = "idle" /\ host' = "command" /\ count' = count + 1
        /\ count < MaxTransactions /\ UNCHANGED <<result, inPipe, outPipe, executed>>
    BY <1>1 DEF Begin
  <2>2. count' \in Transactions
    BY <2>1, <1>a, LengthAssumption DEF TypeOK, Transactions
  <2>3. Open' = Open \cup {count'} /\ Replies' = Replies
    BY <2>1 DEF Open, Replies
  <2>4. (host # "idle") = FALSE /\ (host # "idle")' = TRUE
    BY <2>1
  <2>5. C!Give
    BY <2>1, <2>2, <2>3, <2>4 DEF C!Give
  <2> QED
    BY <2>5 DEF C!CNext
<1>2. CASE SendCommand \/ SendData
  <2>1. /\ Open' \in {Open, Open \ {count}} /\ Replies' = Replies
        /\ host' # "idle" => Open' = Open
    BY <1>2, OpenSent
  <2>2. /\ UNCHANGED <<count, executed>> /\ host # "idle"
        /\ host' # "idle" => UNCHANGED result
        /\ host' = "idle" => result' # "OK"
    BY <1>2, <1>a DEF SendCommand, SendData, sendVars, Send, Stall, SendFails, Sent, Return,
       AfterCommand, TypeOK, Directions
  <2>3. CASE host' = "idle"
    <3>1. Replies' = Replies \ {}
      BY <2>1
    <3>2. C!Fail
      BY <2>1, <2>2, <2>3, <3>1, FailStep
    <3> QED
      BY <3>2 DEF C!CNext
  <2>4. CASE host' # "idle"
    BY <2>1, <2>2, <2>4, NoCommandStep
  <2> QED
    BY <2>3, <2>4
<1>3. CASE SkipEmpty \/ ReadFails \/ RecvData \/ RecvRest \/ RecvResponse
  <2>1. /\ UNCHANGED <<outPipe, count, executed>> /\ host # "idle"
        /\ host # "command" /\ host' # "command"
        /\ UNCHANGED inPipe \/ (inPipe # <<>> /\ inPipe' = Tail(inPipe))
    BY <1>3 DEF SkipEmpty, ReadFails, RecvData, RecvRest, RecvResponse, Return, Readable
  <2>2. Open' = Open
    BY <2>1 DEF Open
  <2>3. \E lost \in {{}} \cup {{n} : n \in Replies} : Replies' = Replies \ lost
    <3>1. CASE Replies' = Replies
      <4>1. Replies' = Replies \ {}
        BY <3>1
      <4> QED
        BY <4>1
    <3>2. CASE Replies' # Replies
      <4>1. inPipe # <<>> /\ inPipe' = Tail(inPipe)
        BY <2>1, <3>2 DEF Replies
      <4>2. Head(inPipe).n \in Replies /\ Replies' = Replies \ {Head(inPipe).n}
        BY <3>2, <4>1, RepliesRead
      <4> QED
        BY <4>2
    <3> QED
      BY <3>1, <3>2
  <2>4. CASE host' = "idle" /\ result' # "OK"
    <3>1. C!Fail
      BY <2>1, <2>2, <2>3, <2>4, FailStep
    <3> QED
      BY <3>1 DEF C!CNext
  <2>5. CASE host' = "idle" /\ result' = "OK"
    <3>1. RecvResponse
      BY <1>3, <2>1, <2>5 DEF SkipEmpty, ReadFails, RecvData, RecvRest, Return
    <3>2. C!Succeed
      BY <2>5, <3>1, SuccessIsStep
    <3> QED
      BY <3>2 DEF C!CNext
  <2>6. CASE host' # "idle"
    <3>1. /\ inPipe # <<>> /\ inPipe' = Tail(inPipe) /\ UNCHANGED result
          /\ Head(inPipe).kind # "response"
      <4>1. ~ReadFails /\ ~RecvResponse
        BY <2>6 DEF ReadFails, RecvResponse, Return
      <4>2. CASE SkipEmpty
        BY <4>2 DEF SkipEmpty
      <4>3. CASE RecvData
        <5>1. /\ Check(Head(inPipe), {"data", "long"}) = "OK" /\ UNCHANGED result
              /\ inPipe # <<>> /\ inPipe' = Tail(inPipe)
          BY <2>6, <4>3 DEF RecvData, Return, Readable
        <5> QED
          BY <5>1 DEF Check
      <4>4. CASE RecvRest
        BY <2>6, <4>4 DEF RecvRest, Return
      <4> QED
        BY <1>3, <4>1, <4>2, <4>3, <4>4
    <3>2. Replies' = Replies
      BY <3>1, RepliesRead
    <3> QED
      BY <2>1, <2>2, <2>6, <3>1, <3>2, NoCommandStep
  <2> QED
    BY <2>4, <2>5, <2>6
<1>4. CASE Camera
  <2>1. \E n \in Open : C!Answer(n) \/ C!Forget(n)
    BY <1>4, CameraIsStep
  <2> QED
    BY <2>1 DEF C!CNext
<1>5. CASE UNCHANGED vars
  BY <1>5 DEF C!cvars, Open, Replies
<1> QED
  BY <1>1, <1>2, <1>3, <1>4, <1>5, Steps

\* The transactions implement Commands: the camera handles the commands in their
\* order and each at most once, and a success means that its own answer was taken
\* and that nothing else is still to come.
THEOREM ImplementsCommands == Spec => CommandsSpec
<1>1. Init => C!CInit
  <2> SUFFICES ASSUME Init PROVE C!CInit
    OBVIOUS
  <2>1. Len(outPipe) = 0 /\ Len(inPipe) = 0 /\ 1..0 = {}
    BY DEF Init
  <2>2. Open = {} /\ Replies = {}
    BY <2>1 DEF Open, Replies, Init
  <2>3. (host # "idle") = FALSE /\ (result = "OK") = TRUE
    BY DEF Init
  <2> QED
    BY <2>2, <2>3 DEF Init, C!CInit
<1> QED
  BY <1>1, CommandsStep, PipeInvHolds, PTL DEF Spec, CommandsSpec, C!CSpec

-----------------------------------------------------------------------------
(* A transaction comes to its end: the argument behind Returns, but for the *)
(* fairness that turns it into liveness.                                   *)

\* While a transaction is under way, the host can go on, or the camera can.
THEOREM NeverStuckHolds == Spec => []NeverStuck
<1>1. PipeInv => NeverStuck
  <2> SUFFICES ASSUME PipeInv, host \in {"data_in", "data_rest", "response"}, inPipe = <<>>
               PROVE  /\ outPipe # <<>>
                      /\ \/ outPipe[1].kind \in {"none", "in"}
                         \/ outPipe[1].kind = "out" /\ Len(outPipe) > 1
    <3>1. PipeInv => host \in HostPlaces
      BY DEF PipeInv, Inv, TypeOK
    <3> QED
      BY <3>1 DEF NeverStuck, HostPlaces
  <2>a. TypeOK /\ DataFollows /\ AnswerComes /\ outPipe \in Seq(Containers)
    BY DEF PipeInv, Inv, TypeOK
  <2>1. PICK k \in 1..Len(outPipe) : outPipe[k].kind # "out"
    <3>1. Len(inPipe) = 0
      OBVIOUS
    <3> QED
      BY <2>a, <3>1 DEF AnswerComes
  <2>2. 1 \in 1..Len(outPipe) /\ Len(outPipe) \in Nat /\ outPipe # <<>>
    BY <2>a, <2>1, NoneLeft
  <2>b. outPipe[1] \in Containers
    BY <2>a, <2>2, ElementOfSeq
  <2>3. outPipe[1].kind \in {"none", "out", "in", "data"}
    BY <2>b DEF Containers
  <2>4. outPipe[1].kind # "data"
    BY <2>a, <2>2 DEF DataFollows
  <2>5. outPipe[1].kind = "out" => Len(outPipe) > 1
    BY <2>1, <2>2
  <2> QED
    BY <2>2, <2>3, <2>4, <2>5
<1> QED
  BY <1>1, PipeInvHolds, PTL

\* What is left to do is a number, and gets less with every step that does not end
\* the transaction; so there are only so many of them.
LEMMA AdvancesStep ==
  ASSUME PipeInv, [Next]_vars, host # "idle", host' # "idle", vars' # vars
  PROVE  LeftToDo' < LeftToDo /\ LeftToDo \in Nat
<1>a. /\ TypeOK /\ Progress
      /\ Len(inPipe) \in Nat /\ Len(outPipe) \in Nat
  BY PipeNumbers DEF PipeInv, Inv
<1>b. /\ host \in {"command", "data_out"} => attempt \in {0, 1}
      /\ host \in HostPlaces /\ Sending \in Nat
  BY <1>a DEF TypeOK, Progress, Sending, PTP_RETRY_COUNT
<1>c. LeftToDo \in Nat
  BY <1>a, <1>b DEF LeftToDo
<1>d. /\ LeftToDo = Sending + 5 * Len(outPipe) + Len(inPipe)
      /\ LeftToDo' = Sending' + 5 * Len(outPipe') + Len(inPipe')
  BY DEF LeftToDo
<1>e. Len(inPipe) \in Nat /\ Len(outPipe) \in Nat /\ Sending \in Nat
  BY <1>a, <1>b
<1>1. ~\E d \in Directions : Begin(d)
  BY DEF Begin
<1>2. CASE SendCommand \/ SendData
  <2>1. UNCHANGED inPipe /\ host \in {"command", "data_out"}
    BY <1>2, <1>a, HostSends
  <2> DEFINE next == IF host = "command" THEN AfterCommand ELSE "response"
             k == IF host = "command" THEN data ELSE "data"
  <2>2. Send(k, next)
    BY <1>2 DEF SendCommand, SendData
  <2>3. CASE Stall
    <3>1. UNCHANGED <<host, outPipe>> /\ attempt' = attempt + 1
      BY <2>3 DEF Stall, Return
    <3>2. Sending' = Sending - 1
      BY <1>b, <2>1, <3>1 DEF Sending
    <3> QED
      BY <1>a, <1>b, <1>c, <2>1, <3>1, <3>2 DEF LeftToDo
  <2>4. CASE Sent(k, next)
    <3>1. host' = next /\ attempt' = 0 /\ host' # host
      BY <1>a, <2>1, <2>4 DEF Sent, AfterCommand, TypeOK, Directions
    <3>2. Len(outPipe') = Len(outPipe) + 1
      BY <1>2, <1>a, <3>1, HostSends
    <3>3. Sending' \in {0, 10} /\ Sending >= 9 /\ (Sending' = 10 => Sending >= 19)
      <4>1. CASE host = "command"
        <5>1. host' \in {"data_out", "data_in", "response"}
          BY <1>a, <3>1, <4>1 DEF AfterCommand, TypeOK, Directions
        <5> QED
          BY <1>b, <3>1, <4>1, <5>1 DEF Sending
      <4>2. CASE host = "data_out"
        BY <1>b, <3>1, <4>2 DEF Sending
      <4> QED
        BY <2>1, <4>1, <4>2
    <3> QED
      BY <1>a, <1>b, <1>c, <2>1, <3>2, <3>3 DEF LeftToDo
  <2>5. ~SendFails(k)
    BY DEF SendFails, Return
  <2> QED
    BY <2>2, <2>3, <2>4, <2>5 DEF Send
<1>3. CASE SkipEmpty \/ ReadFails \/ RecvData \/ RecvRest \/ RecvResponse
  <2>1. /\ inPipe # <<>> /\ inPipe' = Tail(inPipe) /\ UNCHANGED outPipe
        /\ host \in {"data_in", "data_rest", "response"}
        /\ host' \in {"data_in", "data_rest", "response"}
    BY <1>3 DEF SkipEmpty, ReadFails, RecvData, RecvRest, RecvResponse, Return, Readable
  <2>2. Len(inPipe') = Len(inPipe) - 1
    BY <1>a, <2>1, TakeFirst DEF TypeOK
  <2>3. Sending = 0 /\ Sending' = 0
    BY <2>1 DEF Sending
  <2>4. Len(outPipe') = Len(outPipe)
    BY <2>1
  <2>5. LeftToDo' = LeftToDo - 1
    BY <1>d, <1>e, <2>2, <2>3, <2>4
  <2> QED
    BY <1>c, <2>5
<1>4. CASE Camera
  <2>1. PICK j \in {1, 2}, ans \in AnswerShapes \cup {<<>>} :
               TakenOff(j) /\ PutBehind(ans) /\ AnswerTo(j, ans)
    BY <1>4, <1>a, CameraAnswers
  <2>2. Len(ans) \in 0..4
    BY <2>1 DEF AnswerShapes
  <2>3. Sending' = Sending
    BY <1>4 DEF Camera, Sending
  <2>4. Len(outPipe') = Len(outPipe) - j /\ Len(inPipe') = Len(inPipe) + Len(ans)
    BY <2>1 DEF TakenOff, PutBehind
  <2>5. LeftToDo' = LeftToDo - 5 * j + Len(ans)
    BY <1>d, <1>e, <2>2, <2>3, <2>4
  <2>6. Len(ans) - 5 * j < 0 /\ j \in Nat
    <3>1. \A a \in 0..4, b \in {1, 2} : a - 5 * b < 0 /\ b \in Nat
      OBVIOUS
    <3> HIDE DEF TakenOff
    <3> QED
      BY <2>1, <2>2, <3>1
  <2> QED
    BY <1>c, <2>2, <2>5, <2>6
<1> QED
  BY <1>1, <1>2, <1>3, <1>4, Steps

\* Every step that does not end the transaction leaves less to do.
THEOREM AdvancesHolds == Spec => Advances
<1>1. PipeInv /\ [Next]_vars =>
        [host # "idle" /\ host' # "idle" => LeftToDo' < LeftToDo]_vars
  BY AdvancesStep
<1> QED
  BY <1>1, PipeInvHolds, PTL DEF Spec, Advances
=============================================================================
