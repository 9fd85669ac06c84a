------------------------------ MODULE Transact ------------------------------
(***************************************************************************)
(* The transaction layer of ptp.c: ptp_transact sends a command container, *)
(* moves data one way or the other and reads the response, over the OUT    *)
(* and the IN bulk pipe of the camera.  The host trusts what it reads only *)
(* after the checks of ptp_recv_data and ptp_recv_response; it never       *)
(* empties the IN pipe, so what a failed transaction leaves there is what  *)
(* the next one reads.                                                     *)
(*                                                                         *)
(* The IN pipe is a sequence of what single reads return.  A data          *)
(* container is "small" (less than the 512 bytes of recv_buf), a "block"   *)
(* (512 bytes, then a zero-length packet) or "long" (512 bytes, then the   *)
(* rest).                                                                  *)
(***************************************************************************)
EXTENDS Integers, Sequences

CONSTANTS
  IdSpace,          \* transaction ids are taken modulo this; 2^32 in the code
  MaxTransactions,  \* bound: transactions of a session
  MaxFaults,        \* bound: failed transfers and allocations
  MaxStalls         \* bound: stalled OUT transfers

ASSUME IdAssumption     == IdSpace \in Nat /\ IdSpace > 1
ASSUME LengthAssumption == MaxTransactions \in Nat /\ MaxTransactions < IdSpace
ASSUME FaultAssumption  == MaxFaults \in Nat /\ MaxStalls \in Nat

PTP_RETRY_COUNT == 2

VARIABLES
  host,      \* where ptp_transact is
  transaction_id,
  count,     \* transactions begun: tells apart what ids may not
  data,      \* the direction of the data phase
  attempt,   \* `i` of ptp_send
  buffer,    \* the data read: none, held by the host, given to the caller
  answer,    \* the transactions that the data and the response read belong to
  result,    \* what the last ptp_transact returned
  outPipe,   \* containers sent, not yet handled by the camera
  inPipe,    \* what the camera sent, not yet read
  executed,  \* how often the camera carried out each transaction
  faults, stalls

hostVars   == <<host, transaction_id, count, data, attempt, buffer, answer,
                result>>
cameraVars == <<outPipe, executed>>
boundVars  == <<faults, stalls>>
vars       == <<hostVars, inPipe, cameraVars, boundVars>>

Transactions == 1..MaxTransactions
HostPlaces   == {"idle", "command", "data_out", "data_in", "data_rest",
                 "response"}
Directions   == {"none", "out", "in"}
Errors       == {"USB", "MEMORY", "DATA_LEN", "TRANSACTION_ID",
                 "CONTAINER_TYPE"}

\* Containers sent, and what reads of the IN pipe return; n is the transaction.
Containers == [kind : {"none", "out", "in", "data"}, id : 0..(IdSpace - 1),
               n : Transactions]
Kinds      == {"data", "long", "rest", "zlp", "response"}
Units      == [kind : Kinds, id : 0..(IdSpace - 1), n : Transactions]

Init ==
  /\ host = "idle" /\ transaction_id = IdSpace - 1 /\ count = 0
  /\ data = "none" /\ attempt = 0 /\ buffer = "none"
  /\ answer = [data |-> 0, response |-> 0] /\ result = "OK"
  /\ outPipe = <<>> /\ inPipe = <<>>
  /\ executed = [n \in Transactions |-> 0]
  /\ faults = 0 /\ stalls = 0

-----------------------------------------------------------------------------
(* The camera (external).  It handles what it got in order, and answers    *)
(* each command or refuses it: then there is a response and no data.  A    *)
(* command whose data never came is forgotten.                             *)

Unit(c, k) == [kind |-> k, id |-> c.id, n |-> c.n]
Execute(c) == executed' = [executed EXCEPT ![c.n] = @ + 1]

\* Data of one read or of two, and a zero-length packet after data that ends with
\* a full packet.
DataReads(c) == {<<Unit(c, "data")>>, <<Unit(c, "data"), Unit(c, "zlp")>>,
                 <<Unit(c, "long"), Unit(c, "rest")>>,
                 <<Unit(c, "long"), Unit(c, "rest"), Unit(c, "zlp")>>}

Camera ==
  /\ outPipe # <<>>
  /\ LET c == Head(outPipe) IN
     \/ /\ c.kind = "none"
        /\ Execute(c) \/ UNCHANGED executed
        /\ inPipe' = Append(inPipe, Unit(c, "response"))
        /\ outPipe' = Tail(outPipe)
     \/ /\ c.kind = "in"
        /\ \/ /\ Execute(c)
              /\ \E d \in DataReads(c) :
                   inPipe' = Append(inPipe \o d, Unit(c, "response"))
           \/ UNCHANGED executed /\ inPipe' = Append(inPipe, Unit(c, "response"))
        /\ outPipe' = Tail(outPipe)
     \/ /\ c.kind = "out"
        /\ Len(outPipe) > 1
        /\ IF outPipe[2].kind = "data"
           THEN /\ Execute(c) \/ UNCHANGED executed
                /\ inPipe' = Append(inPipe, Unit(c, "response"))
                /\ outPipe' = Tail(Tail(outPipe))
           ELSE outPipe' = Tail(outPipe) /\ UNCHANGED <<executed, inPipe>>
  /\ UNCHANGED <<hostVars, boundVars>>

-----------------------------------------------------------------------------
(* The host.                                                               *)

Fault   == faults < MaxFaults /\ faults' = faults + 1
NoFault == UNCHANGED faults

Return(r) == host' = "idle" /\ result' = r

\* Mutant: the id does not come round after the last one.
Bug_Begin(d) ==
  /\ host = "idle"
  /\ count < MaxTransactions
  /\ count' = count + 1
  /\ transaction_id' = transaction_id + 1
  /\ data' = d
  /\ attempt' = 0
  /\ buffer' = "none"
  /\ answer' = [data |-> 0, response |-> 0]
  /\ host' = "command"
  /\ UNCHANGED <<result, inPipe, cameraVars, boundVars>>

\* The start of ptp_transact, given valid arguments: a new id.
Begin(d) ==
  /\ host = "idle"
  /\ count < MaxTransactions
  /\ count' = count + 1
  /\ transaction_id' = (transaction_id + 1) % IdSpace
  /\ data' = d
  /\ attempt' = 0
  /\ buffer' = "none"
  /\ answer' = [data |-> 0, response |-> 0]
  /\ host' = "command"
  /\ UNCHANGED <<result, inPipe, cameraVars, boundVars>>

\* Mutant: the last stall ends the loop like a success.
Bug_Stall ==
  /\ stalls < MaxStalls
  /\ stalls' = stalls + 1
  /\ attempt' = attempt + 1
  /\ host' = IF attempt = PTP_RETRY_COUNT - 1 THEN "response" ELSE host
  /\ UNCHANGED <<result, outPipe, faults>>

\* ptp_send.  A stalled transfer is tried again once, after the halt is
\* cleared; the camera has not seen it.  Whether the camera saw the container of
\* a transfer that failed otherwise, nobody knows.
Stall ==
  /\ stalls < MaxStalls
  /\ stalls' = stalls + 1
  /\ attempt' = attempt + 1
  /\ IF attempt = PTP_RETRY_COUNT - 1 THEN Return("USB")
                                      ELSE UNCHANGED <<host, result>>
  /\ UNCHANGED <<outPipe, faults>>

Arrives(k) ==
  outPipe' = Append(outPipe, [kind |-> k, id |-> transaction_id, n |-> count])

\* Mutant: every failed transfer is tried again, not only a stalled one.
Bug_SendFails(k) ==
  /\ Fault
  /\ Arrives(k) \/ UNCHANGED outPipe
  /\ attempt' = attempt + 1
  /\ IF attempt = PTP_RETRY_COUNT - 1 THEN Return("USB")
                                      ELSE UNCHANGED <<host, result>>
  /\ UNCHANGED stalls

SendFails(k) ==
  /\ Fault
  /\ Arrives(k) \/ UNCHANGED outPipe
  /\ Return("USB")
  /\ UNCHANGED <<attempt, stalls>>

Sent(k, next) ==
  /\ NoFault
  /\ Arrives(k)
  /\ host' = next
  /\ attempt' = 0
  /\ UNCHANGED <<result, stalls>>

Send(k, next) == Stall \/ SendFails(k) \/ Sent(k, next)

sendVars == <<transaction_id, count, data, buffer, answer, inPipe, executed>>

AfterCommand == CASE data = "out"  -> "data_out"
                  [] data = "in"   -> "data_in"
                  [] data = "none" -> "response"

SendCommand ==
  /\ host = "command"
  /\ Send(data, AfterCommand)
  /\ UNCHANGED sendVars

\* ptp_send_data, and its allocation.
SendData ==
  /\ host = "data_out"
  /\ Send("data", "response")
  /\ UNCHANGED sendVars

\* Mutant: a zero-length packet counts as a read that is too short.
Bug_SkipEmpty ==
  /\ host \in {"data_in", "response"}
  /\ inPipe # <<>> /\ Head(inPipe).kind = "zlp"
  /\ inPipe' = Tail(inPipe)
  /\ buffer' = "none"
  /\ Return("DATA_LEN")
  /\ UNCHANGED <<transaction_id, count, data, attempt, answer, cameraVars,
                 boundVars>>

\* ptp_bulk_transfer on the IN pipe reads on after a zero-length packet.
SkipEmpty ==
  /\ host \in {"data_in", "response"}
  /\ inPipe # <<>> /\ Head(inPipe).kind = "zlp"
  /\ inPipe' = Tail(inPipe)
  /\ UNCHANGED <<hostVars, cameraVars, boundVars>>

\* Something to read, other than a packet to skip.
Readable == inPipe # <<>> /\ Head(inPipe).kind # "zlp"

\* Mutant: the data read before is not freed.
Bug_ReadFails ==
  /\ host \in {"data_in", "data_rest", "response"}
  /\ Fault
  /\ UNCHANGED inPipe \/ (inPipe # <<>> /\ inPipe' = Tail(inPipe))
  /\ Return("USB")
  /\ UNCHANGED <<transaction_id, count, data, attempt, buffer, answer, cameraVars,
                 stalls>>

\* A read that fails, and the packet stays or is lost; the data read before is
\* freed.
ReadFails ==
  /\ host \in {"data_in", "data_rest", "response"}
  /\ Fault
  /\ UNCHANGED inPipe \/ (inPipe # <<>> /\ inPipe' = Tail(inPipe))
  /\ buffer' = "none"
  /\ Return("USB")
  /\ UNCHANGED <<transaction_id, count, data, attempt, answer, cameraVars, stalls>>

\* Mutant: the transaction id is not compared.
Bug_Check(u, kinds) ==
  IF u.kind = "rest" THEN "DATA_LEN"
  ELSE IF u.kind \notin kinds THEN "CONTAINER_TYPE" ELSE "OK"

\* The checks of a container read: its length against what was transferred, its
\* transaction id, its type, in this order.  The inside of a data container
\* does not pass for a container.  (Data too long for the response's buffer fails
\* in libusb before the checks; it is refused either way.)
Check(u, kinds) ==
  CASE u.kind = "rest"         -> "DATA_LEN"
    [] u.id # transaction_id   -> "TRANSACTION_ID"
    [] u.kind \notin kinds     -> "CONTAINER_TYPE"
    [] OTHER                   -> "OK"

\* ptp_recv_data reads the container, allocates the caller's buffer ...
RecvData ==
  /\ host = "data_in"
  /\ Readable
  /\ inPipe' = Tail(inPipe)
  /\ LET u == Head(inPipe)
         r == Check(u, {"data", "long"})
     IN  \/ /\ r # "OK" /\ NoFault
            /\ Return(r)
            /\ UNCHANGED <<buffer, answer>>
         \/ /\ r = "OK" /\ Fault
            /\ Return("MEMORY")
            /\ UNCHANGED <<buffer, answer>>
         \/ /\ r = "OK" /\ NoFault
            /\ buffer' = "held"
            /\ answer' = [answer EXCEPT !.data = u.n]
            /\ host' = IF u.kind = "long" THEN "data_rest" ELSE "response"
            /\ UNCHANGED result
  /\ UNCHANGED <<transaction_id, count, data, attempt, cameraVars, stalls>>

\* ... and reads the rest, without skipping packets.  A read of another length
\* is an error.
RecvRest ==
  /\ host = "data_rest"
  /\ inPipe # <<>>
  /\ inPipe' = Tail(inPipe)
  /\ \/ /\ Head(inPipe).kind = "rest"
        /\ host' = "response"
        /\ UNCHANGED <<buffer, result>>
     \/ /\ Head(inPipe).kind # "rest"
        /\ buffer' = "none"
        /\ Return("DATA_LEN")
  /\ UNCHANGED <<transaction_id, count, data, attempt, answer, cameraVars,
                 boundVars>>

\* Mutant: ptp_transact ends without reading the response.
Bug_RecvResponse ==
  /\ host = "response"
  /\ Return("OK")
  /\ answer' = [answer EXCEPT !.response = count]
  /\ buffer' = IF buffer = "held" THEN "given" ELSE "none"
  /\ UNCHANGED <<transaction_id, count, data, attempt, inPipe, cameraVars,
                 boundVars>>

\* ptp_recv_response, and the end of ptp_transact: the data goes to the caller
\* with the response, or is freed.
RecvResponse ==
  /\ host = "response"
  /\ Readable
  /\ inPipe' = Tail(inPipe)
  /\ LET u == Head(inPipe)
         r == Check(u, {"response"})
     IN  /\ Return(r)
         /\ IF r = "OK"
            THEN /\ answer' = [answer EXCEPT !.response = u.n]
                 /\ buffer' = IF buffer = "held" THEN "given" ELSE "none"
            ELSE buffer' = "none" /\ UNCHANGED answer
  /\ UNCHANGED <<transaction_id, count, data, attempt, cameraVars, boundVars>>

-----------------------------------------------------------------------------

HostStep == \/ SendCommand \/ SendData \/ SkipEmpty \/ ReadFails
            \/ RecvData \/ RecvRest \/ RecvResponse

\* No transaction is left to begin.
Finished == host = "idle" /\ count = MaxTransactions /\ UNCHANGED vars

Next == (\E d \in Directions : Begin(d)) \/ HostStep \/ Camera \/ Finished

Spec == Init /\ [][Next]_vars

\* The host's thread runs, and the camera answers what it was sent.
FairSpec == Spec /\ WF_vars(HostStep) /\ WF_vars(Camera)

-----------------------------------------------------------------------------
(* What must hold.                                                         *)

\* The values each variable takes.
TypeOK ==
  /\ host \in HostPlaces /\ data \in Directions
  /\ transaction_id \in 0..(IdSpace - 1)
  /\ count \in 0..MaxTransactions
  /\ attempt \in 0..PTP_RETRY_COUNT
  /\ buffer \in {"none", "held", "given"}
  /\ answer \in [data : 0..MaxTransactions, response : 0..MaxTransactions]
  /\ result \in Errors \cup {"OK"}
  /\ outPipe \in Seq(Containers) /\ inPipe \in Seq(Units)
  /\ executed \in [Transactions -> Nat]
  /\ faults \in Nat /\ stalls \in Nat

Succeeded == host = "idle" /\ count > 0 /\ result = "OK"

\* What ptp_transact hands out as the answer to a command is the camera's answer
\* to that command: whatever earlier transactions left in the pipe, and wherever
\* they failed, neither their data nor their response is taken for it.
OwnAnswer ==
  Succeeded => /\ answer.response = count
               /\ data = "in" => answer.data = count

\* No command is carried out twice: only what the camera has not seen is sent
\* again.
ExecutedOnce == \A n \in Transactions : executed[n] <= 1

\* A success shows that host and camera are in step: nothing sent is unhandled,
\* nothing answered is unread.
CleanAfterSuccess == Succeeded => outPipe = <<>> /\ inPipe = <<>>

\* Refusals, stalls, zero-length packets and data of any length leave nothing in
\* the pipe: only a failed transfer or allocation can put host and camera out of
\* step.
InStep == faults = 0 /\ host = "idle" => inPipe = <<>>

\* The data read is the caller's exactly when ptp_transact succeeds, and freed
\* otherwise.
BufferOwned ==
  host = "idle" =>
    /\ buffer # "held"
    /\ buffer = "given" <=> (Succeeded /\ data = "in")

\* ptp_transact returns: whatever is left in the pipe, it never waits for a
\* packet that nobody will send.  Its transfers have no time-out.
Returns == host # "idle" ~> host = "idle"

\* There is no way back in step: when a transaction has left a container in the
\* pipe, each later one reads what an earlier one left, and fails.
Leftover       == \E k \in 1..Len(inPipe) : inPipe[k].kind # "zlp"
OutOfStepStays ==
  [](host = "idle" /\ Leftover => [](host = "idle" => result # "OK"))

-----------------------------------------------------------------------------
(* The inductive invariant behind OwnAnswer, ExecutedOnce and BufferOwned.  *)

\* An id stands for one transaction, on both sides and in both pipes.
IdsAgree ==
  /\ transaction_id = IF count = 0 THEN IdSpace - 1 ELSE count - 1
  /\ \A k \in 1..Len(outPipe) : outPipe[k].id = outPipe[k].n - 1
  /\ \A k \in 1..Len(inPipe) : inPipe[k].id = inPipe[k].n - 1

\* What the host holds at each place.
Progress ==
  /\ host # "idle" => count > 0
  /\ host \in {"data_in", "data_rest"} => data = "in"
  /\ host = "data_out" => data = "out"
  /\ host \in {"command", "data_out"} => attempt < PTP_RETRY_COUNT
  /\ host \in {"command", "data_out", "data_in"} => buffer = "none"
  /\ host = "data_rest" => buffer = "held"
  /\ host = "response" => (buffer = "held" <=> data = "in") /\ buffer # "given"
  /\ buffer = "held" => answer.data = count

\* A command is in the pipe once, and then not carried out yet.
SentOnce ==
  /\ \A k \in 1..Len(outPipe) : outPipe[k].n <= count
  /\ \A n \in Transactions : n > count => executed[n] = 0
  /\ host = "command" =>
       /\ executed[count] = 0
       /\ \A k \in 1..Len(outPipe) : outPipe[k].n < count
  /\ \A k \in 1..Len(outPipe) :
       outPipe[k].kind # "data" => executed[outPipe[k].n] = 0
  /\ \A j, k \in 1..Len(outPipe) :
       j # k /\ outPipe[j].kind # "data" /\ outPipe[k].kind # "data" =>
         outPipe[j].n # outPipe[k].n
  /\ ExecutedOnce

Inv == TypeOK /\ IdsAgree /\ Progress /\ OwnAnswer /\ BufferOwned /\ SentOnce

-----------------------------------------------------------------------------
(* The shape of the pipes: the invariant behind CleanAfterSuccess, InStep   *)
(* and OutOfStepStays.                                                      *)

\* What is in the IN pipe belongs to earlier transactions than what is in the
\* OUT pipe, both in the order of the transactions, and ends with its response.
InOrder ==
  /\ \A j, k \in 1..Len(inPipe) : j < k =>
       /\ inPipe[j].n <= inPipe[k].n
       /\ inPipe[j].kind = "response" => inPipe[j].n < inPipe[k].n
  /\ \A j \in 1..Len(inPipe), k \in 1..Len(outPipe) : inPipe[j].n < outPipe[k].n
  /\ \A j \in 1..Len(inPipe) : /\ inPipe[j].n <= count
                               /\ host = "command" => inPipe[j].n < count

\* Data follows its command, and nothing else of its transaction does.
DataFollows ==
  /\ \A j, k \in 1..Len(outPipe) : j < k /\ (k # j + 1 \/ outPipe[k].kind # "data") =>
       outPipe[j].n < outPipe[k].n
  /\ \A k \in 1..Len(outPipe) : outPipe[k].kind = "data" =>
       k > 1 /\ outPipe[k - 1].kind = "out" /\ outPipe[k - 1].n = outPipe[k].n
  /\ host = "data_out" =>
       outPipe # <<>> /\ outPipe[Len(outPipe)].kind = "out"
                      /\ outPipe[Len(outPipe)].n = count

\* The host waits for a response only if it is there, or its command is there for
\* the camera to answer.
AnswerComes ==
  host \in {"data_in", "data_rest", "response"} =>
    \/ \E k \in 1..Len(inPipe) : inPipe[k].kind = "response" /\ inPipe[k].n = count
    \/ \E k \in 1..Len(outPipe) : outPipe[k].kind # "out" /\ outPipe[k].n = count

PipeInv == Inv /\ InOrder /\ DataFollows /\ AnswerComes /\ CleanAfterSuccess

\* What a command is answered with, as the kinds of the reads, and what of it is
\* unread at each place.
AnswerShapes == {<<"response">>, <<"data", "response">>,
                 <<"data", "zlp", "response">>, <<"long", "rest", "response">>,
                 <<"long", "rest", "zlp", "response">>}
Unread == CASE host = "data_in"   -> AnswerShapes
            [] host = "data_rest" -> {<<"rest", "response">>, <<"rest", "zlp", "response">>}
            [] host = "response"  -> {<<"response">>, <<"zlp", "response">>}
            [] OTHER              -> {}
Holds(shape) ==
  /\ Len(inPipe) = Len(shape)
  /\ \A k \in 1..Len(shape) : inPipe[k].kind = shape[k] /\ inPipe[k].n = count

\* Without a failed transfer or allocation, all that is unread is the rest of the
\* answer to the command under way, and all that the camera has not handled is
\* that command, and commands whose data never came.
Undamaged ==
  faults = 0 =>
    /\ inPipe = <<>> \/ \E shape \in Unread : Holds(shape)
    /\ host = "data_rest" \/ (host = "response" /\ data = "in") => inPipe # <<>>
    /\ \A k \in 1..Len(outPipe) :
         /\ outPipe[k].n < count \/ host \in {"idle", "command", "data_out"} =>
              outPipe[k].kind = "out"
         /\ outPipe[k].n = count => outPipe[k].kind \in {data, "data"}

\* A container of an earlier transaction than the one that is next to read is in
\* the IN pipe, or will be.
Reading == IF host = "idle" THEN count + 1 ELSE count
Owed ==
  \/ \E k \in 1..Len(inPipe) : inPipe[k].kind # "zlp" /\ inPipe[k].n < Reading
  \/ \E k \in 1..Len(outPipe) : outPipe[k].kind # "out" /\ outPipe[k].n < Reading

\* Out of step: what is owed will be read for the next answer, and refused.
OutOfStep == /\ Owed
             /\ host # "data_rest"
             /\ host = "idle" => result # "OK"

-----------------------------------------------------------------------------
(* What the transactions implement.                                        *)

\* A command is open while it is being sent, and in the pipe.
Open    == {outPipe[k].n : k \in 1..Len(outPipe)}
             \cup (IF host = "command" THEN {count} ELSE {})
Replies == {inPipe[k].n : k \in {j \in 1..Len(inPipe) : inPipe[j].kind = "response"}}

C == INSTANCE Commands WITH Numbers <- Transactions, busy <- host # "idle",
                            success <- (result = "OK"), current <- count,
                            open <- Open, replies <- Replies

\* The transactions keep what Commands promises: commands are carried out in their
\* order and once, however they are retried and wherever they fail, and after a
\* success nothing of any command is still to come.
CommandsSpec == C!CSpec

-----------------------------------------------------------------------------
(* The argument behind Returns.                                            *)

\* While ptp_transact is under way, it has something to do, or the camera has.
NeverStuck ==
  host # "idle" =>
    \/ host \in {"command", "data_out"} \/ inPipe # <<>>
    \/ /\ outPipe # <<>>
       /\ \/ outPipe[1].kind \in {"none", "in"}
          \/ outPipe[1].kind = "out" /\ Len(outPipe) > 1

\* What there is left to do: each unit that was sent is answered with at most four
\* reads, and so counts five; each that is not yet sent counts ten, which is more
\* than five with the stalls that it survives.
Sending == CASE host = "command"  -> 20 - attempt
             [] host = "data_out" -> 10 - attempt
             [] OTHER             -> 0
LeftToDo == Sending + 5 * Len(outPipe) + Len(inPipe)

\* Every step of either side that does not end the transaction leaves less to do.
Advances == [][host # "idle" /\ host' # "idle" => LeftToDo' < LeftToDo]_vars
=============================================================================
