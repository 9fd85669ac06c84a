----------------------------- MODULE DeviceInfo -----------------------------
(***************************************************************************)
(* The device and object information of ptp-pima.c: strings and arrays in  *)
(* one growing buffer (DynBuf), found through pointers in a structure      *)
(* outside it.  Two messages are decoded into one device information, as   *)
(* client.c does: the PIMA one, and then Sony's, whose two lists of        *)
(* properties are each joined to the list that is there.                   *)
(***************************************************************************)
EXTENDS DynBuf, Sequences

CONSTANT MaxEntries   \* bound: entries of an array

ASSUME EntriesAssumption == MaxEntries \in Nat

VARIABLES
  infoPlace,   \* the message that is being decoded, or what became of it
  infoAt,      \* the field of the message that comes next
  infoBuf,     \* info->buf
  infoPtr,     \* the pointers of the structure: strings, and arrays' values
  infoCount,   \* the counts of its arrays
  infoVals     \* what is found in the buffer where a pointer leads: for each
               \* entry the message it came from, or "lost"

infoVars == <<infoPlace, infoAt, infoBuf, infoPtr, infoCount, infoVals>>

Arrays  == {"operations", "events", "properties", "capture_formats",
            "image_formats"}
Strings == {"vendor_extension_desc", "manufacturer", "model",
            "device_version", "serial_number",
            "filename", "capture_date", "modification_date", "keywords"}
Members == Arrays \cup Strings

\* The fields of each message, in order.
PimaMessage   == <<"vendor_extension_desc", "operations", "events", "properties",
                   "capture_formats", "image_formats", "manufacturer", "model",
                   "device_version", "serial_number">>
SonyMessage   == <<"properties", "properties">>
ObjectMessage == <<"filename", "capture_date", "modification_date", "keywords">>
Message == [pima |-> PimaMessage, sony |-> SonyMessage, object |-> ObjectMessage]

Decoding == {"pima", "sony", "object"}

NoPtrs    == [f \in Members |-> NULL]
NoEntries == [f \in Arrays |-> 0]
NoVals    == [f \in Arrays |-> << >>]

InfoInit ==
  /\ infoPlace = "none" /\ infoAt = 1
  /\ infoBuf = NoBuffer
  /\ infoPtr = NoPtrs /\ infoCount = NoEntries /\ infoVals = NoVals

-----------------------------------------------------------------------------
\* ptp_pima_adjust_device_info and ptp_pima_adjust_object_info, the callbacks.
AdjustedPtr(ptr, new) ==
  [f \in Members |-> Shift(ptr[f], new.data - infoBuf.data)]

\* The end of a message.  The client goes on to Sony's whatever became of the
\* PIMA one (it only logs the result).
Over(place) ==
  /\ infoPlace' = IF infoPlace = "pima" THEN "sony" ELSE place
  /\ infoAt' = 1

\* A field was decoded: the next one, or the end.  At the end the camera's
\* response may still tell of an error.
NextField ==
  \/ /\ infoAt < Len(Message[infoPlace])
     /\ infoAt' = infoAt + 1
     /\ UNCHANGED infoPlace
  \/ /\ infoAt = Len(Message[infoPlace])
     /\ Over("decoded") \/ Over("failed")

\* ptp_pima_devinfo_create, ptp_pima_objinfo_create: all pointers are NULL.
CreateInfo ==
  /\ infoPlace = "none"
  /\ infoPlace' \in {"pima", "object"}
  /\ infoBuf' \in Created
  /\ UNCHANGED <<infoAt, infoPtr, infoCount, infoVals>>

\* The transaction fails, or the message ends before the next field, or realloc
\* fails: an array is given up before that, a string is not.
FailField ==
  /\ infoPlace \in Decoding
  /\ LET f == Message[infoPlace][infoAt]
     IN  IF f \in Arrays
           THEN \/ /\ infoPtr'   = [infoPtr   EXCEPT ![f] = NULL]
                   /\ infoCount' = [infoCount EXCEPT ![f] = 0]
                   /\ infoVals'  = [infoVals  EXCEPT ![f] = << >>]
                \/ UNCHANGED <<infoPtr, infoCount, infoVals>>
           ELSE UNCHANGED <<infoPtr, infoCount, infoVals>>
  /\ Over("failed")
  /\ UNCHANGED infoBuf

\* ptp_pima_decode_string.  If the characters are too few, the pointer stays.
DecodeString ==
  /\ infoPlace \in Decoding
  /\ Message[infoPlace][infoAt] \in Strings
  /\ \E new \in Appended(infoBuf, 1) :
       /\ infoBuf' = new
       /\ infoPtr' = [AdjustedPtr(infoPtr, new) EXCEPT
                        ![Message[infoPlace][infoAt]] = End(infoBuf, new)]
  /\ UNCHANGED <<infoCount, infoVals>>
  /\ NextField \/ Over("failed")

\* Mutant: the local pointer to what was in the array is not updated.
Bug_DecodeArray ==
  /\ infoPlace \in Decoding
  /\ Message[infoPlace][infoAt] \in Arrays
  /\ \E c \in 0 .. MaxEntries :
       LET f    == Message[infoPlace][infoAt]
           prev == IF infoPtr[f] = NULL THEN 0 ELSE infoCount[f]
           givenUp == [infoPtr EXCEPT ![f] = NULL]
       IN  \E new \in Appended(infoBuf, c + prev) :
             LET from  == infoPtr[f]
                 found == from - new.data = infoPtr[f] - infoBuf.data
                 old   == IF found THEN infoVals[f] ELSE [k \in 1 .. prev |-> "lost"]
                 added == [k \in 1 .. c |-> infoPlace]
             IN  /\ infoBuf' = new
                 /\ infoPtr' = [AdjustedPtr(givenUp, new) EXCEPT
                                  ![f] = End(infoBuf, new)]
                 /\ \/ /\ infoCount' = [infoCount EXCEPT ![f] = c + prev]
                       /\ infoVals'  = [infoVals EXCEPT ![f] = old \o added]
                       /\ NextField
                    \/ /\ infoCount' = [infoCount EXCEPT ![f] = 0]
                       /\ infoVals'  = [infoVals EXCEPT ![f] = << >>]
                       /\ Over("failed")

\* ptp_pima_decode_int_array: what was in the array is moved to a new place, and
\* the c entries of the message are added.  While the array is given up the
\* callback does not know it, so a local pointer keeps track of it.
DecodeArray ==
  /\ infoPlace \in Decoding
  /\ Message[infoPlace][infoAt] \in Arrays
  /\ \E c \in 0 .. MaxEntries :
       LET f    == Message[infoPlace][infoAt]
           prev == IF infoPtr[f] = NULL THEN 0 ELSE infoCount[f]
           givenUp == [infoPtr EXCEPT ![f] = NULL]
       IN  \E new \in Appended(infoBuf, c + prev) :
             LET from  == Update(Begin(infoPtr[f], infoBuf), new).ptr
                 found == from - new.data = infoPtr[f] - infoBuf.data
                 old   == IF found THEN infoVals[f] ELSE [k \in 1 .. prev |-> "lost"]
                 added == [k \in 1 .. c |-> infoPlace]
             IN  /\ infoBuf' = new
                 /\ infoPtr' = [AdjustedPtr(givenUp, new) EXCEPT
                                  ![f] = End(infoBuf, new)]
                 /\ \/ /\ infoCount' = [infoCount EXCEPT ![f] = c + prev]
                       /\ infoVals'  = [infoVals EXCEPT ![f] = old \o added]
                       /\ NextField
                    \/ /\ infoCount' = [infoCount EXCEPT ![f] = 0]
                       /\ infoVals'  = [infoVals EXCEPT ![f] = << >>]
                       /\ Over("failed")

\* ptp_pima_devinfo_free, ptp_pima_objinfo_free, after what was decoded without
\* an error has been printed.
FreeInfo ==
  /\ infoPlace \in {"decoded", "failed"}
  /\ infoPlace' = "none"
  /\ infoBuf' = NoBuffer
  /\ infoPtr' = NoPtrs /\ infoCount' = NoEntries /\ infoVals' = NoVals
  /\ UNCHANGED infoAt

InfoNext == CreateInfo \/ FailField \/ DecodeString \/ DecodeArray \/ FreeInfo

InfoSpec == InfoInit /\ [][InfoNext]_infoVars

-----------------------------------------------------------------------------
(* Properties.                                                             *)

InfoTypeOK ==
  /\ infoPlace \in {"none", "decoded", "failed"} \cup Decoding
  /\ infoAt \in Nat \ {0}
  /\ infoPlace \in Decoding => infoAt <= Len(Message[infoPlace])
  /\ infoBuf \in Buffers /\ infoBuf.size <= infoBuf.maxsize
  /\ infoPtr \in [Members -> Nat]
  /\ infoCount \in [Arrays -> Nat]
  /\ infoVals \in [Arrays -> Seq(Decoding \cup {"lost"})]

\* Each array has as many entries in the buffer as its count says, none was
\* lost when the buffer moved between reading and joining two lists, and the
\* entries of the PIMA message come before Sony's.
ListsJoined ==
  \A f \in Arrays :
    /\ Len(infoVals[f]) = infoCount[f]
    /\ \A k \in 1 .. infoCount[f] : infoVals[f][k] # "lost"
    /\ \A k \in 2 .. infoCount[f] :
         infoVals[f][k] = "pima" => infoVals[f][k - 1] = "pima"

\* Strings and arrays lie in the part of the buffer that is in use.
InfoInside ==
  \A f \in Members :
    infoPtr[f] # NULL =>
      Inside(infoBuf, infoPtr[f], IF f \in Arrays THEN infoCount[f] ELSE 1)

\* When the buffer moves, the pointers of all fields but the one that is being
\* decoded keep their distance from its start.
InfoFollows ==
  [][(infoPlace \in Decoding =>
        \A f \in Members \ {Message[infoPlace][infoAt]} :
          infoPtr[f] # NULL =>
            infoPtr'[f] - infoBuf'.data = infoPtr[f] - infoBuf.data)]_infoVars

-----------------------------------------------------------------------------
(* The inductive invariant behind the properties.                          *)

InfoInv ==
  /\ InfoTypeOK /\ ListsJoined /\ InfoInside
  /\ infoPlace # "none" => infoBuf.data \in Bases
  /\ infoPlace \notin Decoding => infoAt = 1
  /\ infoPlace = "none" => infoPtr = NoPtrs /\ infoVals = NoVals
  /\ \A f \in Arrays : infoPtr[f] = NULL => infoCount[f] = 0
  /\ infoPlace = "pima" =>
       \A f \in Arrays : \A k \in 1 .. infoCount[f] : infoVals[f][k] = "pima"
=============================================================================
