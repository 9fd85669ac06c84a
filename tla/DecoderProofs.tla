---------------------------- MODULE DecoderProofs ----------------------------
(***************************************************************************)
(* Proofs about the decoders, PropList and DeviceInfo, and the buffer they *)
(* decode into: for every set of addresses, every size of the buffer, every*)
(* message and every order in which the buffer moves, the decoders' locals *)
(* and the recorded pointers follow it, a list that decoded well is        *)
(* complete, and no entry is lost when two arrays are joined.              *)
(***************************************************************************)
EXTENDS PropList, DeviceInfo, SequenceTheorems, TLAPS

-----------------------------------------------------------------------------
(* The buffer.                                                             *)

\* What dynbuf_append of n cells does to a buffer that has an address.
LEMMA AppendedFacts ==
  ASSUME NEW buf \in Buffers, buf.data \in Bases, buf.size <= buf.maxsize,
         NEW n \in Nat, NEW new \in Appended(buf, n)
  PROVE  /\ new \in Buffers /\ new.data \in Bases /\ new.size <= new.maxsize
         /\ new.size = buf.size + n
         /\ new.data \in Nat /\ new.data # NULL
         /\ buf.data \in Nat /\ buf.size \in Nat
         /\ End(buf, new) = new.data + buf.size
         /\ End(buf, new) \in Nat /\ End(buf, new) # NULL
<1>1. CASE Fits(buf, n)
  <2>1. new = [buf EXCEPT !.size = @ + n]
    BY <1>1 DEF Appended
  <2> QED
    BY <1>1, <2>1, BasesAssumption DEF Buffers, Fits, End, NULL
<1>2. CASE ~Fits(buf, n)
  <2>1. PICK b \in Bases : new = [data |-> b, size |-> buf.size + n,
                                  maxsize |-> buf.size + n + Slack]
    BY <1>2 DEF Appended
  <2>2. /\ b \in Nat /\ b # 0 /\ Slack \in Nat
        /\ buf.size \in Nat /\ buf.data \in Nat
    BY BasesAssumption, SizesAssumption DEF Buffers
  <2>3. /\ new.data = b /\ new.size = buf.size + n
        /\ new.maxsize = buf.size + n + Slack
    BY <2>1
  <2>4. new.size \in Nat /\ new.maxsize \in Nat /\ new.size <= new.maxsize
    BY <2>2, <2>3
  <2>5. new \in Buffers
    BY <2>1, <2>3, <2>4 DEF Buffers
  <2> QED
    BY <2>2, <2>3, <2>4, <2>5 DEF End, NULL
<1> QED
  BY <1>1, <1>2

\* dynbuf_adjust_update moves a pointer as far as the buffer has moved.
LEMMA UpdateFacts ==
  ASSUME NEW p \in Nat, NEW prev \in Nat, NEW buf,
         buf.data \in Nat, p # NULL
  PROVE  LET ctx == [ptr |-> p, prev |-> prev]
         IN  /\ Update(ctx, buf).ptr  = p + (buf.data - prev)
             /\ Update(ctx, buf).prev = buf.data
BY DEF Update, NULL

-----------------------------------------------------------------------------
(* The move of a list with its buffer.                                     *)

\* Where a list is when n cells are appended to its buffer.
LEMMA MoveFacts ==
  ASSUME ListInv, listPlace \in ListDecoding,
         NEW n \in Nat, NEW new \in Appended(listBuf, n)
  PROVE  /\ new \in Buffers /\ new.data \in Bases /\ new.size <= new.maxsize
         /\ new.size = listBuf.size + n
         /\ new.data \in Nat /\ new.data # NULL
         /\ listBuf.data \in Nat /\ listBuf.size \in Nat
         /\ Moved(new) = new.data - listBuf.data
         /\ End(listBuf, new) = new.data + listBuf.size
         /\ End(listBuf, new) \in Nat /\ End(listBuf, new) # NULL
         /\ AdjustedDesc(Moved(new)) = desc + Moved(new)
         /\ AdjustedDesc(Moved(new)) \in Nat
         /\ AdjustedDesc(Moved(new)) # NULL
         /\ Inside(new, AdjustedDesc(Moved(new)), count)
         /\ at \in Props /\ at <= count
<1>1. /\ listBuf \in Buffers /\ listBuf.data \in Bases
      /\ listBuf.size <= listBuf.maxsize
      /\ desc \in Nat /\ desc # NULL /\ count \in 0 .. MaxProps
      /\ at \in Nat \ {0} /\ at <= count
      /\ Inside(listBuf, desc, count)
  BY DEF ListInv, ListTypeOK, Progress, ListInside, ListDecoding, ValuePlaces,
         RangeFields
<1>2. /\ new \in Buffers /\ new.data \in Bases /\ new.size <= new.maxsize
      /\ new.size = listBuf.size + n
      /\ new.data \in Nat /\ new.data # NULL
      /\ listBuf.data \in Nat /\ listBuf.size \in Nat
      /\ End(listBuf, new) = new.data + listBuf.size
      /\ End(listBuf, new) \in Nat /\ End(listBuf, new) # NULL
  BY <1>1, AppendedFacts
<1>3. Moved(new) = new.data - listBuf.data
  BY DEF Moved
<1>4. AdjustedDesc(Moved(new)) = desc + Moved(new)
  BY <1>1 DEF AdjustedDesc, Shift
<1>5. /\ AdjustedDesc(Moved(new)) \in Nat
      /\ AdjustedDesc(Moved(new)) # NULL
      /\ Inside(new, AdjustedDesc(Moved(new)), count)
  BY <1>1, <1>2, <1>3, <1>4 DEF Inside, NULL
<1>6. at \in Props
  BY <1>1, ListBoundsAssumption DEF Props
<1> QED
  BY <1>1, <1>2, <1>3, <1>4, <1>5, <1>6

\* How far the pointers of a list reach.
LEMMA ExtentFacts ==
  ASSUME ListInv, NEW i \in Props
  PROVE  /\ \A f \in Fields : Extent(i, f) \in Nat
         /\ \A j \in 1 .. MaxValues : enumCells[i][j] \in Nat
<1>1. \A f \in Fields : f # "form" /\ f # "values" => f \in ValuePlaces
  BY DEF Fields, ValuePlaces
<1>2. /\ enumCount[i] \in Nat
      /\ \A f \in ValuePlaces : cells[i][f] \in Nat
      /\ \A j \in 1 .. MaxValues : enumCells[i][j] \in Nat
  BY ListBoundsAssumption DEF ListInv, ListTypeOK
<1> QED
  BY <1>1, <1>2 DEF Extent

\* The callback moves every pointer of a descriptor that was recorded.
LEMMA FieldFacts ==
  ASSUME ListInv, listPlace \in ListDecoding,
         NEW n \in Nat, NEW new \in Appended(listBuf, n)
  PROVE  /\ AdjustedField(Moved(new)) \in [Props -> [Fields -> Nat]]
         /\ \A i \in Props, f \in Fields :
              /\ field[i][f] = NULL => AdjustedField(Moved(new))[i][f] = NULL
              /\ field[i][f] # NULL =>
                   /\ AdjustedField(Moved(new))[i][f] = field[i][f] + Moved(new)
                   /\ AdjustedField(Moved(new))[i][f] # NULL
                   /\ Inside(new, AdjustedField(Moved(new))[i][f], Extent(i, f))
<1> DEFINE moved == AdjustedField(Moved(new))
<1>1. ASSUME NEW i \in Props, NEW f \in Fields
      PROVE  /\ moved[i][f] \in Nat
             /\ field[i][f] = NULL => moved[i][f] = NULL
             /\ field[i][f] # NULL =>
                  /\ moved[i][f] = field[i][f] + Moved(new)
                  /\ moved[i][f] # NULL
                  /\ Inside(new, moved[i][f], Extent(i, f))
  <2>1. field[i][f] \in Nat
    BY <1>1 DEF ListInv, ListTypeOK
  <2>2. moved[i][f] = IF Walks(i, f) THEN Shift(field[i][f], Moved(new))
                                     ELSE field[i][f]
    BY <1>1 DEF AdjustedField
  <2>3. CASE field[i][f] = NULL
    BY <2>1, <2>2, <2>3 DEF Shift, NULL
  <2>4. CASE field[i][f] # NULL
    <3>1. Walks(i, f)
      BY <1>1, <2>4 DEF ListInv, Recorded
    <3>2. moved[i][f] = field[i][f] + Moved(new)
      BY <2>2, <2>4, <3>1 DEF Shift
    <3>3. Inside(listBuf, field[i][f], Extent(i, f))
      BY <1>1, <2>4 DEF ListInv, ListInside, Progress
    <3>4. Extent(i, f) \in Nat
      BY <1>1, ExtentFacts
    <3>5. /\ Moved(new) = new.data - listBuf.data /\ new.size = listBuf.size + n
          /\ new.data \in Nat /\ new.data # NULL
          /\ listBuf.data \in Nat /\ listBuf.size \in Nat
      BY MoveFacts
    <3> HIDE DEF moved
    <3> QED
      BY <2>1, <2>4, <3>2, <3>3, <3>4, <3>5 DEF Inside, NULL
  <2> QED
    BY <2>3, <2>4
<1>2. moved = [i \in Props |-> [f \in Fields |-> moved[i][f]]]
  BY DEF AdjustedField
<1>3. moved \in [Props -> [Fields -> Nat]]
  BY <1>1, <1>2
<1> QED
  BY <1>1, <1>3

\* ... and every pointer to an element of an enumeration.
LEMMA EnumFacts ==
  ASSUME ListInv, listPlace \in ListDecoding,
         NEW n \in Nat, NEW new \in Appended(listBuf, n)
  PROVE  /\ AdjustedEnum(Moved(new)) \in [Props -> [1 .. MaxValues -> Nat]]
         /\ \A i \in Props, j \in 1 .. MaxValues :
              /\ enum[i][j] = NULL => AdjustedEnum(Moved(new))[i][j] = NULL
              /\ enum[i][j] # NULL =>
                   /\ AdjustedEnum(Moved(new))[i][j] = enum[i][j] + Moved(new)
                   /\ AdjustedEnum(Moved(new))[i][j] # NULL
                   /\ Inside(new, AdjustedEnum(Moved(new))[i][j], enumCells[i][j])
<1> DEFINE moved == AdjustedEnum(Moved(new))
<1>1. ASSUME NEW i \in Props, NEW j \in 1 .. MaxValues
      PROVE  /\ moved[i][j] \in Nat
             /\ enum[i][j] = NULL => moved[i][j] = NULL
             /\ enum[i][j] # NULL =>
                  /\ moved[i][j] = enum[i][j] + Moved(new)
                  /\ moved[i][j] # NULL
                  /\ Inside(new, moved[i][j], enumCells[i][j])
  <2>1. enum[i][j] \in Nat /\ enumCells[i][j] \in Nat
    BY <1>1 DEF ListInv, ListTypeOK
  <2>2. moved[i][j] = IF WalksValue(i, j) THEN Shift(enum[i][j], Moved(new))
                                          ELSE enum[i][j]
    BY <1>1 DEF AdjustedEnum
  <2>3. CASE enum[i][j] = NULL
    BY <2>1, <2>2, <2>3 DEF Shift, NULL
  <2>4. CASE enum[i][j] # NULL
    <3>1. WalksValue(i, j)
      BY <1>1, <2>4 DEF ListInv, Recorded
    <3>2. moved[i][j] = enum[i][j] + Moved(new)
      BY <2>2, <2>4, <3>1 DEF Shift
    <3>3. Inside(listBuf, enum[i][j], enumCells[i][j])
      BY <1>1, <2>4 DEF ListInv, ListInside, Progress
    <3> QED
      BY <2>1, <2>4, <3>2, <3>3, MoveFacts DEF Inside, NULL
  <2> QED
    BY <2>3, <2>4
<1>2. moved = [i \in Props |-> [j \in 1 .. MaxValues |-> moved[i][j]]]
  BY DEF AdjustedEnum
<1>3. moved \in [Props -> [1 .. MaxValues -> Nat]]
  BY <1>1, <1>2
<1> QED
  BY <1>1, <1>3

-----------------------------------------------------------------------------
(* The ways out of a decoder.                                              *)

\* An append of nothing.
LEMMA AppendedNothing ==
  ASSUME ListInv
  PROVE  listBuf \in Appended(listBuf, 0)
<1>1. listBuf \in Buffers /\ listBuf.size <= listBuf.maxsize
  BY DEF ListInv, ListTypeOK
<1>2. Fits(listBuf, 0)
  BY <1>1 DEF Fits, Buffers
<1>3. listBuf = [listBuf EXCEPT !.size = @ + 0]
  BY <1>1 DEF Buffers
<1> QED
  BY <1>2, <1>3 DEF Appended

\* The local pointers, once updated: one that was right before is right after.
LEMMA ContextFacts ==
  ASSUME ListInv, listPlace \in ListDecoding,
         NEW n \in Nat, NEW new \in Appended(listBuf, n),
         NEW ctx \in Contexts, ctx.ptr # NULL
  PROVE  Update(ctx, new) = [ptr |-> ctx.ptr + (new.data - ctx.prev), prev |-> new.data]
<1>1. ctx.ptr \in Nat /\ ctx.prev \in Nat
      /\ ctx = [ptr |-> ctx.ptr, prev |-> ctx.prev]
  BY DEF Contexts
<1>2. CASE ctx.prev = new.data
  <2>1. ctx.ptr + (new.data - ctx.prev) = ctx.ptr
    BY <1>1, <1>2, MoveFacts
  <2> QED
    BY <1>1, <1>2, <2>1 DEF Update
<1>3. CASE ctx.prev # new.data
  BY <1>3 DEF Update
<1> QED
  BY <1>2, <1>3

\* The pointer of the outer loop may miss any number of moves.
LEMMA LoopContext ==
  ASSUME ListInv, listPlace \in ListDecoding,
         NEW n \in Nat, NEW new \in Appended(listBuf, n)
  PROVE  Update(listCtx, new) = [ptr |-> AdjustedDesc(Moved(new)), prev |-> new.data]
<1>1. /\ listCtx \in Contexts /\ listCtx.ptr \in Nat /\ listCtx.prev \in Nat
  BY DEF ListInv, ListTypeOK, Contexts
<1>2. Update(listCtx, listBuf).ptr = desc /\ desc # NULL /\ desc \in Nat
  BY DEF ListInv, LocalsFollow, Progress, ListTypeOK, ListDecoding
<1>3. listCtx.ptr # NULL
  BY <1>1, <1>2 DEF Update
<1>4. listCtx.ptr + (listBuf.data - listCtx.prev) = desc
  BY <1>1, <1>2, <1>3, AppendedNothing, ContextFacts
<1>5. listCtx.ptr + (new.data - listCtx.prev) = AdjustedDesc(Moved(new))
  BY <1>1, <1>2, <1>4, MoveFacts
<1> QED
  BY <1>1, <1>3, <1>5, ContextFacts

\* What the decoder knows nothing of any more need not follow the buffer.
LEMMA EndsFacts ==
  ASSUME NEW place \in {"decoded", "failed"}, Ends(place)
  PROVE  /\ listPlace' = place
         /\ LocalsFollow' /\ LocalsFresh'
         /\ at' \in Nat \ {0} /\ atValue' \in Nat \ {0}
         /\ listCtx' \in Contexts /\ descCtx' \in Contexts /\ formCtx' \in Contexts
BY DEF Ends, LocalsFollow, LocalsFresh, Contexts, NoCtx, NULL, ValuePlaces,
       RangeFields

\* A failure leaves a list that is only freed.
LEMMA FailsFacts ==
  ASSUME Fails, listBuf'.data \in Bases
  PROVE  Progress' /\ ListComplete'
BY DEF Fails, Ends, Progress, ListComplete, ListDecoding, ValuePlaces, RangeFields

\* The loop of ptp_sony_decode_prop_desc_list goes on where the list is by then,
\* or ends with a complete list.
LEMMA ReturnFacts ==
  ASSUME ListInv, listPlace \in ListDecoding,
         NEW n \in Nat, NEW new \in Appended(listBuf, n), Return(new),
         listBuf' = new, desc' = AdjustedDesc(Moved(new)), count' = count,
         \A i \in Props : i <= at => CompleteDesc(i)',
         \A i \in Props : i > at => field'[i]["form"] = NULL /\ formType'[i] = "none"
  PROVE  /\ listPlace' \in ListPlaces
         /\ at' \in Nat \ {0} /\ atValue' \in Nat \ {0}
         /\ listCtx' \in Contexts /\ descCtx' \in Contexts /\ formCtx' \in Contexts
         /\ LocalsFollow' /\ LocalsFresh' /\ Progress' /\ ListComplete'
<1>1. /\ count \in 0 .. MaxProps /\ at \in Nat \ {0} /\ at <= count
      /\ new.data \in Bases
      /\ AdjustedDesc(Moved(new)) # NULL
  BY MoveFacts DEF ListInv, ListTypeOK
<1>2. CASE /\ at < count
           /\ listPlace' = "desc"
           /\ at' = at + 1 /\ atValue' = 1
           /\ listCtx' = Update(listCtx, new)
           /\ descCtx' = NoCtx /\ formCtx' = NoCtx
  <2>5. listCtx' = [ptr |-> desc', prev |-> new.data]
    BY <1>2, LoopContext
  <2>6. listCtx' \in Contexts
    BY <2>5, MoveFacts DEF Contexts
  <2>7. Update(listCtx', listBuf').ptr = desc'
    BY <2>5 DEF Update
  <2>8. LocalsFollow' /\ LocalsFresh'
    BY <1>2, <2>5, <2>7 DEF LocalsFollow, LocalsFresh, ValuePlaces, RangeFields
  <2>9. Progress' /\ ListComplete'
    <3>1. at + 1 \in Props /\ at \in Props
      BY <1>1, <1>2, ListBoundsAssumption DEF Props
    <3>2. \A i \in Props : i < at + 1 => i <= at
      BY <1>1 DEF Props
    <3>3. \A i \in Props : i > at + 1 => i > at
      BY <1>1 DEF Props
    <3>4. at + 1 > at /\ at + 1 <= count
      BY <1>1, <1>2
    <3> QED
      BY <1>1, <1>2, <3>1, <3>2, <3>3, <3>4
         DEF Progress, ListComplete, ListDecoding, ValuePlaces, RangeFields
  <2> QED
    BY <1>1, <1>2, <2>6, <2>8, <2>9 DEF ListPlaces, Contexts, NoCtx, NULL
<1>3. CASE at = count /\ Completes
  <2>1. PICK place \in {"decoded", "failed"} : Ends(place)
    BY <1>3 DEF Completes, Fails
  <2>2. Progress'
    BY <1>1, <2>1 DEF Ends, Progress, ListDecoding, ValuePlaces, RangeFields
  <2>3. ListComplete'
    <3> SUFFICES ASSUME listPlace' = "decoded", NEW i \in 1 .. count'
                 PROVE  CompleteDesc(i)'
      BY DEF ListComplete, CompleteDesc
    <3>1. i \in Props /\ i <= at
      BY <1>1, <1>3, ListBoundsAssumption DEF Props
    <3> QED
      BY <3>1
  <2> QED
    BY <2>1, <2>2, <2>3, EndsFacts DEF ListPlaces
<1> QED
  BY <1>2, <1>3 DEF Return

\* A value is there after the step, and so is one of an enumeration.
FilledThen(i, f) ==
  field'[i][f] # NULL /\ (kind'[i] # "array" => cells'[i][f] >= 1)
FilledEnumThen(i, j) ==
  enum'[i][j] # NULL /\ (kind'[i] # "array" => enumCells'[i][j] >= 1)

\* What is there stays there when it moves.
LEMMA FilledStays ==
  ASSUME NEW i \in Props, kind'[i] = kind[i]
  PROVE  /\ \A f \in ValuePlaces :
              /\ field[i][f] # NULL => field'[i][f] # NULL
              /\ cells'[i][f] = cells[i][f]
              => (Filled(i, f) => FilledThen(i, f))
         /\ \A j \in 1 .. MaxValues :
              /\ enum[i][j] # NULL => enum'[i][j] # NULL
              /\ enumCells'[i][j] = enumCells[i][j]
              => (FilledEnum(i, j) => FilledEnumThen(i, j))
BY DEF Filled, FilledThen, FilledEnum, FilledEnumThen

\* What is complete stays complete when it moves.
LEMMA CompleteStays ==
  ASSUME NEW i \in Props, CompleteDesc(i),
         \A f \in ValuePlaces : Filled(i, f) => FilledThen(i, f),
         \A j \in 1 .. MaxValues : FilledEnum(i, j) => FilledEnumThen(i, j),
         formType'[i] = formType[i], enumCount'[i] = enumCount[i],
         enumCount[i] \in 0 .. MaxValues
  PROVE  CompleteDesc(i)'
<1>1. \A j \in 1 .. enumCount[i] : j \in 1 .. MaxValues
  BY ListBoundsAssumption
<1>2. /\ FilledThen(i, "def") /\ FilledThen(i, "val")
      /\ formType[i] = "range" => \A f \in RangeFields : FilledThen(i, f)
      /\ formType[i] = "enum" => \A j \in 1 .. enumCount[i] : FilledEnumThen(i, j)
  BY <1>1 DEF CompleteDesc, ValuePlaces
<1> QED
  BY <1>2 DEF CompleteDesc, Filled, FilledThen, FilledEnum, FilledEnumThen

-----------------------------------------------------------------------------
(* The steps that append.                                                  *)

\* A pointer p that was written through a local pointer goes where it should.
LEMMA WrittenFacts ==
  ASSUME ListInv, listPlace \in ListDecoding,
         NEW n \in Nat, NEW new \in Appended(listBuf, n),
         NEW value \in Nat, value # NULL,
         NEW home, home = value + Moved(new),
         NEW p, NEW old
  PROVE  Written(value, home, new, p, old) = p
<1>1. Update(Begin(value, listBuf), new).ptr = value + (new.data - listBuf.data)
  BY UpdateFacts, MoveFacts DEF Begin
<1> QED
  BY <1>1, MoveFacts DEF Written

\* A value of a descriptor or of a range is written where it belongs.
LEMMA DecodeValueWrites ==
  ASSUME ListInv, DecodeValue
  PROVE
       \E n, new :
           /\ n \in Nat /\ new \in Appended(listBuf, n)
           /\ kind[at] # "array" => n >= 1
           /\ listBuf' = new
           /\ desc' = AdjustedDesc(Moved(new))
           /\ field' = [AdjustedField(Moved(new)) EXCEPT
                          ![at][listPlace] = End(listBuf, new)]
           /\ cells' = [cells EXCEPT ![at][listPlace] = n]
           /\ enum' = AdjustedEnum(Moved(new))
           /\ UNCHANGED <<count, kind, enumCells, formType, enumCount>>
           /\ \/ Fails
              \/ listPlace = "step" /\ Return(new)
              \/ /\ listPlace # "step"
                 /\ listPlace' = After[listPlace]
                 /\ descCtx' = IF listPlace \in RangeFields
                                  THEN descCtx ELSE Update(descCtx, new)
                 /\ formCtx' = IF listPlace \in RangeFields
                                  THEN Update(formCtx, new) ELSE formCtx
                 /\ UNCHANGED <<at, atValue, listCtx>>
<1> DEFINE f == listPlace
<1>2. PICK n, new :
       LET moved == AdjustedField(Moved(new))
           value == IF f \in RangeFields THEN ThroughForm ELSE descCtx.ptr
           home  == IF f \in RangeFields THEN moved[at]["form"]
                                         ELSE DescCell(at, new)
       IN  /\ n \in Lengths /\ new \in Appended(listBuf, n)
           /\ listBuf' = new
           /\ desc' = AdjustedDesc(Moved(new))
           /\ field' = [moved EXCEPT ![at][f] =
                          Written(value, home, new, End(listBuf, new), @)]
           /\ cells' = [cells EXCEPT ![at][f] = Written(value, home, new, n, @)]
           /\ enum' = AdjustedEnum(Moved(new))
           /\ UNCHANGED <<count, kind, enumCells, formType, enumCount>>
           /\ \/ Fails
              \/ listPlace = "step" /\ Return(new)
              \/ /\ listPlace # "step"
                 /\ listPlace' = After[listPlace]
                 /\ descCtx' = IF listPlace \in RangeFields
                                  THEN descCtx ELSE Update(descCtx, new)
                 /\ formCtx' = IF listPlace \in RangeFields
                                  THEN Update(formCtx, new) ELSE formCtx
                 /\ UNCHANGED <<at, atValue, listCtx>>
  BY DEF DecodeValue
<1> DEFINE moved == AdjustedField(Moved(new))
           p     == End(listBuf, new)
<1>3. /\ n \in Nat /\ new \in Appended(listBuf, n) /\ f \in ValuePlaces /\ f \in Fields
      /\ listPlace \in ListDecoding
  BY <1>2, ListBoundsAssumption
     DEF DecodeValue, ValuePlaces, Fields, ListDecoding, Lengths
<1>4. /\ at \in Props /\ at <= count /\ count \in 0 .. MaxProps
      /\ desc \in Nat /\ desc # NULL
  BY <1>3, MoveFacts DEF ListInv, ListTypeOK, Progress
<1>5. moved \in [Props -> [Fields -> Nat]]
  BY <1>3, FieldFacts
<1>6. /\ field' = [moved EXCEPT ![at][f] = p]
      /\ cells' = [cells EXCEPT ![at][f] = n]
  <2>1. CASE f \in RangeFields
    <3>1. ThroughForm = field[at]["form"] /\ field[at]["form"] # NULL
      BY <2>1, <1>3 DEF ThroughForm, ListInv, LocalsFollow, Progress
    <3>2. field[at]["form"] \in Nat
      BY <1>4 DEF ListInv, ListTypeOK, Fields
    <3>3. moved[at]["form"] = field[at]["form"] + Moved(new)
      BY <3>1, <1>3, <1>4, FieldFacts DEF Fields
    <3>4. /\ Written(ThroughForm, moved[at]["form"], new, p, moved[at][f]) = p
          /\ Written(ThroughForm, moved[at]["form"], new, n, cells[at][f]) = n
      BY <3>1, <3>2, <3>3, <1>3, WrittenFacts
    <3> QED
      BY <2>1, <3>4, <1>2, <1>3, <1>4, <1>5 DEF ListInv, ListTypeOK
  <2>2. CASE f \notin RangeFields
    <3>1. f \in {"def", "val"}
      BY <2>2, <1>3 DEF ValuePlaces
    <3>2. descCtx.ptr = desc + (at - 1)
      BY <3>1 DEF ListInv, LocalsFollow
    <3>3. descCtx.ptr \in Nat /\ descCtx.ptr # NULL
      BY <3>2, <1>4 DEF NULL, Props
    <3>4. DescCell(at, new) = descCtx.ptr + Moved(new)
      BY <3>2, <1>3, <1>4, MoveFacts DEF DescCell, Props
    <3>5. /\ Written(descCtx.ptr, DescCell(at, new), new, p, moved[at][f]) = p
          /\ Written(descCtx.ptr, DescCell(at, new), new, n, cells[at][f]) = n
      BY <3>3, <3>4, <1>3, WrittenFacts
    <3> QED
      BY <2>2, <3>5, <1>2, <1>3, <1>4, <1>5 DEF ListInv, ListTypeOK
  <2> QED
    BY <2>1, <2>2
<1>7. kind[at] # "array" => n >= 1
  BY <1>2 DEF Lengths
<1> QED
  BY <1>2, <1>3, <1>6, <1>7

\* A value of a descriptor or of a range: it is recorded where it belongs, and
\* all that was recorded before has moved.
LEMMA DecodeValueStep ==
  ASSUME ListInv, DecodeValue
  PROVE  ListInv'
<1> DEFINE f == listPlace
<1>2. PICK n, new :
           /\ n \in Nat /\ new \in Appended(listBuf, n)
           /\ kind[at] # "array" => n >= 1
           /\ listBuf' = new
           /\ desc' = AdjustedDesc(Moved(new))
           /\ field' = [AdjustedField(Moved(new)) EXCEPT
                          ![at][listPlace] = End(listBuf, new)]
           /\ cells' = [cells EXCEPT ![at][listPlace] = n]
           /\ enum' = AdjustedEnum(Moved(new))
           /\ UNCHANGED <<count, kind, enumCells, formType, enumCount>>
           /\ \/ Fails
              \/ listPlace = "step" /\ Return(new)
              \/ /\ listPlace # "step"
                 /\ listPlace' = After[listPlace]
                 /\ descCtx' = IF listPlace \in RangeFields
                                  THEN descCtx ELSE Update(descCtx, new)
                 /\ formCtx' = IF listPlace \in RangeFields
                                  THEN Update(formCtx, new) ELSE formCtx
                 /\ UNCHANGED <<at, atValue, listCtx>>
  BY DecodeValueWrites
<1> DEFINE moved == AdjustedField(Moved(new))
           p     == End(listBuf, new)
<1>3. /\ n \in Nat /\ new \in Appended(listBuf, n) /\ f \in ValuePlaces /\ f \in Fields
      /\ listPlace \in ListDecoding
  BY <1>2, ListBoundsAssumption DEF DecodeValue, ValuePlaces, Fields, ListDecoding
<1>4. /\ at \in Props /\ at <= count /\ count \in 0 .. MaxProps
      /\ desc \in Nat /\ desc # NULL
  BY <1>3, MoveFacts DEF ListInv, ListTypeOK, Progress
<1>5. moved \in [Props -> [Fields -> Nat]]
  BY <1>3, FieldFacts
<1>6. field' = [moved EXCEPT ![at][f] = p]
  BY <1>2
<1>7. /\ field' \in [Props -> [Fields -> Nat]]
      /\ field'[at][f] = p
      /\ \A i \in Props, g \in Fields :
           i # at \/ g # f => field'[i][g] = moved[i][g]
  BY <1>3, <1>4, <1>5, <1>6, MoveFacts
<1>8. /\ listBuf' = new /\ desc' = AdjustedDesc(Moved(new))
      /\ enum' = AdjustedEnum(Moved(new))
      /\ count' = count /\ formType' = formType /\ enumCount' = enumCount
      /\ kind' = kind /\ enumCells' = enumCells
      /\ cells' = [cells EXCEPT ![at][f] = n]
  BY <1>2
<1>9. /\ \A i \in Props, g \in Fields :
           /\ field[i][g] # NULL => field'[i][g] # NULL
           /\ field'[i][g] # NULL /\ (i # at \/ g # f) => field[i][g] # NULL
      /\ \A i \in Props, j \in 1 .. MaxValues : enum[i][j] # NULL <=> enum'[i][j] # NULL
  BY <1>3, <1>7, <1>8, FieldFacts, EnumFacts, MoveFacts
<1>9a. /\ cells' \in [Props -> [ValuePlaces -> Nat]]
       /\ cells'[at][f] = n
       /\ \A i \in Props, g \in ValuePlaces :
            i # at \/ g # f => cells'[i][g] = cells[i][g]
  BY <1>3, <1>4, <1>8 DEF ListInv, ListTypeOK
<1>9b. ValuePlaces \subseteq Fields
  BY DEF ValuePlaces, Fields
<1>9c. /\ \A i \in Props, g \in ValuePlaces :
            (i # at \/ g # f) /\ Filled(i, g) => FilledThen(i, g)
       /\ \A i \in Props, j \in 1 .. MaxValues :
            FilledEnum(i, j) => FilledEnumThen(i, j)
       /\ FilledThen(at, f)
  <2>1. FilledThen(at, f)
    BY <1>2, <1>3, <1>7, <1>8, <1>9a, MoveFacts DEF FilledThen
  <2> QED
    BY <2>1, <1>8, <1>9, <1>9a, <1>9b, FilledStays
<1>10. Recorded'
  <2>1. ASSUME NEW i \in Props, NEW g \in Fields, Walks(i, g)
        PROVE  Walks(i, g)'
    BY <2>1, <1>3, <1>8, <1>9, MoveFacts DEF Walks, WalksDesc, WalksForm, Fields
  <2>2. ASSUME NEW i \in Props, NEW j \in 1 .. MaxValues, WalksValue(i, j)
        PROVE  WalksValue(i, j)'
    BY <2>2, <1>3, <1>8, <1>9, MoveFacts DEF WalksValue, WalksDesc, WalksForm, Fields
  <2>3. Walks(at, f)
    BY <1>3, <1>4 DEF Walks, WalksDesc, WalksForm, ListInv, Progress, ValuePlaces
  <2> QED
    BY <2>1, <2>2, <2>3, <1>4, <1>9 DEF ListInv, Recorded
<1>11. ListInside'
  <2>1. Inside(new, p, n)
    BY <1>3, MoveFacts DEF Inside
  <2>2. ASSUME NEW i \in Props, NEW g \in Fields, field'[i][g] # NULL
        PROVE  Inside(new, field'[i][g], Extent(i, g)')
    <3>1. CASE i = at /\ g = f
      <4>1. Extent(i, g)' = n
        BY <3>1, <1>3, <1>9a DEF Extent, ValuePlaces, RangeFields
      <4> QED
        BY <2>1, <3>1, <4>1, <1>7
    <3>2. CASE i # at \/ g # f
      <4>1. g # "form" /\ g # "values" => g \in ValuePlaces
        BY DEF Fields, ValuePlaces
      <4>2. Extent(i, g)' = Extent(i, g)
        BY <3>2, <4>1, <1>8, <1>9a DEF Extent
      <4> QED
        BY <2>2, <3>2, <4>2, <1>3, <1>7, <1>9, FieldFacts
    <3> QED
      BY <3>1, <3>2
  <2>3. ASSUME NEW i \in Props, NEW j \in 1 .. MaxValues, enum'[i][j] # NULL
        PROVE  Inside(new, enum'[i][j], enumCells'[i][j])
    BY <2>3, <1>3, <1>8, <1>9, EnumFacts
  <2> QED
    BY <2>2, <2>3, <1>3, <1>8, MoveFacts DEF ListInside, Extent
<1>12. \A i \in Props : i < at => CompleteDesc(i)'
  <2> SUFFICES ASSUME NEW i \in Props, i < at PROVE CompleteDesc(i)'
    OBVIOUS
  <2>1. i # at
    BY <1>4 DEF Props
  <2> QED
    BY <2>1, <1>3, <1>8, <1>9c, CompleteStays DEF ListInv, ListTypeOK, Progress
<1>13. \A i \in Props : i > at => field'[i]["form"] = NULL /\ formType'[i] = "none"
  BY <1>3, <1>4, <1>8, <1>9 DEF ListInv, Progress, Fields, Props
<1>14. /\ listPlace' \in ListPlaces
       /\ at' \in Nat \ {0} /\ atValue' \in Nat \ {0}
       /\ listCtx' \in Contexts /\ descCtx' \in Contexts /\ formCtx' \in Contexts
       /\ LocalsFollow' /\ LocalsFresh' /\ Progress' /\ ListComplete'
  <2>1. CASE Fails
    BY <2>1, <1>3, <1>8, MoveFacts, EndsFacts, FailsFacts DEF Fails, ListPlaces
  <2>2. CASE f = "step" /\ Return(new)
    <3>1. /\ formType'[at] = "range"
          /\ FilledThen(at, "def") /\ FilledThen(at, "val")
          /\ FilledThen(at, "min") /\ FilledThen(at, "max")
      BY <2>2, <1>3, <1>4, <1>8, <1>9c
         DEF ListInv, Progress, RangeFields, ValuePlaces
    <3>2. FilledThen(at, "step")
      BY <2>2, <1>9c
    <3>3. ASSUME NEW i \in Props, i = at PROVE CompleteDesc(i)'
      BY <3>1, <3>2, <3>3 DEF CompleteDesc, RangeFields, Filled, FilledThen
    <3>4. \A i \in Props : i <= at => CompleteDesc(i)'
      BY <3>3, <1>4, <1>12 DEF Props
    <3> QED
      BY <2>2, <3>4, <1>3, <1>8, <1>13, ReturnFacts
  <2>3. CASE /\ f # "step"
             /\ listPlace' = After[f]
             /\ descCtx' = IF f \in RangeFields THEN descCtx
                                                ELSE Update(descCtx, new)
             /\ formCtx' = IF f \in RangeFields THEN Update(formCtx, new)
                                                ELSE formCtx
             /\ UNCHANGED <<at, atValue, listCtx>>
    <3>1. CASE f \in {"def", "val"}
      <4>1. /\ descCtx \in Contexts /\ descCtx.ptr = desc + (at - 1)
            /\ descCtx.prev = listBuf.data /\ descCtx.ptr # NULL
        BY <3>1, <1>4 DEF ListInv, ListTypeOK, LocalsFollow, LocalsFresh, NULL, Props
      <4>2. descCtx' = [ptr |-> descCtx.ptr + Moved(new), prev |-> new.data]
        BY <4>1, <2>3, <3>1, <1>3, ContextFacts, MoveFacts DEF RangeFields
      <4>3. descCtx.ptr + Moved(new) = desc' + (at' - 1) /\ desc' + (at' - 1) \in Nat
        BY <4>1, <2>3, <1>3, <1>4, <1>8, MoveFacts DEF Props
      <4>4. formCtx' = formCtx /\ listPlace' \in {"val", "form"}
        BY <2>3, <3>1 DEF After, RangeFields
      <4>5. descCtx' \in Contexts /\ formCtx' \in Contexts /\ listCtx' \in Contexts
        BY <4>2, <4>3, <4>4, <2>3, <1>3, MoveFacts DEF Contexts, ListInv, ListTypeOK
      <4>6. Update(listCtx', listBuf').ptr = desc'
        BY <2>3, <1>3, <1>8, LoopContext
      <4>7. LocalsFollow' /\ LocalsFresh'
        BY <4>2, <4>3, <4>4, <4>6, <1>8 DEF LocalsFollow, LocalsFresh, RangeFields
      <4>8. field[at]["form"] = NULL /\ formType[at] = "none"
            /\ (f = "val" => Filled(at, "def"))
        BY <3>1, <1>3 DEF ListInv, Progress
      <4>9. field'[at]["form"] = NULL /\ formType'[at] = "none"
        BY <4>8, <3>1, <1>3, <1>4, <1>8, <1>9 DEF Fields
      <4>10. FilledThen(at, "def") /\ (f = "val" => FilledThen(at, "val"))
        BY <4>8, <3>1, <1>4, <1>9c DEF ValuePlaces
      <4>11. listPlace' = IF f = "def" THEN "val" ELSE "form"
        BY <2>3, <3>1 DEF After
      <4>12. Progress' /\ ListComplete'
        BY <2>3, <3>1, <4>9, <4>10, <4>11, <1>3, <1>4, <1>8, <1>12, <1>13, MoveFacts
           DEF Progress, ListComplete, ListDecoding, ValuePlaces, RangeFields,
               Filled, FilledThen
      <4> QED
        BY <2>3, <4>4, <4>5, <4>7, <4>12 DEF ListPlaces, ValuePlaces, ListInv, ListTypeOK
    <3>2. CASE f \in {"min", "max"}
      <4>1. /\ formCtx \in Contexts /\ formCtx.ptr = desc + (at - 1)
            /\ formCtx.prev = listBuf.data /\ formCtx.ptr # NULL
        BY <3>2, <1>4 DEF ListInv, ListTypeOK, LocalsFollow, LocalsFresh, NULL, Props,
                          RangeFields
      <4>2. formCtx' = [ptr |-> formCtx.ptr + Moved(new), prev |-> new.data]
        BY <4>1, <2>3, <3>2, <1>3, ContextFacts, MoveFacts DEF RangeFields
      <4>3. formCtx.ptr + Moved(new) = desc' + (at' - 1) /\ desc' + (at' - 1) \in Nat
        BY <4>1, <2>3, <1>3, <1>4, <1>8, MoveFacts DEF Props
      <4>4. descCtx' = descCtx /\ listPlace' = IF f = "min" THEN "max" ELSE "step"
        BY <2>3, <3>2 DEF After, RangeFields
      <4>5. descCtx' \in Contexts /\ formCtx' \in Contexts /\ listCtx' \in Contexts
        BY <4>2, <4>3, <4>4, <2>3, <1>3, MoveFacts DEF Contexts, ListInv, ListTypeOK
      <4>6. Update(listCtx', listBuf').ptr = desc'
        BY <2>3, <1>3, <1>8, LoopContext
      <4>7. LocalsFollow' /\ LocalsFresh'
        BY <4>2, <4>3, <4>4, <4>6, <1>8 DEF LocalsFollow, LocalsFresh, RangeFields
      <4>8. /\ field[at]["form"] # NULL /\ formType[at] = "range"
            /\ Filled(at, "def") /\ Filled(at, "val")
            /\ f = "max" => Filled(at, "min")
        BY <3>2, <1>3 DEF ListInv, Progress, RangeFields
      <4>9. /\ field'[at]["form"] # NULL /\ formType'[at] = "range"
            /\ FilledThen(at, "def") /\ FilledThen(at, "val")
            /\ f = "max" => FilledThen(at, "min")
        BY <4>8, <3>2, <1>4, <1>8, <1>9, <1>9c DEF Fields, ValuePlaces, RangeFields
      <4>10. f = "min" => FilledThen(at, "min")
        BY <1>9c
      <4>11. f = "max" => FilledThen(at, "max")
        BY <1>9c
      <4>12. Progress' /\ ListComplete'
        BY <2>3, <3>2, <4>4, <4>9, <4>10, <4>11, <1>3, <1>4, <1>8, <1>12, <1>13, MoveFacts
           DEF Progress, ListComplete, ListDecoding, ValuePlaces, RangeFields,
               Filled, FilledThen
      <4> QED
        BY <2>3, <4>4, <4>5, <4>7, <4>12
           DEF ListPlaces, ValuePlaces, RangeFields, ListInv, ListTypeOK
    <3> QED
      BY <2>3, <3>1, <3>2, <1>3 DEF ValuePlaces, RangeFields
  <2> QED
    BY <2>1, <2>2, <2>3, <1>2
<1>15. ListTypeOK'
  BY <1>3, <1>7, <1>8, <1>9a, <1>14, MoveFacts, EnumFacts DEF ListInv, ListTypeOK
<1> QED
  BY <1>10, <1>11, <1>14, <1>15 DEF ListInv

\* A form is recorded in the descriptor that waits for it.
LEMMA DecodeFormWrites ==
  ASSUME ListInv, DecodeForm
  PROVE
       \E t, new :
           /\ t \in {"range", "enum", "other"} /\ new \in Appended(listBuf, 1)
           /\ listBuf' = new
           /\ desc' = AdjustedDesc(Moved(new))
           /\ field' = [AdjustedField(Moved(new)) EXCEPT
                          ![at]["form"] = End(listBuf, new)]
           /\ formType' = [formType EXCEPT ![at] = t]
           /\ enum' = AdjustedEnum(Moved(new))
           /\ UNCHANGED <<count, kind, cellVars, enumCount>>
           /\ \/ t = "other" /\ Fails
              \/ /\ t # "other"
                 /\ listPlace' = IF t = "range" THEN "min" ELSE "count"
                 /\ formCtx' = [ptr |-> desc' + (at - 1), prev |-> new.data]
                 /\ UNCHANGED <<at, atValue, listCtx, descCtx>>
<1>1. PICK t \in {"range", "enum", "other"}, new \in Appended(listBuf, 1) :
       LET ctx   == Update(Begin(descCtx.ptr, listBuf), new)
           moved == AdjustedField(Moved(new))
       IN  /\ listBuf' = new
           /\ desc' = AdjustedDesc(Moved(new))
           /\ field' = [moved EXCEPT ![at]["form"] =
                          IF ctx.ptr = DescCell(at, new)
                            THEN End(listBuf, new) ELSE @]
           /\ formType' = [formType EXCEPT ![at] = t]
           /\ enum' = AdjustedEnum(Moved(new))
           /\ UNCHANGED <<count, kind, cellVars, enumCount>>
           /\ \/ t = "other" /\ Fails
              \/ /\ t # "other"
                 /\ listPlace' = IF t = "range" THEN "min" ELSE "count"
                 /\ formCtx' = ctx
                 /\ UNCHANGED <<at, atValue, listCtx, descCtx>>
  BY DEF DecodeForm
<1> DEFINE ctx   == Update(Begin(descCtx.ptr, listBuf), new)
           moved == AdjustedField(Moved(new))
           p     == End(listBuf, new)
<1>2. /\ listPlace = "form" /\ listPlace \in ListDecoding /\ 1 \in Nat
      /\ t \in {"range", "enum", "other"} /\ new \in Appended(listBuf, 1)
  BY <1>1 DEF DecodeForm, ListDecoding
<1>3. /\ at \in Props /\ at <= count /\ count \in 0 .. MaxProps
      /\ desc \in Nat /\ desc # NULL
      /\ descCtx.ptr = desc + (at - 1)
      /\ field[at]["form"] = NULL /\ formType[at] = "none"
      /\ Filled(at, "def") /\ Filled(at, "val")
  BY <1>2, MoveFacts DEF ListInv, ListTypeOK, Progress, LocalsFollow
<1>4. /\ ctx = [ptr |-> desc' + (at - 1), prev |-> new.data]
      /\ ctx.ptr = DescCell(at, new)
      /\ ctx \in Contexts
  <2>1. descCtx.ptr \in Nat /\ descCtx.ptr # NULL
    BY <1>3 DEF NULL, Props
  <2>2. /\ ctx.ptr = descCtx.ptr + (new.data - listBuf.data)
        /\ ctx.prev = new.data
    BY <2>1, <1>2, UpdateFacts, MoveFacts DEF Begin
  <2>3. new.data = listBuf.data \/ new.data # listBuf.data
    OBVIOUS
  <2>4. ctx = [ptr |-> ctx.ptr, prev |-> ctx.prev]
    BY <2>1 DEF Update, Begin
  <2>5. descCtx.ptr + (new.data - listBuf.data) = AdjustedDesc(Moved(new)) + (at - 1)
    BY <1>2, <1>3, MoveFacts DEF Props
  <2>6. AdjustedDesc(Moved(new)) + (at - 1) \in Nat
    BY <1>2, <1>3, MoveFacts DEF Props
  <2> QED
    BY <1>1, <1>2, <2>2, <2>4, <2>5, <2>6, MoveFacts DEF DescCell, Contexts
<1>5. field' = [moved EXCEPT ![at]["form"] = p]
  BY <1>1, <1>4
<1> QED
  BY <1>1, <1>4, <1>5

\* A form: it is recorded with its type in the descriptor that waits for it.
LEMMA DecodeFormStep ==
  ASSUME ListInv, DecodeForm
  PROVE  ListInv'
<1>1. PICK t, new :
           /\ t \in {"range", "enum", "other"} /\ new \in Appended(listBuf, 1)
           /\ listBuf' = new
           /\ desc' = AdjustedDesc(Moved(new))
           /\ field' = [AdjustedField(Moved(new)) EXCEPT
                          ![at]["form"] = End(listBuf, new)]
           /\ formType' = [formType EXCEPT ![at] = t]
           /\ enum' = AdjustedEnum(Moved(new))
           /\ UNCHANGED <<count, kind, cellVars, enumCount>>
           /\ \/ t = "other" /\ Fails
              \/ /\ t # "other"
                 /\ listPlace' = IF t = "range" THEN "min" ELSE "count"
                 /\ formCtx' = [ptr |-> desc' + (at - 1), prev |-> new.data]
                 /\ UNCHANGED <<at, atValue, listCtx, descCtx>>
  BY DecodeFormWrites
<1> DEFINE moved == AdjustedField(Moved(new))
           p     == End(listBuf, new)
<1>2. /\ listPlace = "form" /\ listPlace \in ListDecoding /\ 1 \in Nat
      /\ t \in {"range", "enum", "other"} /\ new \in Appended(listBuf, 1)
  BY <1>1 DEF DecodeForm, ListDecoding
<1>3. /\ at \in Props /\ at <= count /\ count \in 0 .. MaxProps
      /\ desc \in Nat /\ desc # NULL
      /\ descCtx.ptr = desc + (at - 1)
      /\ field[at]["form"] = NULL /\ formType[at] = "none"
      /\ Filled(at, "def") /\ Filled(at, "val")
  BY <1>2, MoveFacts DEF ListInv, ListTypeOK, Progress, LocalsFollow
<1>4. [ptr |-> desc' + (at - 1), prev |-> new.data] \in Contexts
  <2>1. AdjustedDesc(Moved(new)) + (at - 1) \in Nat
    BY <1>1, <1>2, <1>3, MoveFacts DEF Props
  <2> QED
    BY <2>1, <1>1, <1>2, MoveFacts DEF Contexts
<1>5. field' = [moved EXCEPT ![at]["form"] = p]
  BY <1>1
<1>6. moved \in [Props -> [Fields -> Nat]] /\ "form" \in Fields
  BY <1>2, FieldFacts DEF Fields
<1>7. /\ field' \in [Props -> [Fields -> Nat]]
      /\ field'[at]["form"] = p
      /\ \A i \in Props, g \in Fields :
           i # at \/ g # "form" => field'[i][g] = moved[i][g]
  BY <1>2, <1>3, <1>5, <1>6, MoveFacts
<1>8. /\ listBuf' = new /\ desc' = AdjustedDesc(Moved(new))
      /\ enum' = AdjustedEnum(Moved(new))
      /\ count' = count /\ enumCount' = enumCount
      /\ kind' = kind /\ cells' = cells /\ enumCells' = enumCells
      /\ formType' = [formType EXCEPT ![at] = t]
      /\ formType \in [Props -> {"none", "range", "enum", "other"}]
  BY <1>1 DEF ListInv, ListTypeOK, cellVars
<1>9. /\ \A i \in Props, g \in Fields :
           /\ field[i][g] # NULL => field'[i][g] # NULL
           /\ field'[i][g] # NULL /\ (i # at \/ g # "form") => field[i][g] # NULL
      /\ \A i \in Props, j \in 1 .. MaxValues : enum[i][j] # NULL <=> enum'[i][j] # NULL
      /\ formType'[at] = t
      /\ \A i \in Props : i # at => formType'[i] = formType[i]
  BY <1>2, <1>3, <1>7, <1>8, FieldFacts, EnumFacts, MoveFacts
<1>9a. /\ \A i \in Props, g \in ValuePlaces : Filled(i, g) => FilledThen(i, g)
       /\ \A i \in Props, j \in 1 .. MaxValues :
            FilledEnum(i, j) => FilledEnumThen(i, j)
  <2>1. ValuePlaces \subseteq Fields
    BY DEF ValuePlaces, Fields
  <2> QED
    BY <2>1, <1>8, <1>9, FilledStays
<1>10. /\ \A g \in Fields : field[at][g] # NULL => g \in {"def", "val"}
       /\ \A j \in 1 .. MaxValues : enum[at][j] = NULL
  BY <1>3 DEF ListInv, Recorded, Walks, WalksForm, WalksValue, RangeFields
<1>11. Recorded'
  <2>1. ASSUME NEW i \in Props, i # at, NEW g \in Fields, Walks(i, g)
        PROVE  Walks(i, g)'
    BY <2>1, <1>2, <1>6, <1>8, <1>9, MoveFacts DEF Walks, WalksDesc, WalksForm
  <2>2. ASSUME NEW i \in Props, i # at, NEW j \in 1 .. MaxValues, WalksValue(i, j)
        PROVE  WalksValue(i, j)'
    BY <2>2, <1>2, <1>8, <1>9, MoveFacts DEF WalksValue, WalksDesc, WalksForm, Fields
  <2>3. ASSUME NEW i \in Props, i = at, NEW g \in Fields, field'[i][g] # NULL
        PROVE  Walks(i, g)'
    <3>1. g \in {"def", "val", "form"}
      BY <2>3, <1>9, <1>10
    <3> QED
      BY <2>3, <3>1, <1>2, <1>3, <1>8, MoveFacts DEF Walks, WalksDesc
  <2> QED
    BY <2>1, <2>2, <2>3, <1>9, <1>10 DEF ListInv, Recorded
<1>12. ListInside'
  <2>1. Inside(new, p, 1)
    BY <1>2, MoveFacts DEF Inside
  <2>2. ASSUME NEW i \in Props, NEW g \in Fields, field'[i][g] # NULL
        PROVE  Inside(new, field'[i][g], Extent(i, g)')
    <3>1. Extent(i, g)' = Extent(i, g) /\ (g = "form" => Extent(i, g) = 1)
      BY <1>8 DEF Extent
    <3> QED
      BY <2>1, <2>2, <3>1, <1>2, <1>7, <1>9, FieldFacts
  <2>3. ASSUME NEW i \in Props, NEW j \in 1 .. MaxValues, enum'[i][j] # NULL
        PROVE  Inside(new, enum'[i][j], enumCells'[i][j])
    BY <2>3, <1>2, <1>8, <1>9, EnumFacts
  <2> QED
    BY <2>2, <2>3, <1>2, <1>8, MoveFacts DEF ListInside, Extent
<1>13. \A i \in Props : i < at => CompleteDesc(i)'
  <2> SUFFICES ASSUME NEW i \in Props, i < at PROVE CompleteDesc(i)'
    OBVIOUS
  <2>1. i # at
    BY <1>3 DEF Props
  <2> QED
    BY <2>1, <1>2, <1>8, <1>9, <1>9a, CompleteStays DEF ListInv, ListTypeOK, Progress
<1>14. \A i \in Props : i > at => field'[i]["form"] = NULL /\ formType'[i] = "none"
  <2>1. \A i \in Props : i > at => i # at
    BY <1>3 DEF Props
  <2> QED
    BY <2>1, <1>2, <1>6, <1>9 DEF ListInv, Progress
<1>15. /\ listPlace' \in ListPlaces
       /\ at' \in Nat \ {0} /\ atValue' \in Nat \ {0}
       /\ listCtx' \in Contexts /\ descCtx' \in Contexts /\ formCtx' \in Contexts
       /\ LocalsFollow' /\ LocalsFresh' /\ Progress' /\ ListComplete'
  <2>1. CASE Fails
    BY <2>1, <1>2, <1>8, MoveFacts, EndsFacts, FailsFacts DEF Fails, ListPlaces
  <2>2. CASE /\ t # "other"
             /\ listPlace' = IF t = "range" THEN "min" ELSE "count"
             /\ formCtx' = [ptr |-> desc' + (at - 1), prev |-> new.data]
             /\ UNCHANGED <<at, atValue, listCtx, descCtx>>
    <3>1. \/ t = "range" /\ listPlace' = "min"
          \/ t = "enum" /\ listPlace' = "count"
      BY <2>2, <1>2
    <3>2. Update(listCtx', listBuf').ptr = desc'
      BY <2>2, <1>2, <1>8, LoopContext
    <3>3. LocalsFollow' /\ LocalsFresh'
      BY <2>2, <3>1, <3>2, <1>4, <1>8 DEF LocalsFollow, LocalsFresh, RangeFields
    <3>4. /\ FilledThen(at, "def") /\ FilledThen(at, "val")
          /\ field'[at]["form"] # NULL /\ field'[at]["values"] = NULL
      BY <1>2, <1>3, <1>6, <1>7, <1>9, <1>9a, <1>10, MoveFacts DEF Fields, ValuePlaces
    <3>5. Progress' /\ ListComplete'
      BY <2>2, <3>1, <3>4, <1>2, <1>3, <1>8, <1>9, <1>13, <1>14, MoveFacts
         DEF Progress, ListComplete, ListDecoding, ValuePlaces, RangeFields,
             Filled, FilledThen
    <3> QED
      BY <2>2, <3>1, <3>3, <3>5, <1>4
         DEF ListPlaces, ValuePlaces, RangeFields, ListInv, ListTypeOK
  <2> QED
    BY <2>1, <2>2, <1>1
<1>16. ListTypeOK'
  BY <1>2, <1>7, <1>8, <1>15, MoveFacts, EnumFacts DEF ListInv, ListTypeOK
<1> QED
  BY <1>11, <1>12, <1>15, <1>16 DEF ListInv

\* The room for the values is recorded in the form that waits for it.
LEMMA DecodeEnumCountWrites ==
  ASSUME ListInv, DecodeEnumCount
  PROVE
       \E n, new :
           /\ n \in 0 .. MaxValues /\ new \in Appended(listBuf, n)
           /\ listBuf' = new
           /\ desc' = AdjustedDesc(Moved(new))
           /\ field' = [AdjustedField(Moved(new)) EXCEPT
                          ![at]["values"] = End(listBuf, new)]
           /\ enumCount' = [enumCount EXCEPT ![at] = n]
           /\ enum' = AdjustedEnum(Moved(new))
           /\ UNCHANGED <<count, kind, cellVars, formType>>
           /\ \/ n = 0 /\ Return(new)
              \/ /\ n > 0
                 /\ listPlace' = "enum"
                 /\ atValue' = 1
                 /\ formCtx' = [ptr |-> desc' + (at - 1), prev |-> new.data]
                 /\ UNCHANGED <<at, listCtx, descCtx>>
<1>1. PICK n, new :
       LET ctx   == Update(formCtx, new)
           moved == AdjustedField(Moved(new))
           found == ctx.ptr = DescCell(at, new)
       IN  /\ n \in 0 .. MaxValues /\ new \in Appended(listBuf, n)
           /\ listBuf' = new
           /\ desc' = AdjustedDesc(Moved(new))
           /\ field' = [moved EXCEPT ![at]["values"] =
                          IF found THEN End(listBuf, new) ELSE @]
           /\ enumCount' = [enumCount EXCEPT ![at] = IF found THEN n ELSE @]
           /\ enum' = AdjustedEnum(Moved(new))
           /\ UNCHANGED <<count, kind, cellVars, formType>>
           /\ \/ n = 0 /\ Return(new)
              \/ /\ n > 0
                 /\ listPlace' = "enum"
                 /\ atValue' = 1
                 /\ formCtx' = ctx
                 /\ UNCHANGED <<at, listCtx, descCtx>>
  BY DEF DecodeEnumCount
<1> DEFINE ctx   == Update(formCtx, new)
           moved == AdjustedField(Moved(new))
           p     == End(listBuf, new)
<1>2. /\ listPlace = "count" /\ listPlace \in ListDecoding
      /\ n \in Nat /\ new \in Appended(listBuf, n)
  BY <1>1, ListBoundsAssumption DEF DecodeEnumCount, ListDecoding
<1>3. /\ at \in Props /\ at <= count /\ count \in 0 .. MaxProps
      /\ desc \in Nat /\ desc # NULL
      /\ formCtx \in Contexts
      /\ formCtx.ptr = desc + (at - 1) /\ formCtx.prev = listBuf.data
      /\ formType[at] = "enum" /\ field[at]["form"] # NULL
      /\ Filled(at, "def") /\ Filled(at, "val")
      /\ field[at]["values"] = NULL
  BY <1>2, MoveFacts
     DEF ListInv, ListTypeOK, Progress, LocalsFollow, LocalsFresh, RangeFields
<1>4. /\ ctx = [ptr |-> desc' + (at - 1), prev |-> new.data]
      /\ ctx.ptr = DescCell(at, new)
      /\ ctx \in Contexts
  <2>1. formCtx.ptr # NULL
    BY <1>3 DEF NULL, Props
  <2>2. ctx = [ptr |-> formCtx.ptr + (new.data - formCtx.prev), prev |-> new.data]
    BY <2>1, <1>2, <1>3, ContextFacts
  <2>3. formCtx.ptr + (new.data - formCtx.prev) = AdjustedDesc(Moved(new)) + (at - 1)
    BY <1>2, <1>3, MoveFacts DEF Props
  <2>4. AdjustedDesc(Moved(new)) + (at - 1) \in Nat
    BY <1>2, <1>3, MoveFacts DEF Props
  <2> QED
    BY <1>1, <1>2, <2>2, <2>3, <2>4, MoveFacts DEF DescCell, Contexts
<1>5. /\ field' = [moved EXCEPT ![at]["values"] = p]
      /\ enumCount' = [enumCount EXCEPT ![at] = n]
  BY <1>1, <1>4
<1> QED
  BY <1>1, <1>4, <1>5

\* The values of an enumeration: room for all of them, and none decoded yet.
LEMMA DecodeEnumCountStep ==
  ASSUME ListInv, DecodeEnumCount
  PROVE  ListInv'
<1>1. PICK n, new :
           /\ n \in 0 .. MaxValues /\ new \in Appended(listBuf, n)
           /\ listBuf' = new
           /\ desc' = AdjustedDesc(Moved(new))
           /\ field' = [AdjustedField(Moved(new)) EXCEPT
                          ![at]["values"] = End(listBuf, new)]
           /\ enumCount' = [enumCount EXCEPT ![at] = n]
           /\ enum' = AdjustedEnum(Moved(new))
           /\ UNCHANGED <<count, kind, cellVars, formType>>
           /\ \/ n = 0 /\ Return(new)
              \/ /\ n > 0
                 /\ listPlace' = "enum"
                 /\ atValue' = 1
                 /\ formCtx' = [ptr |-> desc' + (at - 1), prev |-> new.data]
                 /\ UNCHANGED <<at, listCtx, descCtx>>
  BY DecodeEnumCountWrites
<1> DEFINE moved == AdjustedField(Moved(new))
           p     == End(listBuf, new)
<1>2. /\ listPlace = "count" /\ listPlace \in ListDecoding
      /\ n \in Nat /\ new \in Appended(listBuf, n)
  BY <1>1, ListBoundsAssumption DEF DecodeEnumCount, ListDecoding
<1>3. /\ at \in Props /\ at <= count /\ count \in 0 .. MaxProps
      /\ desc \in Nat /\ desc # NULL
      /\ formCtx \in Contexts
      /\ formCtx.ptr = desc + (at - 1) /\ formCtx.prev = listBuf.data
      /\ formType[at] = "enum" /\ field[at]["form"] # NULL
      /\ Filled(at, "def") /\ Filled(at, "val")
      /\ field[at]["values"] = NULL
  BY <1>2, MoveFacts
     DEF ListInv, ListTypeOK, Progress, LocalsFollow, LocalsFresh, RangeFields
<1>4. [ptr |-> desc' + (at - 1), prev |-> new.data] \in Contexts
  <2>1. AdjustedDesc(Moved(new)) + (at - 1) \in Nat
    BY <1>1, <1>2, <1>3, MoveFacts DEF Props
  <2> QED
    BY <2>1, <1>1, <1>2, MoveFacts DEF Contexts
<1>5. /\ field' = [moved EXCEPT ![at]["values"] = p]
      /\ enumCount' = [enumCount EXCEPT ![at] = n]
  BY <1>1
<1>6. moved \in [Props -> [Fields -> Nat]] /\ "values" \in Fields
  BY <1>2, FieldFacts DEF Fields
<1>7. /\ field' \in [Props -> [Fields -> Nat]]
      /\ field'[at]["values"] = p
      /\ \A i \in Props, g \in Fields :
           i # at \/ g # "values" => field'[i][g] = moved[i][g]
  BY <1>2, <1>3, <1>5, <1>6, MoveFacts
<1>8. /\ listBuf' = new /\ desc' = AdjustedDesc(Moved(new))
      /\ enum' = AdjustedEnum(Moved(new))
      /\ count' = count /\ formType' = formType
      /\ kind' = kind /\ cells' = cells /\ enumCells' = enumCells
      /\ enumCount' \in [Props -> 0 .. MaxValues]
      /\ enumCount'[at] = n
      /\ \A i \in Props : i # at => enumCount'[i] = enumCount[i]
  BY <1>1, <1>3, <1>5 DEF ListInv, ListTypeOK, cellVars
<1>9. /\ \A i \in Props, g \in Fields :
           /\ field[i][g] # NULL => field'[i][g] # NULL
           /\ field'[i][g] # NULL /\ (i # at \/ g # "values") => field[i][g] # NULL
      /\ \A i \in Props, j \in 1 .. MaxValues : enum[i][j] # NULL <=> enum'[i][j] # NULL
  BY <1>2, <1>3, <1>7, <1>8, FieldFacts, EnumFacts, MoveFacts
<1>9a. /\ \A i \in Props, g \in ValuePlaces : Filled(i, g) => FilledThen(i, g)
       /\ \A i \in Props, j \in 1 .. MaxValues :
            FilledEnum(i, j) => FilledEnumThen(i, j)
  <2>1. ValuePlaces \subseteq Fields
    BY DEF ValuePlaces, Fields
  <2> QED
    BY <2>1, <1>8, <1>9, FilledStays
<1>10. \A j \in 1 .. MaxValues : enum[at][j] = NULL
  BY <1>3 DEF ListInv, Recorded, WalksValue
<1>11. Recorded'
  <2>1. ASSUME NEW i \in Props, NEW g \in Fields, Walks(i, g)
        PROVE  Walks(i, g)'
    BY <2>1, <1>2, <1>6, <1>8, <1>9, MoveFacts DEF Walks, WalksDesc, WalksForm, Fields
  <2>2. ASSUME NEW i \in Props, i # at, NEW j \in 1 .. MaxValues, WalksValue(i, j)
        PROVE  WalksValue(i, j)'
    BY <2>2, <1>2, <1>8, <1>9, MoveFacts DEF WalksValue, WalksDesc, WalksForm, Fields
  <2>3. Walks(at, "values")
    BY <1>3 DEF Walks, WalksDesc, WalksForm
  <2>4. \A i \in Props, g \in Fields : field'[i][g] # NULL => Walks(i, g)
    BY <2>3, <1>9 DEF ListInv, Recorded
  <2>5. \A i \in Props, j \in 1 .. MaxValues :
          enum'[i][j] # NULL => i # at /\ WalksValue(i, j)
    BY <1>9, <1>10 DEF ListInv, Recorded
  <2> QED
    BY <2>1, <2>2, <2>4, <2>5 DEF Recorded
<1>12. ListInside'
  <2>1. Inside(new, p, n)
    BY <1>2, MoveFacts DEF Inside
  <2>2. ASSUME NEW i \in Props, NEW g \in Fields, field'[i][g] # NULL
        PROVE  Inside(new, field'[i][g], Extent(i, g)')
    <3>1. CASE i = at /\ g = "values"
      BY <2>1, <3>1, <1>7, <1>8 DEF Extent
    <3>2. CASE i # at \/ g # "values"
      <4>1. Extent(i, g)' = Extent(i, g)
        BY <3>2, <1>8 DEF Extent
      <4> QED
        BY <2>2, <3>2, <4>1, <1>2, <1>7, <1>9, FieldFacts
    <3> QED
      BY <3>1, <3>2
  <2>3. ASSUME NEW i \in Props, NEW j \in 1 .. MaxValues, enum'[i][j] # NULL
        PROVE  Inside(new, enum'[i][j], enumCells'[i][j])
    BY <2>3, <1>2, <1>8, <1>9, EnumFacts
  <2> QED
    BY <2>2, <2>3, <1>2, <1>8, MoveFacts DEF ListInside, Extent
<1>13. \A i \in Props : i < at => CompleteDesc(i)'
  <2> SUFFICES ASSUME NEW i \in Props, i < at PROVE CompleteDesc(i)'
    OBVIOUS
  <2>1. i # at
    BY <1>3 DEF Props
  <2> QED
    BY <2>1, <1>2, <1>8, <1>9, <1>9a, CompleteStays DEF ListInv, ListTypeOK, Progress
<1>14. \A i \in Props : i > at => field'[i]["form"] = NULL /\ formType'[i] = "none"
  BY <1>2, <1>3, <1>8, <1>9 DEF ListInv, Progress, Fields
<1>15. /\ FilledThen(at, "def") /\ FilledThen(at, "val")
       /\ field'[at]["form"] # NULL /\ field'[at]["values"] # NULL
  BY <1>2, <1>3, <1>7, <1>9, <1>9a, MoveFacts DEF Fields, ValuePlaces
<1>16. /\ listPlace' \in ListPlaces
       /\ at' \in Nat \ {0} /\ atValue' \in Nat \ {0}
       /\ listCtx' \in Contexts /\ descCtx' \in Contexts /\ formCtx' \in Contexts
       /\ LocalsFollow' /\ LocalsFresh' /\ Progress' /\ ListComplete'
  <2>1. CASE n = 0 /\ Return(new)
    <3>1. ASSUME NEW i \in Props, i = at PROVE CompleteDesc(i)'
      BY <2>1, <3>1, <1>3, <1>8, <1>15 DEF CompleteDesc, Filled, FilledThen
    <3>2. \A i \in Props : i <= at => CompleteDesc(i)'
      BY <3>1, <1>3, <1>13 DEF Props
    <3> QED
      BY <2>1, <3>2, <1>2, <1>8, <1>14, ReturnFacts
  <2>2. CASE /\ n > 0
             /\ listPlace' = "enum"
             /\ atValue' = 1
             /\ formCtx' = [ptr |-> desc' + (at - 1), prev |-> new.data]
             /\ UNCHANGED <<at, listCtx, descCtx>>
    <3>1. Update(listCtx', listBuf').ptr = desc'
      BY <2>2, <1>2, <1>8, LoopContext
    <3>2. LocalsFollow' /\ LocalsFresh'
      BY <2>2, <3>1, <1>4, <1>8 DEF LocalsFollow, LocalsFresh, RangeFields
    <3>3. 1 <= enumCount'[at] /\ \A j \in 1 .. MaxValues : ~(j < 1)
      BY <2>2, <1>2, <1>8
    <3>4. Progress' /\ ListComplete'
      BY <2>2, <3>3, <1>2, <1>3, <1>8, <1>13, <1>14, <1>15, MoveFacts
         DEF Progress, ListComplete, ListDecoding, ValuePlaces, RangeFields,
             Filled, FilledThen
    <3> QED
      BY <2>2, <3>2, <3>4, <1>4
         DEF ListPlaces, ListInv, ListTypeOK
  <2> QED
    BY <2>1, <2>2, <1>1
<1>17. ListTypeOK'
  BY <1>2, <1>7, <1>8, <1>16, MoveFacts, EnumFacts DEF ListInv, ListTypeOK
<1> QED
  BY <1>11, <1>12, <1>16, <1>17 DEF ListInv

\* A value of an enumeration is written into the room that was made for it.
LEMMA DecodeEnumValueWrites ==
  ASSUME ListInv, DecodeEnumValue
  PROVE
       \E n, new :
           /\ n \in 0 .. MaxElems /\ new \in Appended(listBuf, n)
           /\ kind[at] # "array" => n >= 1
           /\ listBuf' = new
           /\ desc' = AdjustedDesc(Moved(new))
           /\ field' = AdjustedField(Moved(new))
           /\ enum' = [AdjustedEnum(Moved(new)) EXCEPT
                         ![at][atValue] = End(listBuf, new)]
           /\ enumCells' = [enumCells EXCEPT ![at][atValue] = n]
           /\ UNCHANGED <<count, kind, cells, formType, enumCount>>
           /\ \/ Fails
              \/ atValue = enumCount[at] /\ Return(new)
              \/ /\ atValue < enumCount[at]
                 /\ atValue' = atValue + 1
                 /\ formCtx' = Update(formCtx, new)
                 /\ UNCHANGED <<listPlace, at, listCtx, descCtx>>
<1>1. PICK n, new :
       LET moved == AdjustedField(Moved(new))
           value == IF ThroughForm = NULL THEN NULL
                      ELSE field[at]["values"] + (atValue - 1)
           home  == moved[at]["values"] + (atValue - 1)
       IN  /\ n \in Lengths /\ new \in Appended(listBuf, n)
           /\ listBuf' = new
           /\ desc' = AdjustedDesc(Moved(new))
           /\ field' = moved
           /\ enum' = [AdjustedEnum(Moved(new)) EXCEPT ![at][atValue] =
                         Written(value, home, new, End(listBuf, new), @)]
           /\ enumCells' = [enumCells EXCEPT ![at][atValue] =
                              Written(value, home, new, n, @)]
           /\ UNCHANGED <<count, kind, cells, formType, enumCount>>
           /\ \/ Fails
              \/ atValue = enumCount[at] /\ Return(new)
              \/ /\ atValue < enumCount[at]
                 /\ atValue' = atValue + 1
                 /\ formCtx' = Update(formCtx, new)
                 /\ UNCHANGED <<listPlace, at, listCtx, descCtx>>
  BY DEF DecodeEnumValue
<1> DEFINE moved == AdjustedField(Moved(new))
           elems == AdjustedEnum(Moved(new))
           p     == End(listBuf, new)
<1>2. /\ listPlace = "enum" /\ listPlace \in ListDecoding
      /\ n \in Nat /\ new \in Appended(listBuf, n)
  BY <1>1, ListBoundsAssumption DEF DecodeEnumValue, ListDecoding, Lengths
<1>3. /\ at \in Props /\ at <= count /\ count \in 0 .. MaxProps
      /\ desc \in Nat /\ desc # NULL
      /\ formCtx \in Contexts
      /\ formCtx.ptr = desc + (at - 1) /\ formCtx.prev = listBuf.data
      /\ formType[at] = "enum" /\ field[at]["form"] # NULL
      /\ Filled(at, "def") /\ Filled(at, "val")
      /\ field[at]["values"] # NULL /\ field[at]["values"] \in Nat
      /\ enumCount[at] \in 0 .. MaxValues
      /\ atValue \in Nat \ {0} /\ atValue <= enumCount[at]
  <2>1. /\ at \in Props /\ at <= count /\ count \in 0 .. MaxProps
        /\ desc \in Nat /\ desc # NULL
        /\ Filled(at, "def") /\ Filled(at, "val")
        /\ field[at]["values"] # NULL
        /\ formType[at] = "enum" /\ field[at]["form"] # NULL
        /\ atValue \in Nat \ {0} /\ atValue <= enumCount[at]
    BY <1>2, MoveFacts DEF ListInv, ListTypeOK, Progress, RangeFields
  <2> QED
    BY <2>1, <1>2
       DEF ListInv, ListTypeOK, LocalsFollow, LocalsFresh, Fields
<1>4. atValue \in 1 .. MaxValues
  BY <1>3, ListBoundsAssumption
<1>5. /\ moved \in [Props -> [Fields -> Nat]]
      /\ elems \in [Props -> [1 .. MaxValues -> Nat]]
  BY <1>2, FieldFacts, EnumFacts
<1>6. /\ enum' = [elems EXCEPT ![at][atValue] = p]
      /\ enumCells' = [enumCells EXCEPT ![at][atValue] = n]
  <2>1. ThroughForm = field[at]["form"] /\ field[at]["form"] # NULL
    BY <1>3 DEF ThroughForm
  <2>2. moved[at]["values"] = field[at]["values"] + Moved(new)
    BY <1>2, <1>3, FieldFacts DEF Fields
  <2> DEFINE value == field[at]["values"] + (atValue - 1)
             home  == moved[at]["values"] + (atValue - 1)
  <2>3. value \in Nat /\ value # NULL /\ home = value + Moved(new)
    <3>1. Moved(new) \in Int
      BY <1>2, MoveFacts
    <3>2. /\ field[at]["values"] \in Nat /\ field[at]["values"] # NULL
          /\ atValue \in Nat \ {0}
      BY <1>3
    <3> HIDE DEF moved
    <3> QED
      BY <2>2, <3>1, <3>2 DEF NULL
  <2>4. /\ Written(value, home, new, p, elems[at][atValue]) = p
        /\ Written(value, home, new, n, enumCells[at][atValue]) = n
    BY <2>3, <1>2, WrittenFacts
  <2> HIDE DEF value, home, elems, p
  <2>5. /\ enum' = [elems EXCEPT ![at][atValue] = Written(value, home, new, p, @)]
        /\ enumCells' = [enumCells EXCEPT ![at][atValue] =
                           Written(value, home, new, n, @)]
    BY <2>1, <1>1 DEF value, home, elems, p
  <2> QED
    BY <2>4, <2>5, <1>2, <1>3, <1>4, <1>5 DEF ListInv, ListTypeOK
<1>7. n \in 0 .. MaxElems /\ (kind[at] # "array" => n >= 1)
  BY <1>1 DEF Lengths
<1> QED
  BY <1>1, <1>2, <1>6, <1>7

\* One value of an enumeration: it goes into the room that was made for it.
LEMMA DecodeEnumValueStep ==
  ASSUME ListInv, DecodeEnumValue
  PROVE  ListInv'
<1>1. PICK n, new :
           /\ n \in 0 .. MaxElems /\ new \in Appended(listBuf, n)
           /\ kind[at] # "array" => n >= 1
           /\ listBuf' = new
           /\ desc' = AdjustedDesc(Moved(new))
           /\ field' = AdjustedField(Moved(new))
           /\ enum' = [AdjustedEnum(Moved(new)) EXCEPT
                         ![at][atValue] = End(listBuf, new)]
           /\ enumCells' = [enumCells EXCEPT ![at][atValue] = n]
           /\ UNCHANGED <<count, kind, cells, formType, enumCount>>
           /\ \/ Fails
              \/ atValue = enumCount[at] /\ Return(new)
              \/ /\ atValue < enumCount[at]
                 /\ atValue' = atValue + 1
                 /\ formCtx' = Update(formCtx, new)
                 /\ UNCHANGED <<listPlace, at, listCtx, descCtx>>
  BY DecodeEnumValueWrites
<1> DEFINE moved == AdjustedField(Moved(new))
           elems == AdjustedEnum(Moved(new))
           p     == End(listBuf, new)
<1>2. /\ listPlace = "enum" /\ listPlace \in ListDecoding
      /\ n \in Nat /\ new \in Appended(listBuf, n)
  BY <1>1, ListBoundsAssumption DEF DecodeEnumValue, ListDecoding
<1>3. /\ at \in Props /\ at <= count /\ count \in 0 .. MaxProps
      /\ desc \in Nat /\ desc # NULL
      /\ formCtx \in Contexts
      /\ formCtx.ptr = desc + (at - 1) /\ formCtx.prev = listBuf.data
      /\ formType[at] = "enum" /\ field[at]["form"] # NULL
      /\ Filled(at, "def") /\ Filled(at, "val")
      /\ field[at]["values"] # NULL /\ field[at]["values"] \in Nat
      /\ enumCount[at] \in 0 .. MaxValues
      /\ atValue \in Nat \ {0} /\ atValue <= enumCount[at]
  <2>1. /\ at \in Props /\ at <= count /\ count \in 0 .. MaxProps
        /\ desc \in Nat /\ desc # NULL
        /\ Filled(at, "def") /\ Filled(at, "val")
        /\ field[at]["values"] # NULL
        /\ formType[at] = "enum" /\ field[at]["form"] # NULL
        /\ atValue \in Nat \ {0} /\ atValue <= enumCount[at]
    BY <1>2, MoveFacts DEF ListInv, ListTypeOK, Progress, RangeFields
  <2> QED
    BY <2>1, <1>2
       DEF ListInv, ListTypeOK, LocalsFollow, LocalsFresh, Fields
<1>4. atValue \in 1 .. MaxValues
  BY <1>3, ListBoundsAssumption
<1>5. /\ moved \in [Props -> [Fields -> Nat]]
      /\ elems \in [Props -> [1 .. MaxValues -> Nat]]
  BY <1>2, FieldFacts, EnumFacts
<1>6. enum' = [elems EXCEPT ![at][atValue] = p]
  BY <1>1
<1>7. /\ enum' \in [Props -> [1 .. MaxValues -> Nat]]
      /\ enum'[at][atValue] = p
      /\ \A i \in Props, j \in 1 .. MaxValues :
           i # at \/ j # atValue => enum'[i][j] = elems[i][j]
  <2> HIDE DEF elems, p
  <2>1. p \in Nat
    BY <1>2, MoveFacts DEF p
  <2> QED
    BY <2>1, <1>3, <1>4, <1>5, <1>6
<1>8. /\ listBuf' = new /\ desc' = AdjustedDesc(Moved(new))
      /\ field' = moved
      /\ count' = count /\ formType' = formType /\ enumCount' = enumCount
      /\ kind' = kind /\ cells' = cells
      /\ enumCells' = [enumCells EXCEPT ![at][atValue] = n]
  BY <1>1
<1>9. /\ \A i \in Props, g \in Fields : field[i][g] # NULL <=> field'[i][g] # NULL
      /\ \A i \in Props, j \in 1 .. MaxValues :
           /\ enum[i][j] # NULL => enum'[i][j] # NULL
           /\ enum'[i][j] # NULL /\ (i # at \/ j # atValue) => enum[i][j] # NULL
      /\ enum'[at][atValue] # NULL
  <2>1. \A i \in Props, g \in Fields : field[i][g] # NULL <=> field'[i][g] # NULL
    BY <1>2, <1>8, FieldFacts
  <2>2. \A i \in Props, j \in 1 .. MaxValues : enum[i][j] # NULL <=> elems[i][j] # NULL
    BY <1>2, EnumFacts
  <2>3. p # NULL
    BY <1>2, MoveFacts
  <2> HIDE DEF elems, p
  <2> QED
    BY <2>1, <2>2, <2>3, <1>7
<1>9a. /\ enumCells' \in [Props -> [1 .. MaxValues -> Nat]]
       /\ enumCells'[at][atValue] = n
       /\ \A i \in Props, j \in 1 .. MaxValues :
            i # at \/ j # atValue => enumCells'[i][j] = enumCells[i][j]
  BY <1>2, <1>3, <1>4, <1>8 DEF ListInv, ListTypeOK
<1>9b. /\ \A i \in Props, g \in ValuePlaces : Filled(i, g) => FilledThen(i, g)
       /\ \A i \in Props, j \in 1 .. MaxValues :
            (i # at \/ j # atValue) /\ FilledEnum(i, j) => FilledEnumThen(i, j)
       /\ FilledEnumThen(at, atValue)
  <2>1. FilledEnumThen(at, atValue)
    BY <1>1, <1>3, <1>8, <1>9, <1>9a DEF FilledEnumThen
  <2>2. ValuePlaces \subseteq Fields
    BY DEF ValuePlaces, Fields
  <2> QED
    BY <2>1, <2>2, <1>8, <1>9, <1>9a, FilledStays
<1>10. Recorded'
  <2>1. ASSUME NEW i \in Props, NEW g \in Fields, Walks(i, g)
        PROVE  Walks(i, g)'
    BY <2>1, <1>2, <1>8, <1>9, MoveFacts DEF Walks, WalksDesc, WalksForm, Fields
  <2>2. ASSUME NEW i \in Props, NEW j \in 1 .. MaxValues, WalksValue(i, j)
        PROVE  WalksValue(i, j)'
    BY <2>2, <1>2, <1>8, <1>9, MoveFacts DEF WalksValue, WalksDesc, WalksForm, Fields
  <2>3. WalksValue(at, atValue)
    BY <1>3 DEF WalksValue, WalksDesc, WalksForm
  <2>4. \A i \in Props, j \in 1 .. MaxValues : enum'[i][j] # NULL => WalksValue(i, j)
    BY <2>3, <1>9 DEF ListInv, Recorded
  <2> QED
    BY <2>1, <2>2, <2>4, <1>9 DEF ListInv, Recorded
<1>11. ListInside'
  <2>1. Inside(new, p, n)
    BY <1>2, MoveFacts DEF Inside
  <2>2. ASSUME NEW i \in Props, NEW g \in Fields, field'[i][g] # NULL
        PROVE  Inside(new, field'[i][g], Extent(i, g)')
    <3>1. Extent(i, g)' = Extent(i, g)
      BY <1>8 DEF Extent
    <3> QED
      BY <2>2, <3>1, <1>2, <1>8, <1>9, FieldFacts
  <2>3. ASSUME NEW i \in Props, NEW j \in 1 .. MaxValues, enum'[i][j] # NULL
        PROVE  Inside(new, enum'[i][j], enumCells'[i][j])
    <3>1. CASE i = at /\ j = atValue
      BY <2>1, <3>1, <1>7, <1>9a
    <3>2. CASE i # at \/ j # atValue
      BY <2>3, <3>2, <1>2, <1>7, <1>9, <1>9a, EnumFacts
    <3> QED
      BY <3>1, <3>2
  <2> QED
    BY <2>2, <2>3, <1>2, <1>8, MoveFacts DEF ListInside, Extent
<1>12. \A i \in Props : i < at => CompleteDesc(i)'
  <2> SUFFICES ASSUME NEW i \in Props, i < at PROVE CompleteDesc(i)'
    OBVIOUS
  <2>1. i # at
    BY <1>3 DEF Props
  <2> QED
    BY <2>1, <1>2, <1>8, <1>9b, CompleteStays DEF ListInv, ListTypeOK, Progress
<1>13. \A i \in Props : i > at => field'[i]["form"] = NULL /\ formType'[i] = "none"
  BY <1>2, <1>3, <1>8, <1>9 DEF ListInv, Progress, Fields
<1>14. /\ FilledThen(at, "def") /\ FilledThen(at, "val")
       /\ field'[at]["form"] # NULL /\ field'[at]["values"] # NULL
       /\ \A j \in 1 .. MaxValues : j <= atValue => FilledEnumThen(at, j)
  <2>1. \A j \in 1 .. MaxValues : j < atValue => FilledEnum(at, j)
    BY <1>2 DEF ListInv, Progress
  <2>2. \A j \in 1 .. MaxValues :
          j <= atValue => j = atValue \/ (j < atValue /\ j # atValue)
    BY <1>4
  <2>3. \A j \in 1 .. MaxValues : j <= atValue => FilledEnumThen(at, j)
    BY <2>1, <2>2, <1>3, <1>9b
  <2> QED
    BY <2>3, <1>3, <1>9, <1>9b DEF Fields, ValuePlaces
<1>15. /\ listPlace' \in ListPlaces
       /\ at' \in Nat \ {0} /\ atValue' \in Nat \ {0}
       /\ listCtx' \in Contexts /\ descCtx' \in Contexts /\ formCtx' \in Contexts
       /\ LocalsFollow' /\ LocalsFresh' /\ Progress' /\ ListComplete'
  <2>1. CASE Fails
    BY <2>1, <1>2, <1>8, MoveFacts, EndsFacts, FailsFacts DEF Fails, ListPlaces
  <2>2. CASE atValue = enumCount[at] /\ Return(new)
    <3>1. ASSUME NEW i \in Props, i = at PROVE CompleteDesc(i)'
      <4>1. \A j \in 1 .. enumCount'[at] : j \in 1 .. MaxValues /\ j <= atValue
        BY <2>2, <1>3, <1>8, ListBoundsAssumption
      <4> QED
        BY <3>1, <4>1, <1>3, <1>8, <1>14
           DEF CompleteDesc, Filled, FilledThen, FilledEnum, FilledEnumThen
    <3>2. \A i \in Props : i <= at => CompleteDesc(i)'
      BY <3>1, <1>3, <1>12 DEF Props
    <3> QED
      BY <2>2, <3>2, <1>2, <1>8, <1>13, ReturnFacts
  <2>3. CASE /\ atValue < enumCount[at]
             /\ atValue' = atValue + 1
             /\ formCtx' = Update(formCtx, new)
             /\ UNCHANGED <<listPlace, at, listCtx, descCtx>>
    <3>1. Update(listCtx', listBuf').ptr = desc'
      BY <2>3, <1>2, <1>8, LoopContext
    <3>2. formCtx.ptr # NULL
      BY <1>3 DEF NULL, Props
    <3>3. formCtx' = [ptr |-> formCtx.ptr + (new.data - formCtx.prev), prev |-> new.data]
      BY <2>3, <3>2, <1>2, <1>3, ContextFacts
    <3>4. /\ formCtx.ptr + (new.data - formCtx.prev) = desc' + (at - 1)
          /\ desc' + (at - 1) \in Nat
      BY <1>2, <1>3, <1>8, MoveFacts DEF Props
    <3>5. formCtx' \in Contexts
      BY <3>3, <3>4, <1>2, MoveFacts DEF Contexts
    <3>6. LocalsFollow' /\ LocalsFresh'
      BY <2>3, <3>1, <3>3, <3>4, <1>2, <1>8 DEF LocalsFollow, LocalsFresh, RangeFields
    <3>7. /\ atValue' <= enumCount'[at] /\ atValue' \in Nat \ {0}
          /\ \A j \in 1 .. MaxValues : j < atValue' => j <= atValue
      BY <2>3, <1>3, <1>8
    <3>8. Progress' /\ ListComplete'
      BY <2>3, <3>7, <1>2, <1>3, <1>8, <1>12, <1>13, <1>14, MoveFacts
         DEF Progress, ListComplete, ListDecoding, ValuePlaces, RangeFields,
             Filled, FilledThen, FilledEnum, FilledEnumThen
    <3> QED
      BY <2>3, <3>5, <3>6, <3>7, <3>8, <1>2
         DEF ListPlaces, ListInv, ListTypeOK
  <2> QED
    BY <2>1, <2>2, <2>3, <1>1
<1>16. ListTypeOK'
  BY <1>2, <1>5, <1>7, <1>8, <1>9a, <1>15, MoveFacts DEF ListInv, ListTypeOK
<1> QED
  BY <1>10, <1>11, <1>15, <1>16 DEF ListInv

-----------------------------------------------------------------------------
(* The steps that append nothing.                                          *)

\* The list stays as it is while a decoder leaves, or goes on, without an append.
LEMMA StaysFacts ==
  ASSUME ListInv, UNCHANGED <<listBuf, structVars>>
  PROVE  /\ Recorded' /\ ListInside'
         /\ \A i \in Props : CompleteDesc(i) => CompleteDesc(i)'
         /\ listBuf' \in Buffers /\ listBuf'.size <= listBuf'.maxsize
         /\ desc' \in Nat /\ count' \in 0 .. MaxProps
         /\ field' \in [Props -> [Fields -> Nat]]
         /\ formType' \in [Props -> {"none", "range", "enum", "other"}]
         /\ enumCount' \in [Props -> 0 .. MaxValues]
         /\ enum' \in [Props -> [1 .. MaxValues -> Nat]]
         /\ kind' \in [Props -> Kinds]
         /\ cells' \in [Props -> [ValuePlaces -> Nat]]
         /\ enumCells' \in [Props -> [1 .. MaxValues -> Nat]]
<1>1. /\ listBuf' = listBuf /\ desc' = desc /\ count' = count /\ field' = field
      /\ formType' = formType /\ enumCount' = enumCount /\ enum' = enum
      /\ kind' = kind /\ cells' = cells /\ enumCells' = enumCells
  BY DEF structVars, cellVars
<1>2. \A i \in Props : CompleteDesc(i) => CompleteDesc(i)'
  BY <1>1 DEF CompleteDesc, Filled, FilledEnum
<1> QED
  BY <1>1, <1>2 DEF ListInv, ListTypeOK, Recorded, ListInside, Extent, Walks,
                    WalksDesc, WalksForm, WalksValue

\* Leaving for good, or because something failed.
LEMMA FailStep ==
  ASSUME ListInv, NoList \/ NoMore
  PROVE  ListInv'
<1>1. Fails /\ UNCHANGED <<listBuf, structVars>> /\ listPlace # "none"
  BY DEF NoList, NoMore
<1>2. listBuf'.data \in Bases
  BY <1>1 DEF ListInv, Progress
<1>3. Progress' /\ ListComplete'
  BY <1>1, <1>2, FailsFacts
<1> QED
  BY <1>1, <1>3, StaysFacts, EndsFacts DEF Fails, ListInv, ListTypeOK, ListPlaces

\* ptp_sony_decode_prop_desc starts where the loop's pointer leads.
LEMMA DecodeDescStep ==
  ASSUME ListInv, DecodeDesc
  PROVE  ListInv'
<1>1. /\ listPlace = "desc" /\ listPlace \in ListDecoding
      /\ listBuf' = listBuf /\ desc' = desc /\ count' = count /\ field' = field
      /\ formType' = formType /\ enumCount' = enumCount /\ enum' = enum
      /\ cells' = cells /\ enumCells' = enumCells
      /\ listBuf \in Appended(listBuf, 0) /\ 0 \in Nat
  BY AppendedNothing DEF DecodeDesc, ListDecoding, cellVars
<1>2. /\ at \in Props /\ at <= count /\ desc \in Nat /\ desc # NULL
      /\ listBuf.data \in Bases /\ listBuf.data \in Nat
  BY <1>1, MoveFacts DEF ListInv, ListTypeOK, Progress
<1>3. CASE Fails /\ UNCHANGED kind
  <2>1. UNCHANGED <<listBuf, structVars>>
    BY <1>1, <1>3 DEF structVars, cellVars
  <2> QED
    BY <2>1, <1>1, <1>2, <1>3, StaysFacts, EndsFacts, FailsFacts
       DEF Fails, ListInv, ListTypeOK, ListPlaces
<1>4. CASE /\ descCtx' = Begin(listCtx.ptr + (at - 1), listBuf)
           /\ \E k \in Kinds \ {"none"} : kind' = [kind EXCEPT ![at] = k]
           /\ listPlace' = "def"
           /\ UNCHANGED <<at, atValue, listCtx, formCtx>>
  <2>1. /\ kind' \in [Props -> Kinds]
        /\ \A i \in Props : i # at => kind'[i] = kind[i]
    BY <1>2, <1>4 DEF ListInv, ListTypeOK
  <2>2. listCtx.ptr = desc
    BY <1>1 DEF ListInv, LocalsFresh, LocalsFollow, Update
  <2>3. descCtx' = [ptr |-> desc + (at - 1), prev |-> listBuf.data]
    BY <2>2, <1>4 DEF Begin
  <2>4. descCtx' \in Contexts
    BY <2>3, <1>2 DEF Contexts, Props
  <2>5. Update(listCtx', listBuf').ptr = desc'
    BY <1>1, <1>4 DEF ListInv, LocalsFollow
  <2>6. LocalsFollow' /\ LocalsFresh'
    BY <2>3, <2>5, <1>1, <1>4 DEF LocalsFollow, LocalsFresh, RangeFields
  <2>7. \A i \in Props : i < at => CompleteDesc(i)'
    <3> SUFFICES ASSUME NEW i \in Props, i < at PROVE CompleteDesc(i)'
      OBVIOUS
    <3>1. i # at /\ CompleteDesc(i)
      BY <1>1, <1>2 DEF ListInv, Progress, Props
    <3> QED
      BY <3>1, <2>1, <1>1 DEF CompleteDesc, Filled, FilledEnum
  <2>8. Progress' /\ ListComplete'
    BY <2>7, <1>1, <1>2, <1>4
       DEF ListInv, Progress, ListComplete, ListDecoding, ValuePlaces, RangeFields
  <2>9. Recorded' /\ ListInside'
    BY <1>1 DEF ListInv, Recorded, ListInside, Extent, Walks, WalksDesc, WalksForm,
                WalksValue
  <2>10. ListTypeOK'
    BY <2>1, <2>4, <1>1, <1>4 DEF ListInv, ListTypeOK, ListPlaces, ValuePlaces
  <2> QED
    BY <2>6, <2>8, <2>9, <2>10 DEF ListInv
<1> QED
  BY <1>3, <1>4 DEF DecodeDesc

\* A descriptor without a form is complete.
LEMMA DecodeNoFormStep ==
  ASSUME ListInv, DecodeNoForm
  PROVE  ListInv'
<1>1. /\ listPlace = "form" /\ listPlace \in ListDecoding
      /\ Return(listBuf) /\ UNCHANGED <<listBuf, structVars>>
      /\ listBuf \in Appended(listBuf, 0) /\ 0 \in Nat
  BY AppendedNothing DEF DecodeNoForm, ListDecoding
<1>2. /\ listBuf' = listBuf /\ desc' = desc /\ count' = count /\ field' = field
      /\ formType' = formType /\ enumCount' = enumCount /\ enum' = enum
  BY <1>1 DEF structVars
<1>3. desc' = AdjustedDesc(Moved(listBuf))
  <2>1. /\ AdjustedDesc(Moved(listBuf)) = desc + Moved(listBuf)
        /\ Moved(listBuf) = listBuf.data - listBuf.data
        /\ listBuf.data \in Nat
    BY <1>1, MoveFacts
  <2>2. Moved(listBuf) = 0
    BY <2>1
  <2>3. desc \in Nat
    BY DEF ListInv, ListTypeOK
  <2> QED
    BY <2>1, <2>2, <2>3, <1>2
<1>4. /\ \A i \in Props : i < at => CompleteDesc(i)
      /\ \A i \in Props : i > at => field[i]["form"] = NULL /\ formType[i] = "none"
      /\ Filled(at, "def") /\ Filled(at, "val")
      /\ formType[at] = "none"
      /\ at \in Nat
  BY <1>1 DEF ListInv, ListTypeOK, Progress
<1>5. \A i \in Props : i <= at => CompleteDesc(i)'
  <2>1. ASSUME NEW i \in Props, i = at PROVE CompleteDesc(i)
    BY <2>1, <1>4 DEF CompleteDesc
  <2> QED
    BY <2>1, <1>1, <1>4, StaysFacts DEF Props
<1> QED
  BY <1>1, <1>2, <1>3, <1>4, <1>5, ReturnFacts, StaysFacts DEF ListInv, ListTypeOK

\* The descriptors are appended, all zero: nothing is recorded but they.
LEMMA DecodeListStep ==
  ASSUME ListInv, DecodeList
  PROVE  ListInv'
<1>1. PICK n, new :
       /\ n \in 0 .. MaxProps /\ new \in Appended(listBuf, n)
       /\ listBuf' = new
       /\ desc' = End(listBuf, new)
       /\ count' = n
       /\ field' = NoFields /\ kind' = NoKinds /\ cells' = NoCells
       /\ formType' = NoForms /\ enumCount' = NoCounts
       /\ enum' = NoEnums /\ enumCells' = NoEnumCells
       /\ \/ n = 0 /\ Completes
          \/ /\ n > 0
             /\ listPlace' = "desc"
             /\ listCtx' = Begin(End(listBuf, new), new)
             /\ UNCHANGED <<at, atValue, descCtx, formCtx>>
  BY DEF DecodeList
<1>2. /\ listBuf \in Buffers /\ listBuf.size <= listBuf.maxsize
      /\ listBuf.data \in Bases /\ n \in Nat
  BY <1>1, ListBoundsAssumption DEF DecodeList, ListInv, ListTypeOK, Progress
<1>3. /\ new \in Buffers /\ new.data \in Bases /\ new.size <= new.maxsize
      /\ new.size = listBuf.size + n
      /\ new.data \in Nat /\ listBuf.size \in Nat
      /\ End(listBuf, new) = new.data + listBuf.size
      /\ End(listBuf, new) \in Nat /\ End(listBuf, new) # NULL
  BY <1>1, <1>2, AppendedFacts
<1>4. /\ \A i \in Props, f \in Fields : field'[i][f] = NULL
      /\ \A i \in Props : formType'[i] = "none" /\ enumCount'[i] = 0
      /\ \A i \in Props, j \in 1 .. MaxValues : enum'[i][j] = NULL
      /\ field' \in [Props -> [Fields -> Nat]]
      /\ formType' \in [Props -> {"none", "range", "enum", "other"}]
      /\ enumCount' \in [Props -> 0 .. MaxValues]
      /\ enum' \in [Props -> [1 .. MaxValues -> Nat]]
      /\ kind' \in [Props -> Kinds]
      /\ cells' \in [Props -> [ValuePlaces -> Nat]]
      /\ enumCells' \in [Props -> [1 .. MaxValues -> Nat]]
  BY <1>1, ListBoundsAssumption
     DEF NoFields, NoForms, NoCounts, NoEnums, NoKinds, NoCells, NoEnumCells, Kinds,
         NULL
<1>5. Recorded' /\ ListInside'
  BY <1>1, <1>3, <1>4 DEF Recorded, ListInside, Inside
<1>6. /\ listPlace' \in ListPlaces
      /\ at' \in Nat \ {0} /\ atValue' \in Nat \ {0}
      /\ listCtx' \in Contexts /\ descCtx' \in Contexts /\ formCtx' \in Contexts
      /\ LocalsFollow' /\ LocalsFresh' /\ Progress' /\ ListComplete'
  <2>1. CASE n = 0 /\ Completes
    <3>1. PICK place \in {"decoded", "failed"} : Ends(place)
      BY <2>1 DEF Completes, Fails
    <3>2. Progress'
      BY <3>1, <1>1, <1>3 DEF Ends, Progress, ListDecoding, ValuePlaces, RangeFields
    <3>3. ListComplete'
      BY <2>1, <1>1 DEF ListComplete
    <3> QED
      BY <3>1, <3>2, <3>3, EndsFacts DEF ListPlaces
  <2>2. CASE /\ n > 0
             /\ listPlace' = "desc"
             /\ listCtx' = Begin(End(listBuf, new), new)
             /\ UNCHANGED <<at, atValue, descCtx, formCtx>>
    <3>1. at = 1
      BY DEF DecodeList, ListInv, Progress, ListDecoding, ValuePlaces, RangeFields
    <3>2. listCtx' = [ptr |-> desc', prev |-> new.data]
      BY <2>2, <1>1 DEF Begin
    <3>3. listCtx' \in Contexts
      BY <3>2, <1>1, <1>3 DEF Contexts
    <3>4. LocalsFollow' /\ LocalsFresh'
      BY <2>2, <3>2, <1>1 DEF LocalsFollow, LocalsFresh, ValuePlaces, RangeFields, Update
    <3>5. /\ 1 \in Props /\ 1 <= n /\ \A i \in Props : ~(i < 1)
          /\ "form" \in Fields
      BY <2>2, <1>1, <1>2, ListBoundsAssumption DEF Props, Fields
    <3>6. Progress' /\ ListComplete'
      BY <2>2, <3>1, <3>5, <1>1, <1>3, <1>4
         DEF Progress, ListComplete, ListDecoding, ValuePlaces, RangeFields
    <3> QED
      BY <2>2, <3>3, <3>4, <3>6 DEF ListPlaces, ListInv, ListTypeOK
  <2> QED
    BY <2>1, <2>2, <1>1
<1>7. ListTypeOK'
  BY <1>1, <1>3, <1>4, <1>6 DEF ListTypeOK
<1> QED
  BY <1>5, <1>6, <1>7 DEF ListInv

\* A list that nothing leads to: it is new, cleared or freed.
LEMMA ForgottenFacts ==
  ASSUME ListInv, listPlace \notin ListDecoding, desc' = NULL, count' = 0,
         field' = NoFields, kind' = NoKinds, cells' = NoCells,
         formType' = NoForms, enumCount' = NoCounts,
         enum' = NoEnums, enumCells' = NoEnumCells,
         UNCHANGED localVars,
         listBuf' \in Buffers, listBuf'.size <= listBuf'.maxsize,
         listPlace' \in {"none", "empty"},
         listPlace' # "none" => listBuf'.data \in Bases
  PROVE  ListInv'
<1>1. /\ \A i \in Props, f \in Fields : field'[i][f] = NULL
      /\ \A i \in Props, j \in 1 .. MaxValues : enum'[i][j] = NULL
      /\ field' \in [Props -> [Fields -> Nat]]
      /\ formType' \in [Props -> {"none", "range", "enum", "other"}]
      /\ enumCount' \in [Props -> 0 .. MaxValues]
      /\ enum' \in [Props -> [1 .. MaxValues -> Nat]]
      /\ kind' \in [Props -> Kinds]
      /\ cells' \in [Props -> [ValuePlaces -> Nat]]
      /\ enumCells' \in [Props -> [1 .. MaxValues -> Nat]]
  BY ListBoundsAssumption
     DEF NoFields, NoForms, NoCounts, NoEnums, NoKinds, NoCells, NoEnumCells, Kinds,
         NULL
<1>2. Recorded' /\ ListInside'
  BY <1>1 DEF Recorded, ListInside
<1>3. LocalsFollow' /\ LocalsFresh' /\ ListComplete'
  BY DEF LocalsFollow, LocalsFresh, ListComplete, ValuePlaces, RangeFields
<1>4. ListTypeOK'
  BY <1>1, ListBoundsAssumption DEF ListInv, ListTypeOK, ListPlaces, localVars, NULL
<1> QED
  BY <1>2, <1>3, <1>4
     DEF ListInv, Progress, ListDecoding, ValuePlaces, RangeFields, localVars

-----------------------------------------------------------------------------
(* The invariant, and what follows from it.                                *)

LEMMA ListInvInit == ListInit => ListInv
<1> SUFFICES ASSUME ListInit PROVE ListInv
  OBVIOUS
<1>1. /\ listPlace = "none" /\ listBuf = NoBuffer /\ desc = NULL /\ count = 0
      /\ at = 1 /\ atValue = 1
      /\ listCtx = NoCtx /\ descCtx = NoCtx /\ formCtx = NoCtx
      /\ \A i \in Props, f \in Fields : field[i][f] = NULL
      /\ \A i \in Props, j \in 1 .. MaxValues : enum[i][j] = NULL
      /\ field \in [Props -> [Fields -> Nat]]
      /\ formType \in [Props -> {"none", "range", "enum", "other"}]
      /\ enumCount \in [Props -> 0 .. MaxValues]
      /\ enum \in [Props -> [1 .. MaxValues -> Nat]]
      /\ kind \in [Props -> Kinds]
      /\ cells \in [Props -> [ValuePlaces -> Nat]]
      /\ enumCells \in [Props -> [1 .. MaxValues -> Nat]]
  BY ListBoundsAssumption
     DEF ListInit, NoFields, NoForms, NoCounts, NoEnums, NoKinds, NoCells,
         NoEnumCells, Kinds, NULL
<1>2. ListTypeOK
  BY <1>1, ListBoundsAssumption
     DEF ListTypeOK, ListPlaces, Buffers, NoBuffer, Contexts, NoCtx, NULL
<1>3. Recorded /\ ListInside
  BY <1>1 DEF Recorded, ListInside
<1> QED
  BY <1>1, <1>2, <1>3
     DEF ListInv, LocalsFollow, LocalsFresh, Progress, ListComplete, ListDecoding,
         ValuePlaces, RangeFields

\* What a list is created, cleared and freed with.
LEMMA OwnerStep ==
  ASSUME ListInv, Create \/ Clear \/ FreeList
  PROVE  ListInv'
<1>1. CASE Create
  <2>1. listBuf' \in Buffers /\ listBuf'.size <= listBuf'.maxsize /\ listBuf'.data \in Bases
    BY <1>1, SizesAssumption DEF Create, Created, Buffers
  <2>2. listPlace = "none" /\ listPlace' = "empty" /\ UNCHANGED <<structVars, localVars>>
    BY <1>1 DEF Create
  <2>3. /\ desc' = desc /\ count' = count /\ field' = field
        /\ formType' = formType /\ enumCount' = enumCount /\ enum' = enum
        /\ kind' = kind /\ cells' = cells /\ enumCells' = enumCells
        /\ at' = at /\ atValue' = atValue /\ listCtx' = listCtx
        /\ descCtx' = descCtx /\ formCtx' = formCtx
    BY <2>2 DEF structVars, cellVars, localVars
  <2>4. /\ desc = NULL /\ at = 1
        /\ \A i \in Props, f \in Fields : field[i][f] = NULL
        /\ \A i \in Props, j \in 1 .. MaxValues : enum[i][j] = NULL
    BY <2>2 DEF ListInv, Progress, Recorded, Walks, WalksValue, WalksForm, WalksDesc,
                ListDecoding, ValuePlaces, RangeFields
  <2> QED
    BY <2>1, <2>2, <2>3, <2>4
       DEF ListInv, ListTypeOK, ListPlaces, Recorded, ListInside, LocalsFollow,
           LocalsFresh, Progress, ListComplete, ListDecoding, ValuePlaces, RangeFields
<1>2. CASE Clear
  <2>1. listBuf' \in Buffers /\ listBuf'.size <= listBuf'.maxsize /\ listBuf'.data \in Bases
    <3>1. listBuf \in Buffers /\ listBuf.data \in Bases
          /\ listBuf' = [listBuf EXCEPT !.size = 0]
      BY <1>2 DEF Clear, Cleared, ListInv, ListTypeOK, Progress
    <3> QED
      BY <3>1 DEF Buffers
  <2> QED
    BY <2>1, <1>2, ForgottenFacts
       DEF Clear, Forgotten, ListDecoding, ValuePlaces, RangeFields
<1>3. CASE FreeList
  <2>1. listBuf' \in Buffers /\ listBuf'.size <= listBuf'.maxsize
    BY <1>3 DEF FreeList, NoBuffer, Buffers
  <2> QED
    BY <2>1, <1>3, ForgottenFacts
       DEF FreeList, Forgotten, ListDecoding, ValuePlaces, RangeFields
<1> QED
  BY <1>1, <1>2, <1>3

\* No step of the decoders or of the list's owner leaves the invariant.
LEMMA ListInvStep == ListInv /\ [ListNext]_listVars => ListInv'
<1> SUFFICES ASSUME ListInv, [ListNext]_listVars PROVE ListInv'
  OBVIOUS
<1>1. CASE UNCHANGED listVars
  BY <1>1
     DEF listVars, structVars, cellVars, localVars, ListInv, ListTypeOK, Recorded,
         Walks, WalksDesc, WalksForm, WalksValue, ListInside, Extent, LocalsFollow,
         LocalsFresh, Progress, CompleteDesc, Filled, FilledEnum, ListComplete
<1> QED
  BY <1>1, OwnerStep, FailStep, DecodeListStep, DecodeDescStep, DecodeValueStep,
     DecodeNoFormStep, DecodeFormStep, DecodeEnumCountStep, DecodeEnumValueStep
     DEF ListNext

\* The invariant holds in every behaviour of the decoders.
THEOREM ListInvHolds == ListSpec => []ListInv
<1> QED
  BY ListInvInit, ListInvStep, PTL DEF ListSpec

-----------------------------------------------------------------------------
(* What is not decoded yet is NULL, and so no pointer is written twice.    *)

LEMMA UndecodedInit == ListInit => Undecoded
BY DEF ListInit, Undecoded, ListDecoding, ValuePlaces, RangeFields

\* A step that leaves the decoder, or has it go on with the next descriptor.
LEMMA UndecodedReturn ==
  ASSUME ListInv, NEW new, Return(new),
         \A i \in Props, f \in Fields : i > at => field'[i][f] = NULL
  PROVE  Undecoded'
<1>1. at \in Nat \ {0} /\ count \in 0 .. MaxProps
  BY DEF ListInv, ListTypeOK
<1>2. CASE at < count /\ listPlace' = "desc" /\ at' = at + 1
  <2>1. at + 1 \in Props /\ at + 1 > at
    BY <1>1, <1>2, ListBoundsAssumption DEF Props
  <2>2. \A i \in Props : i > at + 1 => i > at
    BY <1>1 DEF Props
  <2> QED
    BY <1>2, <2>1, <2>2 DEF Undecoded, Pending
<1>3. CASE Completes
  BY <1>3 DEF Completes, Fails, Ends, Undecoded, ListDecoding, ValuePlaces, RangeFields
<1> QED
  BY <1>2, <1>3 DEF Return

LEMMA UndecodedFails == Fails => Undecoded'
BY DEF Fails, Ends, Undecoded, ListDecoding, ValuePlaces, RangeFields

\* Each append fills what its place was waiting for.
LEMMA UndecodedAppends ==
  ASSUME ListInv, Undecoded,
         DecodeValue \/ DecodeForm \/ DecodeEnumCount \/ DecodeEnumValue
  PROVE  Undecoded'
<1>1. CASE DecodeValue
  <2>1. PICK n, new :
           /\ n \in Nat /\ new \in Appended(listBuf, n)
           /\ field' = [AdjustedField(Moved(new)) EXCEPT
                          ![at][listPlace] = End(listBuf, new)]
           /\ \/ Fails
              \/ listPlace = "step" /\ Return(new)
              \/ /\ listPlace # "step"
                 /\ listPlace' = After[listPlace]
                 /\ UNCHANGED at
    BY <1>1, DecodeValueWrites
  <2>2. listPlace \in ValuePlaces /\ listPlace \in ListDecoding
    BY <1>1 DEF DecodeValue, ListDecoding
  <2>3. at \in Props /\ AdjustedField(Moved(new)) \in [Props -> [Fields -> Nat]]
    BY <2>1, <2>2, MoveFacts, FieldFacts
  <2>4. \A i \in Props, f \in Fields :
           (i # at \/ f # listPlace) /\ field[i][f] = NULL => field'[i][f] = NULL
    BY <2>1, <2>2, <2>3, FieldFacts
  <2>5. \A i \in Props, f \in Fields : i > at => field'[i][f] = NULL
    BY <2>2, <2>3, <2>4 DEF Undecoded, Props
  <2>6. CASE listPlace # "step" /\ listPlace' = After[listPlace] /\ UNCHANGED at
    <3>1. /\ Pending(listPlace') \subseteq Pending(listPlace)
          /\ listPlace \notin Pending(listPlace')
          /\ listPlace' \notin {"count", "enum"}
          /\ Pending(listPlace') \subseteq Fields
      BY <2>2, <2>6 DEF Pending, After, ValuePlaces, RangeFields, Fields
    <3> QED
      BY <2>2, <2>4, <2>5, <2>6, <3>1, <2>3 DEF Undecoded
  <2> QED
    BY <2>1, <2>5, <2>6, UndecodedReturn, UndecodedFails
<1>2. CASE DecodeForm
  <2>1. PICK t, new :
           /\ t \in {"range", "enum", "other"} /\ new \in Appended(listBuf, 1)
           /\ field' = [AdjustedField(Moved(new)) EXCEPT
                          ![at]["form"] = End(listBuf, new)]
           /\ enum' = AdjustedEnum(Moved(new))
           /\ \/ Fails
              \/ /\ listPlace' = IF t = "range" THEN "min" ELSE "count"
                 /\ UNCHANGED at
    BY <1>2, DecodeFormWrites
  <2>2. listPlace = "form" /\ listPlace \in ListDecoding /\ 1 \in Nat
    BY <1>2 DEF DecodeForm, ListDecoding
  <2>3. at \in Props /\ AdjustedField(Moved(new)) \in [Props -> [Fields -> Nat]]
    BY <2>1, <2>2, MoveFacts, FieldFacts
  <2>4. \A i \in Props, f \in Fields :
           (i # at \/ f # "form") /\ field[i][f] = NULL => field'[i][f] = NULL
    BY <2>1, <2>2, <2>3, FieldFacts
  <2>5. \A i \in Props, f \in Fields : i > at => field'[i][f] = NULL
    BY <2>2, <2>3, <2>4 DEF Undecoded, Props
  <2>6. \A f \in RangeFields \cup {"values"} : field'[at][f] = NULL
    BY <2>2, <2>3, <2>4 DEF Undecoded, Pending, RangeFields, Fields
  <2>7. CASE listPlace' \in {"min", "count"} /\ UNCHANGED at
    BY <2>5, <2>6, <2>7 DEF Undecoded, Pending, RangeFields
  <2> QED
    BY <2>1, <2>7, UndecodedFails
<1>3. CASE DecodeEnumCount
  <2>1. PICK n, new :
           /\ n \in 0 .. MaxValues /\ new \in Appended(listBuf, n)
           /\ field' = [AdjustedField(Moved(new)) EXCEPT
                          ![at]["values"] = End(listBuf, new)]
           /\ enum' = AdjustedEnum(Moved(new))
           /\ \/ Return(new)
              \/ /\ listPlace' = "enum"
                 /\ atValue' = 1
                 /\ UNCHANGED at
    BY <1>3, DecodeEnumCountWrites
  <2>2. /\ listPlace = "count" /\ listPlace \in ListDecoding /\ n \in Nat
        /\ new \in Appended(listBuf, n)
    BY <1>3, <2>1, ListBoundsAssumption DEF DecodeEnumCount, ListDecoding
  <2>3. at \in Props /\ AdjustedField(Moved(new)) \in [Props -> [Fields -> Nat]]
    BY <2>2, MoveFacts, FieldFacts
  <2>4. \A i \in Props, f \in Fields :
           (i # at \/ f # "values") /\ field[i][f] = NULL => field'[i][f] = NULL
    BY <2>1, <2>2, <2>3, FieldFacts
  <2>5. \A i \in Props, f \in Fields : i > at => field'[i][f] = NULL
    BY <2>2, <2>3, <2>4 DEF Undecoded, Props
  <2>6. CASE listPlace' = "enum" /\ atValue' = 1 /\ UNCHANGED at
    <3>1. field[at]["values"] = NULL
      BY <2>2 DEF ListInv, Progress
    <3>2. \A j \in 1 .. MaxValues : enum[at][j] = NULL
      BY <3>1, <2>3 DEF ListInv, Recorded, WalksValue
    <3>3. \A j \in 1 .. MaxValues : enum'[at][j] = NULL
      BY <3>2, <2>1, <2>2, <2>3, EnumFacts
    <3> QED
      BY <2>5, <2>6, <3>3 DEF Undecoded, Pending
  <2> QED
    BY <2>1, <2>5, <2>6, UndecodedReturn
<1>4. CASE DecodeEnumValue
  <2>1. PICK n, new :
           /\ n \in 0 .. MaxElems /\ new \in Appended(listBuf, n)
           /\ field' = AdjustedField(Moved(new))
           /\ enum' = [AdjustedEnum(Moved(new)) EXCEPT
                         ![at][atValue] = End(listBuf, new)]
           /\ \/ Fails
              \/ Return(new)
              \/ /\ atValue' = atValue + 1
                 /\ UNCHANGED <<listPlace, at>>
    BY <1>4, DecodeEnumValueWrites
  <2>2. /\ listPlace = "enum" /\ listPlace \in ListDecoding /\ n \in Nat
        /\ new \in Appended(listBuf, n)
    BY <1>4, <2>1, ListBoundsAssumption DEF DecodeEnumValue, ListDecoding
  <2>3. at \in Props /\ atValue \in Nat
    BY <2>2, MoveFacts DEF ListInv, ListTypeOK
  <2>4. \A i \in Props, f \in Fields : i > at => field'[i][f] = NULL
    BY <2>1, <2>2, FieldFacts DEF Undecoded
  <2>5. CASE atValue' = atValue + 1 /\ UNCHANGED <<listPlace, at>>
    <3>1. \A j \in 1 .. MaxValues : j >= atValue + 1 => j >= atValue /\ j # atValue
      BY <2>3
    <3>2. \A j \in 1 .. MaxValues : j >= atValue + 1 => enum[at][j] = NULL
      BY <3>1, <2>2 DEF Undecoded
    <3>3. AdjustedEnum(Moved(new)) \in [Props -> [1 .. MaxValues -> Nat]]
      BY <2>2, EnumFacts
    <3>4. \A j \in 1 .. MaxValues : j >= atValue + 1 => enum'[at][j] = NULL
      <4> SUFFICES ASSUME NEW j \in 1 .. MaxValues, j >= atValue + 1
                   PROVE  enum'[at][j] = NULL
        OBVIOUS
      <4>1. enum'[at][j] = AdjustedEnum(Moved(new))[at][j]
        BY <3>1, <3>3, <2>1, <2>3
      <4> QED
        BY <4>1, <3>2, <2>2, <2>3, EnumFacts
    <3> QED
      BY <2>2, <2>4, <2>5, <3>4 DEF Undecoded, Pending
  <2> QED
    BY <2>1, <2>4, <2>5, UndecodedReturn, UndecodedFails
<1> QED
  BY <1>1, <1>2, <1>3, <1>4

LEMMA UndecodedStep ==
  ListInv /\ Undecoded /\ [ListNext]_listVars => Undecoded'
<1> SUFFICES ASSUME ListInv, Undecoded, [ListNext]_listVars PROVE Undecoded'
  OBVIOUS
<1>1. CASE Create \/ Clear \/ FreeList
  BY <1>1 DEF Create, Clear, FreeList, Undecoded, ListDecoding, ValuePlaces, RangeFields
<1>2. CASE NoList \/ NoMore
  BY <1>2, UndecodedFails DEF NoList, NoMore
<1>3. CASE DecodeList
  <2>1. field' = NoFields
    BY <1>3 DEF DecodeList
  <2>2. \A i \in Props, f \in Fields : field'[i][f] = NULL
    BY <2>1 DEF NoFields
  <2>3. CASE Completes
    BY <2>3, UndecodedFails
       DEF Completes, Ends, Undecoded, ListDecoding, ValuePlaces, RangeFields
  <2>4. CASE listPlace' = "desc" /\ count' \in 0 .. MaxProps /\ count' > 0 /\ UNCHANGED at
    <3>1. at = 1
      BY <1>3 DEF DecodeList, ListInv, Progress, ListDecoding, ValuePlaces, RangeFields
    <3>2. 1 \in Props
      BY <2>4, ListBoundsAssumption DEF Props
    <3> QED
      BY <2>2, <2>4, <3>1, <3>2 DEF Undecoded, Pending
  <2> QED
    BY <2>3, <2>4, <1>3 DEF DecodeList
<1>4. CASE DecodeDesc
  <2>1. CASE listPlace' = "def" /\ UNCHANGED <<at, field>>
    BY <2>1, <1>4 DEF DecodeDesc, Undecoded, Pending, ListDecoding
  <2> QED
    BY <2>1, <1>4, UndecodedFails DEF DecodeDesc
<1>5. CASE DecodeNoForm
  <2>1. /\ Return(listBuf) /\ field' = field /\ listPlace \in ListDecoding
    BY <1>5 DEF DecodeNoForm, structVars, ListDecoding
  <2> QED
    BY <2>1, UndecodedReturn DEF Undecoded
<1>6. CASE UNCHANGED listVars
  BY <1>6 DEF listVars, structVars, localVars, Undecoded
<1> QED
  BY <1>1, <1>2, <1>3, <1>4, <1>5, <1>6, UndecodedAppends DEF ListNext

-----------------------------------------------------------------------------
(* How the recorded pointers move.                                         *)

\* A step of ListFollows.
Follows ==
  desc # NULL /\ desc' # NULL =>
    /\ desc' - listBuf'.data = desc - listBuf.data
    /\ \A i \in Props, f \in Fields :
         field[i][f] # NULL =>
           field'[i][f] - listBuf'.data = field[i][f] - listBuf.data
    /\ \A i \in Props, j \in 1 .. MaxValues :
         enum[i][j] # NULL =>
           enum'[i][j] - listBuf'.data = enum[i][j] - listBuf.data

\* An append moves what was recorded as far as the buffer.
LEMMA AppendFollows ==
  ASSUME ListInv, listPlace \in ListDecoding,
         NEW n \in Nat, NEW new \in Appended(listBuf, n),
         listBuf' = new, desc' = AdjustedDesc(Moved(new)),
         \A i \in Props, f \in Fields :
           field[i][f] # NULL => field'[i][f] = AdjustedField(Moved(new))[i][f],
         \A i \in Props, j \in 1 .. MaxValues :
           enum[i][j] # NULL => enum'[i][j] = AdjustedEnum(Moved(new))[i][j]
  PROVE  Follows
<1>1. /\ Moved(new) = new.data - listBuf.data
      /\ new.data \in Nat /\ listBuf.data \in Nat
      /\ desc \in Nat /\ desc' = desc + Moved(new)
  BY MoveFacts DEF ListInv, ListTypeOK
<1>2. ASSUME NEW i \in Props, NEW f \in Fields, field[i][f] # NULL
      PROVE  field'[i][f] - listBuf'.data = field[i][f] - listBuf.data
  <2>1. field'[i][f] = field[i][f] + Moved(new) /\ field[i][f] \in Nat
    BY <1>2, FieldFacts DEF ListInv, ListTypeOK
  <2> QED
    BY <1>1, <2>1
<1>3. ASSUME NEW i \in Props, NEW j \in 1 .. MaxValues, enum[i][j] # NULL
      PROVE  enum'[i][j] - listBuf'.data = enum[i][j] - listBuf.data
  <2>1. enum[i][j] \in Nat
    BY DEF ListInv, ListTypeOK
  <2>2. AdjustedEnum(Moved(new))[i][j] = enum[i][j] + Moved(new)
    BY <1>3, EnumFacts
  <2>3. enum'[i][j] = enum[i][j] + Moved(new)
    BY <1>3, <2>2
  <2> QED
    BY <1>1, <2>1, <2>3
<1> QED
  BY <1>1, <1>2, <1>3 DEF Follows

LEMMA FollowsStep ==
  ListInv /\ Undecoded /\ [ListNext]_listVars => [Follows]_listVars
<1> SUFFICES ASSUME ListInv, Undecoded, ListNext PROVE Follows
  OBVIOUS
<1>1. CASE Create \/ Clear \/ FreeList \/ DecodeList
  BY <1>1 DEF Create, Clear, FreeList, DecodeList, Forgotten, Follows, ListInv, Progress
<1>2. CASE NoList \/ NoMore \/ DecodeDesc \/ DecodeNoForm
  <2>1. /\ listBuf' = listBuf /\ desc' = desc /\ field' = field /\ enum' = enum
    BY <1>2 DEF NoList, NoMore, DecodeDesc, DecodeNoForm, structVars
  <2> QED
    BY <2>1 DEF Follows
<1>3. CASE DecodeValue
  <2>1. PICK n, new :
           /\ n \in Nat /\ new \in Appended(listBuf, n)
           /\ listBuf' = new /\ desc' = AdjustedDesc(Moved(new))
           /\ field' = [AdjustedField(Moved(new)) EXCEPT
                          ![at][listPlace] = End(listBuf, new)]
           /\ enum' = AdjustedEnum(Moved(new))
    BY <1>3, DecodeValueWrites
  <2>2. listPlace \in ValuePlaces /\ listPlace \in ListDecoding
    BY <1>3 DEF DecodeValue, ListDecoding
  <2>3. at \in Props /\ AdjustedField(Moved(new)) \in [Props -> [Fields -> Nat]]
    BY <2>1, <2>2, MoveFacts, FieldFacts
  <2>4. field[at][listPlace] = NULL
    BY <2>2 DEF Undecoded, Pending, ValuePlaces, RangeFields, Fields
  <2>5. \A i \in Props, f \in Fields :
          field[i][f] # NULL => field'[i][f] = AdjustedField(Moved(new))[i][f]
    BY <2>1, <2>3, <2>4
  <2> QED
    BY <2>1, <2>2, <2>5, AppendFollows
<1>4. CASE DecodeForm
  <2>1. PICK t, new :
           /\ new \in Appended(listBuf, 1)
           /\ listBuf' = new /\ desc' = AdjustedDesc(Moved(new))
           /\ field' = [AdjustedField(Moved(new)) EXCEPT
                          ![at]["form"] = End(listBuf, new)]
           /\ enum' = AdjustedEnum(Moved(new))
    BY <1>4, DecodeFormWrites
  <2>2. listPlace = "form" /\ listPlace \in ListDecoding /\ 1 \in Nat
    BY <1>4 DEF DecodeForm, ListDecoding
  <2>3. at \in Props /\ AdjustedField(Moved(new)) \in [Props -> [Fields -> Nat]]
    BY <2>1, <2>2, MoveFacts, FieldFacts
  <2>4. field[at]["form"] = NULL
    BY <2>2 DEF ListInv, Progress
  <2>5. \A i \in Props, f \in Fields :
          field[i][f] # NULL => field'[i][f] = AdjustedField(Moved(new))[i][f]
    BY <2>1, <2>3, <2>4
  <2> QED
    BY <2>1, <2>2, <2>5, AppendFollows
<1>5. CASE DecodeEnumCount
  <2>1. PICK n, new :
           /\ n \in 0 .. MaxValues /\ new \in Appended(listBuf, n)
           /\ listBuf' = new /\ desc' = AdjustedDesc(Moved(new))
           /\ field' = [AdjustedField(Moved(new)) EXCEPT
                          ![at]["values"] = End(listBuf, new)]
           /\ enum' = AdjustedEnum(Moved(new))
    BY <1>5, DecodeEnumCountWrites
  <2>2. /\ listPlace = "count" /\ listPlace \in ListDecoding /\ n \in Nat
        /\ new \in Appended(listBuf, n)
    BY <1>5, <2>1, ListBoundsAssumption DEF DecodeEnumCount, ListDecoding
  <2>3. at \in Props /\ AdjustedField(Moved(new)) \in [Props -> [Fields -> Nat]]
    BY <2>2, MoveFacts, FieldFacts
  <2>4. field[at]["values"] = NULL
    BY <2>2 DEF ListInv, Progress
  <2>5. \A i \in Props, f \in Fields :
          field[i][f] # NULL => field'[i][f] = AdjustedField(Moved(new))[i][f]
    BY <2>1, <2>3, <2>4
  <2> QED
    BY <2>1, <2>2, <2>5, AppendFollows
<1>6. CASE DecodeEnumValue
  <2>1. PICK n, new :
           /\ n \in 0 .. MaxElems /\ new \in Appended(listBuf, n)
           /\ listBuf' = new /\ desc' = AdjustedDesc(Moved(new))
           /\ field' = AdjustedField(Moved(new))
           /\ enum' = [AdjustedEnum(Moved(new)) EXCEPT
                         ![at][atValue] = End(listBuf, new)]
    BY <1>6, DecodeEnumValueWrites
  <2>2. /\ listPlace = "enum" /\ listPlace \in ListDecoding /\ n \in Nat
        /\ new \in Appended(listBuf, n)
    BY <1>6, <2>1, ListBoundsAssumption DEF DecodeEnumValue, ListDecoding
  <2>3. /\ at \in Props /\ atValue \in Nat
        /\ AdjustedEnum(Moved(new)) \in [Props -> [1 .. MaxValues -> Nat]]
    BY <2>2, MoveFacts, EnumFacts DEF ListInv, ListTypeOK
  <2>4. \A j \in 1 .. MaxValues : j = atValue => enum[at][j] = NULL
    BY <2>2, <2>3 DEF Undecoded
  <2>5. \A i \in Props, j \in 1 .. MaxValues :
          enum[i][j] # NULL => enum'[i][j] = AdjustedEnum(Moved(new))[i][j]
    BY <2>1, <2>3, <2>4
  <2> QED
    BY <2>1, <2>2, <2>5, AppendFollows
<1> QED
  BY <1>1, <1>2, <1>3, <1>4, <1>5, <1>6 DEF ListNext

\* ListFollows holds in every behaviour of the decoders: wherever the buffer
\* moves, and however often, all that was recorded moves with it.
THEOREM ListFollowsHolds == ListSpec => ListFollows
<1>1. ListSpec => [](ListInv /\ Undecoded)
  BY ListInvInit, ListInvStep, UndecodedInit, UndecodedStep, PTL DEF ListSpec
<1>2. [][Follows]_listVars => ListFollows
  BY PTL DEF ListFollows, Follows
<1> QED
  BY <1>1, <1>2, FollowsStep, PTL DEF ListSpec

-----------------------------------------------------------------------------
(* Device and object information.                                          *)

LEMMA MessageFacts ==
  ASSUME NEW m \in Decoding
  PROVE  /\ Len(Message[m]) \in Nat \ {0}
         /\ \A k \in 1 .. Len(Message[m]) : Message[m][k] \in Members
         /\ m = "object" => \A k \in 1 .. Len(Message[m]) : Message[m][k] \in Strings
<1>1. CASE m = "pima"
  <2>1. Message[m] = <<"vendor_extension_desc", "operations", "events", "properties",
                       "capture_formats", "image_formats", "manufacturer", "model",
                       "device_version", "serial_number">>
    BY <1>1 DEF Message, PimaMessage
  <2> QED
    BY <1>1, <2>1 DEF Members, Arrays, Strings
<1>2. CASE m = "sony"
  <2>1. Message[m] = <<"properties", "properties">>
    BY <1>2 DEF Message, SonyMessage
  <2> QED
    BY <1>2, <2>1 DEF Members, Arrays, Strings
<1>3. CASE m = "object"
  <2>1. Message[m] = <<"filename", "capture_date", "modification_date", "keywords">>
    BY <1>3 DEF Message, ObjectMessage
  <2> QED
    BY <1>3, <2>1 DEF Members, Arrays, Strings
<1> QED
  BY <1>1, <1>2, <1>3 DEF Decoding

\* The way on from a field.
LEMMA OnwardFacts ==
  ASSUME infoPlace \in Decoding, infoAt \in 1 .. Len(Message[infoPlace]),
         NextField \/ Over("failed")
  PROVE  /\ infoPlace' \in {"decoded", "failed"} \cup Decoding
         /\ infoAt' \in Nat \ {0}
         /\ infoPlace' \in Decoding => infoAt' <= Len(Message[infoPlace'])
         /\ infoPlace' = "pima" => infoPlace = "pima"
<1>1. /\ Len(Message[infoPlace]) \in Nat \ {0}
      /\ Len(Message["sony"]) \in Nat \ {0}
  BY MessageFacts DEF Decoding
<1>2. CASE NextField
  BY <1>1, <1>2 DEF NextField, Over, Decoding
<1>3. CASE Over("failed")
  BY <1>1, <1>3 DEF Over, Decoding
<1> QED
  BY <1>2, <1>3

\* The move of the recorded pointers with their buffer.
LEMMA InfoMoveFacts ==
  ASSUME InfoInv, infoPlace \in Decoding,
         NEW n \in Nat, NEW new \in Appended(infoBuf, n),
         NEW ptr \in [Members -> Nat],
         \A g \in Members : ptr[g] = NULL \/ ptr[g] = infoPtr[g]
  PROVE  /\ AdjustedPtr(ptr, new) \in [Members -> Nat]
         /\ \A g \in Members :
              /\ ptr[g] = NULL => AdjustedPtr(ptr, new)[g] = NULL
              /\ ptr[g] # NULL =>
                   /\ AdjustedPtr(ptr, new)[g] # NULL
                   /\ AdjustedPtr(ptr, new)[g] - new.data = infoPtr[g] - infoBuf.data
                   /\ Inside(new, AdjustedPtr(ptr, new)[g],
                             IF g \in Arrays THEN infoCount[g] ELSE 1)
<1>1. /\ new.data \in Nat /\ infoBuf.data \in Nat /\ infoBuf.size \in Nat
      /\ new.data # NULL /\ new.size = infoBuf.size + n
  <2>1. infoBuf \in Buffers /\ infoBuf.data \in Bases /\ infoBuf.size <= infoBuf.maxsize
    BY DEF InfoInv, InfoTypeOK, Decoding
  <2> QED
    BY <2>1, AppendedFacts
<1>2. ASSUME NEW g \in Members
      PROVE  /\ AdjustedPtr(ptr, new)[g] \in Nat
             /\ ptr[g] = NULL => AdjustedPtr(ptr, new)[g] = NULL
             /\ ptr[g] # NULL =>
                   /\ AdjustedPtr(ptr, new)[g] # NULL
                   /\ AdjustedPtr(ptr, new)[g] - new.data = infoPtr[g] - infoBuf.data
                   /\ Inside(new, AdjustedPtr(ptr, new)[g],
                             IF g \in Arrays THEN infoCount[g] ELSE 1)
  <2>1. AdjustedPtr(ptr, new)[g] = Shift(ptr[g], new.data - infoBuf.data)
    BY DEF AdjustedPtr
  <2>2. CASE ptr[g] = NULL
    BY <2>1, <2>2 DEF Shift, NULL
  <2>3. CASE ptr[g] # NULL
    <3> DEFINE reach == IF g \in Arrays THEN infoCount[g] ELSE 1
    <3>1. infoPtr[g] \in Nat /\ reach \in Nat
      BY DEF InfoInv, InfoTypeOK
    <3>2. Inside(infoBuf, infoPtr[g], reach)
      BY <2>3 DEF InfoInv, InfoInside
    <3>3. AdjustedPtr(ptr, new)[g] = infoPtr[g] + (new.data - infoBuf.data)
      BY <2>1, <2>3 DEF Shift
    <3> HIDE DEF reach
    <3>4. /\ AdjustedPtr(ptr, new)[g] \in Nat
          /\ AdjustedPtr(ptr, new)[g] # NULL
          /\ AdjustedPtr(ptr, new)[g] - new.data = infoPtr[g] - infoBuf.data
          /\ Inside(new, AdjustedPtr(ptr, new)[g], reach)
      BY <1>1, <3>1, <3>2, <3>3 DEF Inside, NULL
    <3> QED
      BY <2>3, <3>4 DEF reach
  <2> QED
    BY <2>2, <2>3
<1>3. AdjustedPtr(ptr, new) = [g \in Members |-> AdjustedPtr(ptr, new)[g]]
  BY DEF AdjustedPtr
<1> QED
  BY <1>2, <1>3

\* n entries that are all the same.
LEMMA ConstantSeq ==
  ASSUME NEW n \in Nat, NEW S, NEW e \in S
  PROVE  /\ [k \in 1 .. n |-> e] \in Seq(S)
         /\ Len([k \in 1 .. n |-> e]) = n
         /\ \A k \in 1 .. n : [j \in 1 .. n |-> e][k] = e
OBVIOUS

\* ptp_pima_decode_int_array joins what was in the array, and is where the local
\* pointer found it, to the entries of the message.
LEMMA DecodeArrayWrites ==
  ASSUME InfoInv, DecodeArray
  PROVE  \E c, new :
    LET f       == Message[infoPlace][infoAt]
        givenUp == [infoPtr EXCEPT ![f] = NULL]
        added   == [k \in 1 .. c |-> infoPlace]
    IN  /\ c \in Nat /\ f \in Arrays
        /\ new \in Appended(infoBuf, c + infoCount[f])
        /\ infoBuf' = new
        /\ infoPtr' = [AdjustedPtr(givenUp, new) EXCEPT ![f] = End(infoBuf, new)]
        /\ \/ /\ infoCount' = [infoCount EXCEPT ![f] = c + infoCount[f]]
              /\ infoVals'  = [infoVals EXCEPT ![f] = infoVals[f] \o added]
              /\ NextField
           \/ /\ infoCount' = [infoCount EXCEPT ![f] = 0]
              /\ infoVals'  = [infoVals EXCEPT ![f] = << >>]
              /\ Over("failed")
<1> DEFINE f       == Message[infoPlace][infoAt]
           prev    == IF infoPtr[f] = NULL THEN 0 ELSE infoCount[f]
           givenUp == [infoPtr EXCEPT ![f] = NULL]
<1>1. PICK c, new :
             LET from  == Update(Begin(infoPtr[f], infoBuf), new).ptr
                 found == from - new.data = infoPtr[f] - infoBuf.data
                 old   == IF found THEN infoVals[f] ELSE [k \in 1 .. prev |-> "lost"]
                 added == [k \in 1 .. c |-> infoPlace]
             IN  /\ c \in 0 .. MaxEntries /\ new \in Appended(infoBuf, c + prev)
                 /\ infoBuf' = new
                 /\ infoPtr' = [AdjustedPtr(givenUp, new) EXCEPT
                                  ![f] = End(infoBuf, new)]
                 /\ \/ /\ infoCount' = [infoCount EXCEPT ![f] = c + prev]
                       /\ infoVals'  = [infoVals EXCEPT ![f] = old \o added]
                       /\ NextField
                    \/ /\ infoCount' = [infoCount EXCEPT ![f] = 0]
                       /\ infoVals'  = [infoVals EXCEPT ![f] = << >>]
                       /\ Over("failed")
  BY DEF DecodeArray
<1>2. /\ f \in Arrays /\ c \in Nat
      /\ infoBuf \in Buffers /\ infoBuf.data \in Bases
      /\ infoBuf.size <= infoBuf.maxsize
      /\ infoPtr[f] \in Nat /\ infoCount[f] \in Nat
      /\ infoVals[f] \in Seq(Decoding \cup {"lost"})
  <2>1. f \in Arrays /\ f \in Members
    BY DEF DecodeArray, Members
  <2>2. c \in Nat
    <3>1. c \in 0 .. MaxEntries
      BY <1>1, Zenon
    <3> QED
      BY <3>1, EntriesAssumption
  <2>3. infoPlace # "none"
    BY DEF DecodeArray, Decoding
  <2> HIDE DEF f
  <2> QED
    BY <2>1, <2>2, <2>3 DEF InfoInv, InfoTypeOK
<1>3. prev = infoCount[f] /\ Len(infoVals[f]) = infoCount[f]
  BY <1>2 DEF InfoInv, ListsJoined
<1>4. new.data \in Nat /\ infoBuf.data \in Nat
  <2>1. c + prev \in Nat
    BY <1>2, <1>3
  <2> QED
    BY <2>1, <1>1, <1>2, AppendedFacts
<1> DEFINE from  == Update(Begin(infoPtr[f], infoBuf), new).ptr
           found == from - new.data = infoPtr[f] - infoBuf.data
           old   == IF found THEN infoVals[f] ELSE [k \in 1 .. prev |-> "lost"]
<1>5. old = infoVals[f]
  <2>1. CASE infoPtr[f] = NULL
    <3>1. prev = 0 /\ infoCount[f] = 0
      BY <2>1, <1>3
    <3>2. infoVals[f] = << >>
      BY <3>1, <1>2, <1>3, EmptySeq
    <3>3. [k \in 1 .. prev |-> "lost"] \in Seq({"lost"})
          /\ Len([k \in 1 .. prev |-> "lost"]) = 0
      BY <3>1, ConstantSeq
    <3>4. [k \in 1 .. prev |-> "lost"] = << >>
      BY <3>3, EmptySeq
    <3> QED
      BY <3>2, <3>4
  <2>2. CASE infoPtr[f] # NULL
    <3>1. from = infoPtr[f] + (new.data - infoBuf.data)
      BY <2>2, <1>2, <1>4, UpdateFacts DEF Begin
    <3>2. found
      BY <3>1, <1>2, <1>4
    <3> QED
      BY <3>2
  <2> QED
    BY <2>1, <2>2
<1> HIDE DEF old, prev, f, givenUp
<1>6. /\ infoBuf' = new
      /\ infoPtr' = [AdjustedPtr(givenUp, new) EXCEPT ![f] = End(infoBuf, new)]
      /\ \/ /\ infoCount' = [infoCount EXCEPT ![f] = c + prev]
            /\ infoVals'  = [infoVals EXCEPT ![f] = old \o [k \in 1 .. c |-> infoPlace]]
            /\ NextField
         \/ /\ infoCount' = [infoCount EXCEPT ![f] = 0]
            /\ infoVals'  = [infoVals EXCEPT ![f] = << >>]
            /\ Over("failed")
  BY <1>1 DEF old, prev, f, givenUp
<1> QED
  BY <1>1, <1>2, <1>3, <1>5, <1>6 DEF f, givenUp

LEMMA InfoInvInit == InfoInit => InfoInv
<1> SUFFICES ASSUME InfoInit PROVE InfoInv
  OBVIOUS
<1>1. /\ \A f \in Arrays : infoCount[f] = 0 /\ infoVals[f] = << >>
      /\ \A f \in Members : infoPtr[f] = NULL
      /\ infoPtr \in [Members -> Nat] /\ infoCount \in [Arrays -> Nat]
  BY DEF InfoInit, NoPtrs, NoEntries, NoVals, NULL, Arrays
<1>2. infoVals \in [Arrays -> Seq(Decoding \cup {"lost"})]
  <2>1. << >> \in Seq(Decoding \cup {"lost"})
    BY EmptySeq
  <2> QED
    BY <2>1 DEF InfoInit, NoVals
<1>3. InfoTypeOK
  BY <1>1, <1>2, SizesAssumption
     DEF InfoInit, InfoTypeOK, Decoding, Buffers, NoBuffer, NULL
<1>4. ListsJoined /\ InfoInside
  BY <1>1, EmptySeq DEF ListsJoined, InfoInside
<1> QED
  BY <1>1, <1>3, <1>4 DEF InfoInv, InfoInit, Decoding

\* Any of the ways on from a field leaves what only depends on the place.
LEMMA InfoOnward ==
  ASSUME InfoInv, infoPlace \in Decoding, NextField \/ Over("failed")
  PROVE  /\ infoPlace' \in {"none", "decoded", "failed"} \cup Decoding
         /\ infoPlace' # "none"
         /\ infoAt' \in Nat \ {0}
         /\ infoPlace' \in Decoding => infoAt' <= Len(Message[infoPlace'])
         /\ infoPlace' \notin Decoding => infoAt' = 1
         /\ infoPlace' = "pima" => infoPlace = "pima"
<1>1. infoAt \in 1 .. Len(Message[infoPlace])
  BY MessageFacts DEF InfoInv, InfoTypeOK
<1>2. infoPlace' \notin Decoding => infoAt' = 1
  BY DEF NextField, Over, Decoding
<1>3. infoPlace' # "none"
  BY DEF NextField, Over, Decoding
<1> QED
  BY <1>1, <1>2, <1>3, OnwardFacts

LEMMA DecodeStringStep ==
  ASSUME InfoInv, DecodeString
  PROVE  InfoInv'
<1> DEFINE f == Message[infoPlace][infoAt]
<1>1. PICK new \in Appended(infoBuf, 1) :
        /\ infoBuf' = new
        /\ infoPtr' = [AdjustedPtr(infoPtr, new) EXCEPT ![f] = End(infoBuf, new)]
  BY DEF DecodeString
<1>2. /\ infoPlace \in Decoding /\ infoPlace # "none" /\ 1 \in Nat
      /\ f \in Strings /\ f \in Members /\ f \notin Arrays
      /\ infoPtr \in [Members -> Nat]
      /\ infoCount' = infoCount /\ infoVals' = infoVals
  BY DEF DecodeString, InfoInv, InfoTypeOK, Members, Strings, Arrays, Decoding
<1> HIDE DEF f
<1>3. /\ new \in Buffers /\ new.data \in Bases /\ new.size <= new.maxsize
      /\ new.size = infoBuf.size + 1 /\ infoBuf.size \in Nat /\ new.data \in Nat
      /\ End(infoBuf, new) \in Nat /\ End(infoBuf, new) # NULL
      /\ End(infoBuf, new) = new.data + infoBuf.size
  BY <1>2, AppendedFacts DEF InfoInv, InfoTypeOK
<1>4. /\ AdjustedPtr(infoPtr, new) \in [Members -> Nat]
      /\ \A g \in Members :
           /\ infoPtr[g] = NULL => AdjustedPtr(infoPtr, new)[g] = NULL
           /\ infoPtr[g] # NULL =>
                Inside(new, AdjustedPtr(infoPtr, new)[g],
                       IF g \in Arrays THEN infoCount[g] ELSE 1)
  BY <1>2, InfoMoveFacts
<1>5. /\ infoPtr' \in [Members -> Nat] /\ infoPtr'[f] = End(infoBuf, new)
      /\ \A g \in Members : g # f => infoPtr'[g] = AdjustedPtr(infoPtr, new)[g]
  BY <1>1, <1>2, <1>3, <1>4
<1>6. InfoInside'
  <2>1. Inside(new, End(infoBuf, new), 1)
    BY <1>3 DEF Inside
  <2> QED
    BY <2>1, <1>1, <1>2, <1>4, <1>5 DEF InfoInside
<1>7. \A g \in Arrays : infoPtr'[g] = NULL => infoCount'[g] = 0
  <2>1. \A g \in Arrays : g \in Members /\ g # f
    BY <1>2 DEF Members
  <2>2. \A g \in Arrays : infoPtr'[g] = NULL => infoPtr[g] = NULL
    BY <2>1, <1>2, <1>3, <1>5, InfoMoveFacts
  <2> QED
    BY <2>2, <1>2 DEF InfoInv
<1>8. NextField \/ Over("failed")
  BY DEF DecodeString
<1>9. InfoTypeOK' /\ ListsJoined'
  BY <1>1, <1>2, <1>3, <1>5, <1>8, InfoOnward DEF InfoInv, InfoTypeOK, ListsJoined
<1> QED
  BY <1>1, <1>2, <1>3, <1>6, <1>7, <1>8, <1>9, InfoOnward DEF InfoInv

\* What is in an array once entries of the message have joined it.
LEMMA JoinedFacts ==
  ASSUME InfoInv, infoPlace \in {"pima", "sony"},
         NEW f \in Arrays, NEW c \in Nat, NEW vals,
         vals = infoVals[f] \o [k \in 1 .. c |-> infoPlace]
  PROVE  /\ vals \in Seq(Decoding \cup {"lost"})
         /\ Len(vals) = c + infoCount[f]
         /\ \A k \in 1 .. Len(vals) : vals[k] # "lost"
         /\ \A k \in 2 .. Len(vals) : vals[k] = "pima" => vals[k - 1] = "pima"
         /\ infoPlace = "pima" => \A k \in 1 .. Len(vals) : vals[k] = "pima"
<1> DEFINE old   == infoVals[f]
           added == [k \in 1 .. c |-> infoPlace]
           n     == infoCount[f]
<1>1. /\ old \in Seq(Decoding \cup {"lost"}) /\ n \in Nat /\ Len(old) = n
      /\ \A k \in 1 .. n : old[k] # "lost"
      /\ \A k \in 2 .. n : old[k] = "pima" => old[k - 1] = "pima"
      /\ infoPlace = "pima" => \A k \in 1 .. n : old[k] = "pima"
  BY DEF InfoInv, InfoTypeOK, ListsJoined
<1>2. /\ added \in Seq(Decoding \cup {"lost"}) /\ Len(added) = c
      /\ \A k \in 1 .. c : added[k] = infoPlace
  BY ConstantSeq DEF Decoding
<1>3. vals = old \o added
  OBVIOUS
<1> HIDE DEF old, added, n
<1>4. /\ vals \in Seq(Decoding \cup {"lost"})
      /\ Len(vals) = Len(old) + Len(added)
      /\ \A k \in 1 .. Len(old) + Len(added) :
           vals[k] = IF k <= Len(old) THEN old[k] ELSE added[k - Len(old)]
  <2>1. /\ old \o added \in Seq(Decoding \cup {"lost"})
        /\ Len(old \o added) = Len(old) + Len(added)
        /\ \A k \in 1 .. Len(old) + Len(added) :
             (old \o added)[k] = IF k <= Len(old) THEN old[k] ELSE added[k - Len(old)]
    BY <1>1, <1>2, ConcatProperties
  <2> QED
    BY <2>1, <1>3
<1>5. /\ Len(vals) \in Nat /\ Len(vals) = n + c
      /\ \A k \in 1 .. Len(vals) : k <= n => k \in 1 .. n /\ vals[k] = old[k]
      /\ \A k \in 1 .. Len(vals) : k > n => vals[k] = infoPlace
  BY <1>1, <1>2, <1>4
<1>6. \A k \in 1 .. Len(vals) : vals[k] # "lost"
  BY <1>1, <1>5
<1>7. infoPlace = "pima" => \A k \in 1 .. Len(vals) : vals[k] = "pima"
  BY <1>1, <1>5
<1>8. ASSUME NEW k \in 2 .. Len(vals), vals[k] = "pima" PROVE vals[k - 1] = "pima"
  <2>1. /\ k \in 1 .. Len(vals) /\ k - 1 \in 1 .. Len(vals)
        /\ k <= n => k \in 2 .. n /\ k - 1 <= n
    BY <1>1, <1>5
  <2>2. CASE infoPlace = "pima"
    BY <2>1, <2>2, <1>7
  <2>3. CASE infoPlace # "pima"
    <3>1. k <= n
      BY <2>1, <2>3, <1>1, <1>5, <1>8
    <3>2. old[k] = "pima"
      BY <3>1, <2>1, <1>5, <1>8
    <3> QED
      BY <3>1, <3>2, <2>1, <1>1, <1>5
  <2> QED
    BY <2>2, <2>3
<1>9. Len(vals) = c + infoCount[f]
  BY <1>1, <1>5 DEF n
<1> QED
  BY <1>4, <1>6, <1>7, <1>8, <1>9

LEMMA DecodeArrayStep ==
  ASSUME InfoInv, DecodeArray
  PROVE  InfoInv'
<1> DEFINE f       == Message[infoPlace][infoAt]
           givenUp == [infoPtr EXCEPT ![f] = NULL]
<1>1. PICK c, new :
        /\ c \in Nat /\ f \in Arrays
        /\ new \in Appended(infoBuf, c + infoCount[f])
        /\ infoBuf' = new
        /\ infoPtr' = [AdjustedPtr(givenUp, new) EXCEPT ![f] = End(infoBuf, new)]
        /\ \/ /\ infoCount' = [infoCount EXCEPT ![f] = c + infoCount[f]]
              /\ infoVals'  = [infoVals EXCEPT
                                ![f] = infoVals[f] \o [k \in 1 .. c |-> infoPlace]]
              /\ NextField
           \/ /\ infoCount' = [infoCount EXCEPT ![f] = 0]
              /\ infoVals'  = [infoVals EXCEPT ![f] = << >>]
              /\ Over("failed")
  BY DecodeArrayWrites
<1>2. /\ infoPlace \in Decoding /\ infoPlace \in {"pima", "sony"}
      /\ infoAt \in 1 .. Len(Message[infoPlace])
  <2>1. infoPlace \in Decoding /\ infoAt \in 1 .. Len(Message[infoPlace])
    <3>1. infoPlace \in Decoding
      BY DEF DecodeArray
    <3> QED
      BY <3>1, MessageFacts DEF InfoInv, InfoTypeOK
  <2>2. f \notin Strings
    BY <1>1 DEF Arrays, Strings
  <2> QED
    BY <2>1, <2>2, MessageFacts DEF Decoding
<1> HIDE DEF f
<1>3. /\ f \in Arrays /\ f \in Members /\ c \in Nat
      /\ infoPtr \in [Members -> Nat] /\ infoCount \in [Arrays -> Nat]
      /\ infoVals \in [Arrays -> Seq(Decoding \cup {"lost"})]
      /\ c + infoCount[f] \in Nat
  BY <1>1 DEF Members, InfoInv, InfoTypeOK
<1>4. /\ new \in Buffers /\ new.data \in Bases /\ new.size <= new.maxsize
      /\ new.size = infoBuf.size + (c + infoCount[f])
      /\ infoBuf.size \in Nat /\ new.data \in Nat
      /\ End(infoBuf, new) \in Nat /\ End(infoBuf, new) # NULL
      /\ End(infoBuf, new) = new.data + infoBuf.size
  <2>1. infoBuf \in Buffers /\ infoBuf.data \in Bases /\ infoBuf.size <= infoBuf.maxsize
    BY <1>2 DEF InfoInv, InfoTypeOK
  <2> QED
    BY <2>1, <1>1, <1>3, AppendedFacts
<1>5. /\ givenUp \in [Members -> Nat]
      /\ \A g \in Members : givenUp[g] = NULL \/ givenUp[g] = infoPtr[g]
      /\ \A g \in Members : g # f => givenUp[g] = infoPtr[g]
  BY <1>3 DEF NULL
<1> DEFINE moved == AdjustedPtr(givenUp, new)
<1>6. /\ moved \in [Members -> Nat]
      /\ \A g \in Members : g # f =>
           /\ infoPtr[g] = NULL => moved[g] = NULL
           /\ infoPtr[g] # NULL =>
                /\ moved[g] # NULL
                /\ Inside(new, moved[g], IF g \in Arrays THEN infoCount[g] ELSE 1)
  <2>1. /\ new \in Appended(infoBuf, c + infoCount[f])
        /\ c + infoCount[f] \in Nat
    BY <1>1, <1>3
  <2> HIDE DEF givenUp
  <2> QED
    BY <2>1, <1>2, <1>5, InfoMoveFacts
<1> HIDE DEF moved, givenUp
<1>7. /\ infoPtr' \in [Members -> Nat] /\ infoPtr'[f] = End(infoBuf, new)
      /\ \A g \in Members : g # f => infoPtr'[g] = moved[g]
  BY <1>1, <1>3, <1>4, <1>6 DEF moved
<1> DEFINE joined == infoVals[f] \o [k \in 1 .. c |-> infoPlace]
<1>8. /\ infoCount'[f] \in {0, c + infoCount[f]}
      /\ infoCount' \in [Arrays -> Nat]
      /\ infoVals' \in [Arrays -> Seq(Decoding \cup {"lost"})]
      /\ \A g \in Arrays : g # f => infoCount'[g] = infoCount[g] /\ infoVals'[g] = infoVals[g]
      /\ \/ infoCount'[f] = c + infoCount[f] /\ infoVals'[f] = joined
         \/ infoCount'[f] = 0 /\ infoVals'[f] = << >>
  <2>1. joined \in Seq(Decoding \cup {"lost"}) /\ << >> \in Seq(Decoding \cup {"lost"})
    BY <1>2, <1>3, JoinedFacts, EmptySeq
  <2>2. \/ /\ infoCount' = [infoCount EXCEPT ![f] = c + infoCount[f]]
           /\ infoVals'  = [infoVals EXCEPT ![f] = joined]
        \/ /\ infoCount' = [infoCount EXCEPT ![f] = 0]
           /\ infoVals'  = [infoVals EXCEPT ![f] = << >>]
    BY <1>1
  <2> HIDE DEF joined
  <2>3. CASE /\ infoCount' = [infoCount EXCEPT ![f] = c + infoCount[f]]
             /\ infoVals'  = [infoVals EXCEPT ![f] = joined]
    BY <2>1, <2>3, <1>3
  <2>4. CASE /\ infoCount' = [infoCount EXCEPT ![f] = 0]
             /\ infoVals'  = [infoVals EXCEPT ![f] = << >>]
    BY <2>1, <2>4, <1>3
  <2> QED
    BY <2>2, <2>3, <2>4
<1>9. /\ Len(joined) = c + infoCount[f]
      /\ \A k \in 1 .. Len(joined) : joined[k] # "lost"
      /\ \A k \in 2 .. Len(joined) : joined[k] = "pima" => joined[k - 1] = "pima"
      /\ infoPlace = "pima" => \A k \in 1 .. Len(joined) : joined[k] = "pima"
  BY <1>2, <1>3, JoinedFacts
<1> HIDE DEF joined
<1>10. ListsJoined'
  <2>1. ASSUME NEW g \in Arrays, g # f
        PROVE  /\ Len(infoVals'[g]) = infoCount'[g]
               /\ \A k \in 1 .. infoCount'[g] : infoVals'[g][k] # "lost"
               /\ \A k \in 2 .. infoCount'[g] :
                    infoVals'[g][k] = "pima" => infoVals'[g][k - 1] = "pima"
    BY <2>1, <1>8 DEF InfoInv, ListsJoined
  <2>2. /\ Len(infoVals'[f]) = infoCount'[f]
        /\ \A k \in 1 .. infoCount'[f] : infoVals'[f][k] # "lost"
        /\ \A k \in 2 .. infoCount'[f] :
             infoVals'[f][k] = "pima" => infoVals'[f][k - 1] = "pima"
    <3>1. CASE infoCount'[f] = 0 /\ infoVals'[f] = << >>
      BY <3>1, EmptySeq
    <3>2. CASE infoCount'[f] = c + infoCount[f] /\ infoVals'[f] = joined
      BY <3>2, <1>9
    <3> QED
      BY <3>1, <3>2, <1>8
  <2> QED
    BY <2>1, <2>2 DEF ListsJoined
<1>11. InfoInside'
  <2>1. Inside(new, End(infoBuf, new), infoCount'[f])
    <3>1. ASSUME NEW m \in Nat, m <= c + infoCount[f]
          PROVE  Inside(new, End(infoBuf, new), m)
      BY <3>1, <1>3, <1>4 DEF Inside
    <3>2. infoCount'[f] \in Nat /\ infoCount'[f] <= c + infoCount[f]
      BY <1>3, <1>8
    <3> QED
      BY <3>1, <3>2
  <2>2. ASSUME NEW g \in Members, g # f, infoPtr'[g] # NULL
        PROVE  Inside(new, infoPtr'[g], IF g \in Arrays THEN infoCount'[g] ELSE 1)
    <3>1. infoPtr'[g] = moved[g] /\ infoPtr[g] # NULL
      BY <2>2, <1>6, <1>7
    <3>2. Inside(new, moved[g], IF g \in Arrays THEN infoCount[g] ELSE 1)
      BY <2>2, <3>1, <1>6
    <3>3. g \in Arrays => infoCount'[g] = infoCount[g]
      BY <2>2, <1>8
    <3> QED
      BY <3>1, <3>2, <3>3
  <2> QED
    BY <2>1, <2>2, <1>1, <1>3, <1>7 DEF InfoInside
<1>12. \A g \in Arrays : infoPtr'[g] = NULL => infoCount'[g] = 0
  <2>1. ASSUME NEW g \in Arrays, g # f, infoPtr'[g] = NULL PROVE infoCount'[g] = 0
    <3>1. g \in Members
      BY DEF Members
    <3> QED
      BY <2>1, <3>1, <1>6, <1>7, <1>8 DEF InfoInv
  <2> QED
    BY <2>1, <1>4, <1>7
<1>13. NextField \/ Over("failed")
  BY <1>1
<1>14. infoPlace' = "pima" =>
         \A g \in Arrays : \A k \in 1 .. infoCount'[g] : infoVals'[g][k] = "pima"
  <2> SUFFICES ASSUME infoPlace = "pima", NEW g \in Arrays, NEW k \in 1 .. infoCount'[g]
               PROVE  infoVals'[g][k] = "pima"
    BY <1>2, <1>13, InfoOnward
  <2>1. CASE g # f
    <3>1. infoCount'[g] = infoCount[g] /\ infoVals'[g] = infoVals[g]
      BY <2>1, <1>8
    <3>2. \A i \in 1 .. infoCount[g] : infoVals[g][i] = "pima"
      BY DEF InfoInv
    <3> QED
      BY <3>1, <3>2
  <2>2. CASE g = f
    BY <2>2, <1>8, <1>9
  <2> QED
    BY <2>1, <2>2
<1>15. InfoTypeOK'
  BY <1>1, <1>2, <1>4, <1>7, <1>8, <1>13, InfoOnward DEF InfoTypeOK
<1> QED
  BY <1>1, <1>2, <1>4, <1>10, <1>11, <1>12, <1>13, <1>14, <1>15, InfoOnward DEF InfoInv

\* The end of a message that failed.
LEMMA FailFieldStep ==
  ASSUME InfoInv, FailField
  PROVE  InfoInv'
<1> DEFINE f == Message[infoPlace][infoAt]
<1>1. /\ infoPlace \in Decoding /\ Over("failed") /\ infoBuf' = infoBuf
      /\ \/ /\ f \in Arrays
            /\ infoPtr'   = [infoPtr   EXCEPT ![f] = NULL]
            /\ infoCount' = [infoCount EXCEPT ![f] = 0]
            /\ infoVals'  = [infoVals  EXCEPT ![f] = << >>]
         \/ infoPtr' = infoPtr /\ infoCount' = infoCount /\ infoVals' = infoVals
  BY DEF FailField
<1> HIDE DEF f
<1>2. /\ infoBuf \in Buffers /\ infoBuf.size <= infoBuf.maxsize
      /\ infoBuf.data \in Bases
      /\ infoPtr \in [Members -> Nat] /\ infoCount \in [Arrays -> Nat]
      /\ infoVals \in [Arrays -> Seq(Decoding \cup {"lost"})]
      /\ << >> \in Seq(Decoding \cup {"lost"}) /\ Len(<< >>) = 0
      /\ Arrays \subseteq Members
  BY <1>1, EmptySeq DEF InfoInv, InfoTypeOK, Members, Decoding
<1>3. CASE infoPtr' = infoPtr /\ infoCount' = infoCount /\ infoVals' = infoVals
  <2>1. InfoTypeOK' /\ ListsJoined' /\ InfoInside'
    BY <1>1, <1>2, <1>3, InfoOnward DEF InfoInv, InfoTypeOK, ListsJoined, InfoInside
  <2> QED
    BY <2>1, <1>1, <1>2, <1>3, InfoOnward DEF InfoInv
<1>4. CASE /\ f \in Arrays
           /\ infoPtr'   = [infoPtr   EXCEPT ![f] = NULL]
           /\ infoCount' = [infoCount EXCEPT ![f] = 0]
           /\ infoVals'  = [infoVals  EXCEPT ![f] = << >>]
  <2>1. /\ infoPtr' \in [Members -> Nat] /\ infoCount' \in [Arrays -> Nat]
        /\ infoVals' \in [Arrays -> Seq(Decoding \cup {"lost"})]
        /\ infoPtr'[f] = NULL /\ infoCount'[f] = 0 /\ infoVals'[f] = << >>
        /\ \A g \in Members : g # f => infoPtr'[g] = infoPtr[g]
        /\ \A g \in Arrays : g # f => infoCount'[g] = infoCount[g]
        /\ \A g \in Arrays : g # f => infoVals'[g] = infoVals[g]
    BY <1>2, <1>4 DEF NULL
  <2>2. ListsJoined'
    <3> SUFFICES ASSUME NEW g \in Arrays
                 PROVE  /\ Len(infoVals'[g]) = infoCount'[g]
                        /\ \A k \in 1 .. infoCount'[g] : infoVals'[g][k] # "lost"
                        /\ \A k \in 2 .. infoCount'[g] :
                             infoVals'[g][k] = "pima" => infoVals'[g][k - 1] = "pima"
      BY DEF ListsJoined
    <3>1. CASE g = f
      BY <3>1, <2>1, <1>2
    <3>2. CASE g # f
      <4>1. infoCount'[g] = infoCount[g] /\ infoVals'[g] = infoVals[g]
        BY <3>2, <2>1
      <4> QED
        BY <4>1 DEF InfoInv, ListsJoined
    <3> QED
      BY <3>1, <3>2
  <2>3. InfoInside'
    <3> SUFFICES ASSUME NEW g \in Members, infoPtr'[g] # NULL
                 PROVE  Inside(infoBuf, infoPtr'[g],
                               IF g \in Arrays THEN infoCount'[g] ELSE 1)
      BY <1>1 DEF InfoInside
    <3>1. g # f /\ infoPtr'[g] = infoPtr[g]
      BY <2>1
    <3>2. g \in Arrays => infoCount'[g] = infoCount[g]
      BY <3>1, <2>1
    <3> QED
      BY <3>1, <3>2 DEF InfoInv, InfoInside
  <2>4. \A g \in Arrays : infoPtr'[g] = NULL => infoCount'[g] = 0
    BY <1>2, <2>1 DEF InfoInv
  <2>5. infoPlace' = "pima" =>
          \A g \in Arrays : \A k \in 1 .. infoCount'[g] : infoVals'[g][k] = "pima"
    BY <1>1 DEF Over
  <2>6. InfoTypeOK'
    BY <2>1, <1>1, <1>2, InfoOnward DEF InfoTypeOK
  <2> QED
    BY <2>2, <2>3, <2>4, <2>5, <2>6, <1>1, <1>2, InfoOnward DEF InfoInv
<1> QED
  BY <1>1, <1>3, <1>4

LEMMA InfoOwnerStep ==
  ASSUME InfoInv, CreateInfo \/ FreeInfo
  PROVE  InfoInv'
<1>1. CASE CreateInfo
  <2>1. infoBuf' \in Buffers /\ infoBuf'.size <= infoBuf'.maxsize /\ infoBuf'.data \in Bases
    BY <1>1, SizesAssumption DEF CreateInfo, Created, Buffers
  <2>2. /\ infoPtr' = infoPtr /\ infoCount' = infoCount /\ infoVals' = infoVals
        /\ infoAt' = 1 /\ infoPlace' \in {"pima", "object"}
        /\ \A g \in Members : infoPtr[g] = NULL
        /\ \A g \in Arrays : infoCount[g] = 0
    BY <1>1 DEF CreateInfo, InfoInv, NoPtrs, Members, Decoding
  <2>3. 1 <= Len(Message[infoPlace'])
    BY <2>2, MessageFacts DEF Decoding
  <2>4. InfoTypeOK' /\ ListsJoined' /\ InfoInside'
    BY <2>1, <2>2, <2>3 DEF InfoInv, InfoTypeOK, ListsJoined, InfoInside, Decoding
  <2> QED
    BY <2>1, <2>2, <2>4 DEF InfoInv, Decoding
<1>2. CASE FreeInfo
  <2>1. /\ \A f \in Arrays : infoCount'[f] = 0 /\ infoVals'[f] = << >>
        /\ \A f \in Members : infoPtr'[f] = NULL
        /\ infoPtr' \in [Members -> Nat] /\ infoCount' \in [Arrays -> Nat]
    BY <1>2 DEF FreeInfo, NoPtrs, NoEntries, NoVals, NULL
  <2>2. infoVals' \in [Arrays -> Seq(Decoding \cup {"lost"})]
    <3>1. << >> \in Seq(Decoding \cup {"lost"})
      BY EmptySeq
    <3> QED
      BY <3>1, <1>2 DEF FreeInfo, NoVals
  <2>3. /\ infoPlace' = "none" /\ infoBuf' = NoBuffer /\ infoAt' = 1
        /\ infoPtr' = NoPtrs /\ infoVals' = NoVals
    BY <1>2 DEF FreeInfo, InfoInv, Decoding
  <2>4. InfoTypeOK' /\ ListsJoined' /\ InfoInside'
    BY <2>1, <2>2, <2>3, EmptySeq
       DEF InfoTypeOK, ListsJoined, InfoInside, Decoding, Buffers, NoBuffer, NULL
  <2> QED
    BY <2>1, <2>3, <2>4 DEF InfoInv, Decoding
<1> QED
  BY <1>1, <1>2

LEMMA InfoInvStep == InfoInv /\ [InfoNext]_infoVars => InfoInv'
<1> SUFFICES ASSUME InfoInv, [InfoNext]_infoVars PROVE InfoInv'
  OBVIOUS
<1>1. CASE UNCHANGED infoVars
  BY <1>1 DEF infoVars, InfoInv, InfoTypeOK, ListsJoined, InfoInside
<1> QED
  BY <1>1, InfoOwnerStep, FailFieldStep, DecodeStringStep, DecodeArrayStep DEF InfoNext

\* ListsJoined and InfoInside hold in every behaviour: no entry is lost when the
\* lists of two messages are joined, whether or not the buffer moves meanwhile.
THEOREM InfoInvHolds == InfoSpec => [](ListsJoined /\ InfoInside)
<1>1. InfoInv => ListsJoined /\ InfoInside
  BY DEF InfoInv
<1> QED
  BY <1>1, InfoInvInit, InfoInvStep, PTL DEF InfoSpec

\* A step of InfoFollows.
InfoFollow ==
  infoPlace \in Decoding =>
    \A f \in Members \ {Message[infoPlace][infoAt]} :
      infoPtr[f] # NULL =>
        infoPtr'[f] - infoBuf'.data = infoPtr[f] - infoBuf.data

LEMMA InfoFollowStep == InfoInv /\ [InfoNext]_infoVars => [InfoFollow]_infoVars
<1> SUFFICES ASSUME InfoInv, InfoNext, infoPlace \in Decoding,
                    NEW g \in Members, g # Message[infoPlace][infoAt],
                    infoPtr[g] # NULL
             PROVE  infoPtr'[g] - infoBuf'.data = infoPtr[g] - infoBuf.data
  BY DEF InfoFollow
<1> DEFINE f == Message[infoPlace][infoAt]
<1>1. CASE FailField
  <2>1. infoPtr \in [Members -> Nat]
    BY DEF InfoInv, InfoTypeOK
  <2>2. infoBuf' = infoBuf /\ (infoPtr' = infoPtr \/ infoPtr' = [infoPtr EXCEPT ![f] = NULL])
    BY <1>1 DEF FailField
  <2> QED
    BY <2>1, <2>2
<1>2. CASE DecodeString
  <2>1. PICK new \in Appended(infoBuf, 1) :
          /\ infoBuf' = new
          /\ infoPtr' = [AdjustedPtr(infoPtr, new) EXCEPT ![f] = End(infoBuf, new)]
    BY <1>2 DEF DecodeString
  <2>2. infoPtr \in [Members -> Nat] /\ 1 \in Nat
    BY DEF InfoInv, InfoTypeOK
  <2>3. /\ AdjustedPtr(infoPtr, new) \in [Members -> Nat]
        /\ AdjustedPtr(infoPtr, new)[g] - new.data = infoPtr[g] - infoBuf.data
    BY <2>2, InfoMoveFacts
  <2> HIDE DEF f
  <2>4. infoPtr'[g] = AdjustedPtr(infoPtr, new)[g]
    BY <2>1, <2>3 DEF f
  <2> QED
    BY <2>1, <2>3, <2>4
<1>3. CASE DecodeArray
  <2> DEFINE givenUp == [infoPtr EXCEPT ![f] = NULL]
  <2>1. PICK c, new :
          /\ c \in Nat /\ f \in Arrays
          /\ new \in Appended(infoBuf, c + infoCount[f])
          /\ infoBuf' = new
          /\ infoPtr' = [AdjustedPtr(givenUp, new) EXCEPT ![f] = End(infoBuf, new)]
    BY <1>3, DecodeArrayWrites
  <2> HIDE DEF f
  <2>2. infoPtr \in [Members -> Nat] /\ c + infoCount[f] \in Nat
    BY <2>1 DEF InfoInv, InfoTypeOK
  <2>3. /\ givenUp \in [Members -> Nat] /\ givenUp[g] = infoPtr[g]
        /\ \A h \in Members : givenUp[h] = NULL \/ givenUp[h] = infoPtr[h]
    BY <2>2 DEF f, NULL
  <2> HIDE DEF givenUp
  <2>4. /\ AdjustedPtr(givenUp, new) \in [Members -> Nat]
        /\ AdjustedPtr(givenUp, new)[g] - new.data = infoPtr[g] - infoBuf.data
    BY <2>1, <2>2, <2>3, InfoMoveFacts
  <2>5. infoPtr'[g] = AdjustedPtr(givenUp, new)[g]
    BY <2>1, <2>4 DEF f
  <2> QED
    BY <2>1, <2>4, <2>5
<1> QED
  BY <1>1, <1>2, <1>3 DEF InfoNext, CreateInfo, FreeInfo, Decoding

\* InfoFollows holds in every behaviour: the callbacks find every pointer.
THEOREM InfoFollowsHolds == InfoSpec => InfoFollows
<1>1. [][InfoFollow]_infoVars => InfoFollows
  BY PTL DEF InfoFollows, InfoFollow
<1> QED
  BY <1>1, InfoInvInit, InfoInvStep, InfoFollowStep, PTL DEF InfoSpec

==============================================================================
