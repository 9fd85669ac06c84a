------------------------------ MODULE PropList ------------------------------
(***************************************************************************)
(* The list of a device's properties as ptp-sony.c and ptp-pima.c decode   *)
(* it: descriptors, their values and their forms, all in one buffer that   *)
(* moves when it grows (DynBuf), linked by pointers.  A step is one append *)
(* with all that is done before the next: the callback's adjustments, the  *)
(* updates of the decoders' locals, the assignments.                       *)
(*                                                                         *)
(* What the camera sends is chosen as it is read, and may end anywhere.    *)
(***************************************************************************)
EXTENDS DynBuf

CONSTANTS
  MaxProps,    \* bound: descriptors in a list
  MaxElems,    \* bound: elements of a value, or characters of a string
  MaxValues    \* bound: values of an enumeration

ASSUME ListBoundsAssumption == /\ MaxProps  \in Nat
                               /\ MaxElems  \in Nat
                               /\ MaxValues \in Nat

VARIABLES
  listPlace,   \* how far the decoder is
  listBuf,     \* list->buf
  desc,        \* list->desc
  count,       \* list->count
  field,       \* the pointers of descriptor i and of its form
  kind,        \* what descriptor i's type is of
  cells,       \* the elements that descriptor i's values have room for
  enumCells,   \* and those of the values of its enumeration
  formType,    \* form->type of descriptor i
  enumCount,   \* form->penum.count of descriptor i
  enum,        \* form->penum.values[j].value of descriptor i
  at,          \* the descriptor that is being decoded, the loop's i
  atValue,     \* the value of its enumeration that is being decoded
  listCtx,     \* the local desc of ptp_sony_decode_prop_desc_list
  descCtx,     \* the local desc of ptp_sony_decode_prop_desc
  formCtx      \* the local form of ptp_pima_decode_prop_form

cellVars   == <<cells, enumCells>>
structVars == <<desc, count, field, kind, cellVars, formType, enumCount, enum>>
localVars  == <<at, atValue, listCtx, descCtx, formCtx>>
listVars   == <<listPlace, listBuf, structVars, localVars>>

Props       == 1 .. MaxProps
RangeFields == {"min", "max", "step"}
ValuePlaces == {"def", "val"} \cup RangeFields
Fields      == {"def", "val", "form", "values"} \cup RangeFields

\* A value of an array type may have no elements; one of another type has one at
\* least, a string's terminator.  The decoder of values asks for nothing else.
Kinds       == {"none", "array", "other"}

NoFields    == [i \in Props |-> [f \in Fields |-> NULL]]
NoKinds     == [i \in Props |-> "none"]
NoForms     == [i \in Props |-> "none"]
NoCounts    == [i \in Props |-> 0]
NoEnums     == [i \in Props |-> [j \in 1 .. MaxValues |-> NULL]]
NoCells     == [i \in Props |-> [f \in ValuePlaces |-> 0]]
NoEnumCells == [i \in Props |-> [j \in 1 .. MaxValues |-> 0]]
NoCtx       == [ptr |-> NULL, prev |-> NULL]

ListInit ==
  /\ listPlace = "none"
  /\ listBuf = NoBuffer
  /\ desc = NULL /\ count = 0
  /\ field = NoFields /\ kind = NoKinds /\ cells = NoCells
  /\ formType = NoForms /\ enumCount = NoCounts
  /\ enum = NoEnums /\ enumCells = NoEnumCells
  /\ at = 1 /\ atValue = 1
  /\ listCtx = NoCtx /\ descCtx = NoCtx /\ formCtx = NoCtx

-----------------------------------------------------------------------------
(* The callback, ptp_pima_adjust_prop_desc_list.  It walks the list as far *)
(* as it is recorded.                                                      *)

WalksDesc(i) == desc # NULL /\ i <= count
WalksForm(i) == WalksDesc(i) /\ field[i]["form"] # NULL

\* Mutant: the callback forgets the values of an enumeration.
Bug_Walks(i, f) ==
  \/ f \in {"def", "val", "form"} /\ WalksDesc(i)
  \/ f \in RangeFields /\ WalksForm(i) /\ formType[i] = "range"

Walks(i, f) ==
  \/ f \in {"def", "val", "form"} /\ WalksDesc(i)
  \/ f \in RangeFields /\ WalksForm(i) /\ formType[i] = "range"
  \/ f = "values"      /\ WalksForm(i) /\ formType[i] = "enum"

WalksValue(i, j) ==
  /\ WalksForm(i) /\ formType[i] = "enum"
  /\ field[i]["values"] # NULL
  /\ j <= enumCount[i]

AdjustedDesc(offset) == Shift(desc, offset)
AdjustedField(offset) ==
  [i \in Props |-> [f \in Fields |->
     IF Walks(i, f) THEN Shift(field[i][f], offset) ELSE field[i][f]]]
AdjustedEnum(offset) ==
  [i \in Props |-> [j \in 1 .. MaxValues |->
     IF WalksValue(i, j) THEN Shift(enum[i][j], offset) ELSE enum[i][j]]]

Moved(new) == new.data - listBuf.data

\* Where descriptor i is once the buffer is `new`.
DescCell(i, new) == AdjustedDesc(Moved(new)) + (i - 1)

-----------------------------------------------------------------------------
(* The decoders.                                                           *)

\* The decoder is done, one way or the other, and its locals are gone.
Ends(place) ==
  /\ listPlace' = place
  /\ at' = 1 /\ atValue' = 1
  /\ listCtx' = NoCtx /\ descCtx' = NoCtx /\ formCtx' = NoCtx

Fails == Ends("failed")

\* The end of the data.  The camera's response may still tell of an error.
Completes == Ends("decoded") \/ Fails

\* Mutant: the loop's own pointer is not updated.
Bug_Return(new) ==
  \/ /\ at < count
     /\ listPlace' = "desc"
     /\ at' = at + 1 /\ atValue' = 1
     /\ UNCHANGED listCtx
     /\ descCtx' = NoCtx /\ formCtx' = NoCtx
  \/ /\ at = count
     /\ Completes

\* Back in the loop of ptp_sony_decode_prop_desc_list: update, next descriptor.
Return(new) ==
  \/ /\ at < count
     /\ listPlace' = "desc"
     /\ at' = at + 1 /\ atValue' = 1
     /\ listCtx' = Update(listCtx, new)
     /\ descCtx' = NoCtx /\ formCtx' = NoCtx
  \/ /\ at = count
     /\ Completes

\* ptp_pima_proplist_create
Create ==
  /\ listPlace = "none"
  /\ listPlace' = "empty"
  /\ listBuf' \in Created
  /\ UNCHANGED <<structVars, localVars>>

\* ptp_sony_get_all_dev_prop_data fails before it decodes anything, or what it
\* got is too short for the number of descriptors.
NoList ==
  /\ listPlace = "empty"
  /\ Fails
  /\ UNCHANGED <<listBuf, structVars>>

\* ptp_sony_decode_prop_desc_list up to its loop: the descriptors, all zero.
DecodeList ==
  /\ listPlace = "empty"
  /\ \E n \in 0 .. MaxProps : \E new \in Appended(listBuf, n) :
       /\ listBuf' = new
       /\ desc' = End(listBuf, new)
       /\ count' = n
       /\ field' = NoFields /\ kind' = NoKinds /\ cells' = NoCells
       /\ formType' = NoForms /\ enumCount' = NoCounts
       /\ enum' = NoEnums /\ enumCells' = NoEnumCells
       /\ \/ /\ n = 0
             /\ Completes
          \/ /\ n > 0
             /\ listPlace' = "desc"
             /\ listCtx' = Begin(End(listBuf, new), new)
             /\ UNCHANGED <<at, atValue, descCtx, formCtx>>

\* ptp_sony_decode_prop_desc up to its first value; the type is written through
\* the pointer, which is right here (LocalsFollow).
DecodeDesc ==
  /\ listPlace = "desc"
  /\ \/ /\ Fails
        /\ UNCHANGED kind
     \/ /\ descCtx' = Begin(listCtx.ptr + (at - 1), listBuf)
        /\ \E k \in Kinds \ {"none"} : kind' = [kind EXCEPT ![at] = k]
        /\ listPlace' = "def"
        /\ UNCHANGED <<at, atValue, listCtx, formCtx>>
  /\ UNCHANGED <<listBuf, desc, count, field, cellVars, formType, enumCount, enum>>

\* The data ends before the next append, or realloc fails.
NoMore ==
  /\ listPlace \in {"def", "val", "min", "max", "step", "count", "enum"}
  /\ Fails
  /\ UNCHANGED <<listBuf, structVars>>

\* ptp_pima_decode_prop_value: the elements are appended, the local pointer
\* `value` is updated, and the pointer to them and their number are written
\* through it.  A write of x is lost unless it goes where the structure is by then.
Written(value, home, new, x, old) ==
  IF Update(Begin(value, listBuf), new).ptr = home THEN x ELSE old

\* How many elements a value of the current property is given.
Lengths == {n \in 0 .. MaxElems : kind[at] # "array" => n >= 1}

\* What the local pointer to the form leads to.
ThroughForm == IF formCtx.ptr = desc + (at - 1) THEN field[at]["form"] ELSE NULL

After == [def |-> "val", val |-> "form", min |-> "max", max |-> "step"]

DecodeValue ==
  /\ listPlace \in ValuePlaces
  /\ \E n \in Lengths : \E new \in Appended(listBuf, n) :
       LET f     == listPlace
           moved == AdjustedField(Moved(new))
           value == IF f \in RangeFields THEN ThroughForm ELSE descCtx.ptr
           home  == IF f \in RangeFields THEN moved[at]["form"]
                                         ELSE DescCell(at, new)
       IN  /\ listBuf' = new
           /\ desc' = AdjustedDesc(Moved(new))
           /\ field' = [moved EXCEPT ![at][f] =
                          Written(value, home, new, End(listBuf, new), @)]
           /\ cells' = [cells EXCEPT ![at][f] = Written(value, home, new, n, @)]
           /\ enum' = AdjustedEnum(Moved(new))
           /\ UNCHANGED <<count, kind, enumCells, formType, enumCount>>
           /\ \/ Fails                         \* too few elements
              \/ /\ f = "step"
                 /\ Return(new)
              \/ /\ f # "step"
                 /\ listPlace' = After[f]
                 /\ descCtx' = IF f \in RangeFields THEN descCtx
                                                    ELSE Update(descCtx, new)
                 /\ formCtx' = IF f \in RangeFields THEN Update(formCtx, new)
                                                    ELSE formCtx
                 /\ UNCHANGED <<at, atValue, listCtx>>

\* ptp_pima_decode_prop_form, when there is none ...
DecodeNoForm ==
  /\ listPlace = "form"
  /\ Return(listBuf)
  /\ UNCHANGED <<listBuf, structVars>>

\* ... and when there is one: it is recorded, with its type, and what belongs to
\* it comes next.  A form of an unknown type is recorded and refused.
DecodeForm ==
  /\ listPlace = "form"
  /\ \E t \in {"range", "enum", "other"}, new \in Appended(listBuf, 1) :
       LET ctx   == Update(Begin(descCtx.ptr, listBuf), new)
           moved == AdjustedField(Moved(new))
       IN  /\ listBuf' = new
           /\ desc' = AdjustedDesc(Moved(new))
           /\ field' = [moved EXCEPT ![at]["form"] =
                          IF ctx.ptr = DescCell(at, new)
                            THEN End(listBuf, new) ELSE @]
           /\ formType' = [formType EXCEPT ![at] = t]
           /\ enum' = AdjustedEnum(Moved(new))
           /\ UNCHANGED <<count, kind, cellVars, enumCount>>
           /\ \/ /\ t = "other"
                 /\ Fails
              \/ /\ t # "other"
                 /\ listPlace' = IF t = "range" THEN "min" ELSE "count"
                 /\ formCtx' = ctx
                 /\ UNCHANGED <<at, atValue, listCtx, descCtx>>

\* The values of an enumeration, all zero ...
DecodeEnumCount ==
  /\ listPlace = "count"
  /\ \E n \in 0 .. MaxValues : \E new \in Appended(listBuf, n) :
       LET ctx   == Update(formCtx, new)
           moved == AdjustedField(Moved(new))
           found == ctx.ptr = DescCell(at, new)
       IN  /\ listBuf' = new
           /\ desc' = AdjustedDesc(Moved(new))
           /\ field' = [moved EXCEPT ![at]["values"] =
                          IF found THEN End(listBuf, new) ELSE @]
           /\ enumCount' = [enumCount EXCEPT ![at] = IF found THEN n ELSE @]
           /\ enum' = AdjustedEnum(Moved(new))
           /\ UNCHANGED <<count, kind, cellVars, formType>>
           /\ \/ /\ n = 0
                 /\ Return(new)
              \/ /\ n > 0
                 /\ listPlace' = "enum"
                 /\ atValue' = 1
                 /\ formCtx' = ctx
                 /\ UNCHANGED <<at, listCtx, descCtx>>

\* ... and each of them.
DecodeEnumValue ==
  /\ listPlace = "enum"
  /\ \E n \in Lengths : \E new \in Appended(listBuf, n) :
       LET moved == AdjustedField(Moved(new))
           value == IF ThroughForm = NULL THEN NULL
                      ELSE field[at]["values"] + (atValue - 1)
           home  == moved[at]["values"] + (atValue - 1)
       IN  /\ listBuf' = new
           /\ desc' = AdjustedDesc(Moved(new))
           /\ field' = moved
           /\ enum' = [AdjustedEnum(Moved(new)) EXCEPT ![at][atValue] =
                         Written(value, home, new, End(listBuf, new), @)]
           /\ enumCells' = [enumCells EXCEPT ![at][atValue] =
                              Written(value, home, new, n, @)]
           /\ UNCHANGED <<count, kind, cells, formType, enumCount>>
           /\ \/ Fails                         \* too few elements
              \/ /\ atValue = enumCount[at]
                 /\ Return(new)
              \/ /\ atValue < enumCount[at]
                 /\ atValue' = atValue + 1
                 /\ formCtx' = Update(formCtx, new)
                 /\ UNCHANGED <<listPlace, at, listCtx, descCtx>>

-----------------------------------------------------------------------------
(* The users of a list.                                                    *)

\* Nothing leads to the structures any more.
Forgotten ==
  /\ desc' = NULL /\ count' = 0
  /\ field' = NoFields /\ kind' = NoKinds /\ cells' = NoCells
  /\ formType' = NoForms /\ enumCount' = NoCounts
  /\ enum' = NoEnums /\ enumCells' = NoEnumCells

\* ptp_pima_proplist_clear, before the list is read again: the block is kept.
Clear ==
  /\ listPlace = "decoded"
  /\ listPlace' = "empty"
  /\ listBuf' = Cleared(listBuf)
  /\ Forgotten
  /\ UNCHANGED localVars

\* ptp_pima_proplist_free
FreeList ==
  /\ listPlace \in {"empty", "decoded", "failed"}
  /\ listPlace' = "none"
  /\ listBuf' = NoBuffer
  /\ Forgotten
  /\ UNCHANGED localVars

ListNext ==
  \/ Create \/ NoList \/ DecodeList \/ DecodeDesc \/ NoMore \/ DecodeValue
  \/ DecodeNoForm \/ DecodeForm \/ DecodeEnumCount \/ DecodeEnumValue
  \/ Clear \/ FreeList

ListSpec == ListInit /\ [][ListNext]_listVars

-----------------------------------------------------------------------------
(* Properties.                                                             *)

ListPlaces == {"none", "empty", "desc", "form", "count", "enum", "decoded",
               "failed"} \cup ValuePlaces
Contexts   == [ptr : Nat, prev : Nat]

ListTypeOK ==
  /\ listPlace \in ListPlaces
  /\ listBuf \in Buffers /\ listBuf.size <= listBuf.maxsize
  /\ desc \in Nat /\ count \in 0 .. MaxProps
  /\ field \in [Props -> [Fields -> Nat]]
  /\ kind \in [Props -> Kinds]
  /\ cells \in [Props -> [ValuePlaces -> Nat]]
  /\ enumCells \in [Props -> [1 .. MaxValues -> Nat]]
  /\ formType \in [Props -> {"none", "range", "enum", "other"}]
  /\ enumCount \in [Props -> 0 .. MaxValues]
  /\ enum \in [Props -> [1 .. MaxValues -> Nat]]
  /\ at \in Nat \ {0} /\ atValue \in Nat \ {0}
  /\ listCtx \in Contexts /\ descCtx \in Contexts /\ formCtx \in Contexts

\* While a list is decoded, each local pointer leads to the structure that its
\* function is filling, once it has been updated: the buffer may have moved any
\* number of times since the function was called.
LocalsFollow ==
  /\ listPlace \in ValuePlaces \cup {"desc", "form", "count", "enum"} =>
       Update(listCtx, listBuf).ptr = desc
  /\ listPlace \in {"def", "val", "form"} => descCtx.ptr = desc + (at - 1)
  /\ listPlace \in RangeFields \cup {"count", "enum"} =>
       formCtx.ptr = desc + (at - 1)

\* How far what a recorded pointer leads to reaches, as its count tells.
Extent(i, f) == IF f = "form" THEN 1
                ELSE IF f = "values" THEN enumCount[i] ELSE cells[i][f]

\* Whatever the list leads to, to its last element, lies in the part of the
\* buffer that is in use.
ListInside ==
  desc # NULL =>
    /\ Inside(listBuf, desc, count)
    /\ \A i \in Props, f \in Fields :
         field[i][f] # NULL => Inside(listBuf, field[i][f], Extent(i, f))
    /\ \A i \in Props, j \in 1 .. MaxValues :
         enum[i][j] # NULL => Inside(listBuf, enum[i][j], enumCells[i][j])

\* A value is there, and has an element that can be read through its pointer.  Of
\* a property of an array type this is not so: an array with no elements leaves a
\* pointer to the end of the data.
Filled(i, f)      == field[i][f] # NULL /\ (kind[i] # "array" => cells[i][f] >= 1)
FilledEnum(i, j)  == enum[i][j] # NULL /\ (kind[i] # "array" => enumCells[i][j] >= 1)

\* A descriptor has its values, and its form has what belongs to its type.
CompleteDesc(i) ==
  /\ Filled(i, "def") /\ Filled(i, "val")
  /\ formType[i] = "range" => \A f \in RangeFields : Filled(i, f)
  /\ formType[i] = "enum"  => \A j \in 1 .. enumCount[i] : FilledEnum(i, j)

\* A list that was decoded without an error is complete.
ListComplete ==
  listPlace = "decoded" => \A i \in 1 .. count : CompleteDesc(i)

\* When the buffer moves, every pointer that was recorded moves with it: it
\* keeps its distance from the start of the buffer as long as the list is kept.
ListFollows ==
  [][desc # NULL /\ desc' # NULL =>
       /\ desc' - listBuf'.data = desc - listBuf.data
       /\ \A i \in Props, f \in Fields :
            field[i][f] # NULL =>
              field'[i][f] - listBuf'.data = field[i][f] - listBuf.data
       /\ \A i \in Props, j \in 1 .. MaxValues :
            enum[i][j] # NULL =>
              enum'[i][j] - listBuf'.data = enum[i][j] - listBuf.data]_listVars

-----------------------------------------------------------------------------
(* The inductive invariant behind the properties.                          *)

ListDecoding == ValuePlaces \cup {"desc", "form", "count", "enum"}

\* The callback finds every pointer that was recorded.
Recorded ==
  /\ \A i \in Props, f \in Fields : field[i][f] # NULL => Walks(i, f)
  /\ \A i \in Props, j \in 1 .. MaxValues : enum[i][j] # NULL => WalksValue(i, j)

\* The locals that are used next are up to date.
LocalsFresh ==
  /\ listPlace = "desc" => listCtx.prev = listBuf.data
  /\ listPlace \in {"def", "val", "form"} => descCtx.prev = listBuf.data
  /\ listPlace \in RangeFields \cup {"count", "enum"} => formCtx.prev = listBuf.data

\* What is decoded of a list, and what is not yet.
Progress ==
  /\ listPlace # "none" => listBuf.data \in Bases
  /\ listPlace \in {"none", "empty"} => desc = NULL
  /\ listPlace \notin ListDecoding => at = 1
  /\ listPlace \in ListDecoding =>
       /\ desc # NULL /\ at <= count
       /\ \A i \in Props : i < at => CompleteDesc(i)
       /\ \A i \in Props : i > at => field[i]["form"] = NULL /\ formType[i] = "none"
       /\ listPlace \in {"desc", "def", "val", "form"} =>
            field[at]["form"] = NULL /\ formType[at] = "none"
       /\ listPlace \notin {"desc", "def"} => Filled(at, "def")
       /\ listPlace \notin {"desc", "def", "val"} => Filled(at, "val")
       /\ listPlace \in RangeFields =>
            formType[at] = "range" /\ field[at]["form"] # NULL
       /\ listPlace \in {"max", "step"} => Filled(at, "min")
       /\ listPlace = "step" => Filled(at, "max")
       /\ listPlace \in {"count", "enum"} =>
            formType[at] = "enum" /\ field[at]["form"] # NULL
       /\ listPlace = "count" => field[at]["values"] = NULL
       /\ listPlace = "enum" =>
            /\ field[at]["values"] # NULL /\ atValue <= enumCount[at]
            /\ \A j \in 1 .. MaxValues : j < atValue => FilledEnum(at, j)

ListInv == /\ ListTypeOK /\ Recorded /\ ListInside
           /\ LocalsFollow /\ LocalsFresh
           /\ Progress /\ ListComplete

\* What the descriptor that is being decoded is still waiting for ...
Pending(place) ==
  CASE place \in {"desc", "def"} -> Fields
    [] place = "val"   -> Fields \ {"def"}
    [] place = "form"  -> Fields \ {"def", "val"}
    [] place = "min"   -> RangeFields
    [] place = "max"   -> {"max", "step"}
    [] place = "step"  -> {"step"}
    [] place = "count" -> {"values"}
    [] OTHER           -> {}

\* ... is NULL, and so are the descriptors and the values after it.
Undecoded ==
  listPlace \in ListDecoding =>
    /\ \A i \in Props, f \in Fields : i > at => field[i][f] = NULL
    /\ \A f \in Pending(listPlace) : field[at][f] = NULL
    /\ listPlace = "enum" =>
         \A j \in 1 .. MaxValues : j >= atValue => enum[at][j] = NULL
=============================================================================
