------------------------------ MODULE PbCommon ------------------------------
(***************************************************************************)
(* Message descriptors, the field iterator and the memory of a message, as *)
(* nanopb's pb.h and pb_common.c define them.                              *)
(*                                                                         *)
(* A message type is a record of field_info (the field records at their    *)
(* word positions), submsg_info, field_count, largest_tag, the number of   *)
(* required fields, the encoded default values and whether there is a      *)
(* field callback.  A message in memory is a record of two functions on    *)
(* the slots of its type: data (what pField points at) and size (what      *)
(* pSize points at: has_, _count or which_).  The members of a oneof share *)
(* a slot.                                                                 *)
(*                                                                         *)
(* Integers are scaled: a varint byte carries GroupBits bits (7 in the     *)
(* code) and a flag, uint32_t has W32 bits and uint64_t has W64.           *)
(*                                                                         *)
(* The arms of a CASE of the nanopb modules are tried in order, as TLC     *)
(* does and as the chains of "else if" in the code are.                    *)
(***************************************************************************)
EXTENDS Integers, Sequences, SequencesExt, FiniteSets

CONSTANTS
  GroupBits,    \* bits of a number in one byte of a varint
  W32, W64,     \* widths of uint32_t and uint64_t
  SizeMax,      \* PB_SIZE_MAX
  MaxRequired,  \* PB_MAX_REQUIRED_FIELDS
  Types,        \* message types by name (pb_msgdesc_t)
  Null          \* the null pointer

\* The shape of 7, 32 and 64 that the varint code relies on: the groups of a
\* 64-bit number end one bit into the last one, those of a 32-bit number do
\* not end at a byte.
ASSUME WidthsAssumption ==
  /\ GroupBits \in Nat \ {0} /\ W32 > GroupBits /\ W64 > W32
  /\ W64 % GroupBits = 1 /\ W32 % GroupBits > 1
  /\ W32 % (GroupBits + 1) = 0 /\ W64 % (GroupBits + 1) = 0

ByteBits == GroupBits + 1
Continue == 2^GroupBits             \* 0x80; also the number of values of a group
Byte     == 0 .. 2^ByteBits - 1
Bytes32  == W32 \div ByteBits       \* sizeof(uint32_t)
Bytes64  == W64 \div ByteBits
IntSizes == {1, 2, Bytes32, Bytes64}

\* What follows a call, given its result.  With, not LET, names a result that
\* is used more than once: TLC's statistics copy a LET to each of its uses.
With(result, Use(_)) == Use(result)

\* The signed number that the low n bits of v stand for.
Signed(v, n) == LET u == v % 2^n IN IF u >= 2^(n - 1) THEN u - 2^n ELSE u

-----------------------------------------------------------------------------
(* Types of fields (pb.h) *)

PackableTypes == {"bool", "varint", "uvarint", "svarint", "fixed32", "fixed64"}
Packable(f)   == f.ltype \in PackableTypes
IsSubmsg(f)   == f.ltype \in {"submsg", "submsg_w_cb"}

\* Words of the record of a field, as PB_BIND with AUTO picks them.
FieldInfoWidth(atype, rule, ltype) ==
  IF \/ atype = "callback" \/ rule \in {"repeated", "fixarray"}
     \/ ltype \in {"bytes", "string", "submsg", "submsg_w_cb", "fixed_bytes"}
  THEN 2 ELSE 1

\* A field has a has_, a _count or a which_ of its own (size_offset is not 0).
HasSizeOffset(atype, rule) ==
  \/ rule = "oneof"
  \/ rule = "repeated" /\ atype # "callback"
  \/ rule = "optional" /\ atype = "static"

\* The record of field_info for a line of a _FIELDLIST, a tuple: its allocation,
\* its repetition rule, its type, its tag, the length of its array in the struct,
\* sizeof() of an item, and where the field is in the struct.
FieldInfo(line) ==
  LET atype == line[1]
      rule  == line[2]
  IN  [tag |-> line[4], ltype |-> line[3], atype |-> atype, slot |-> line[7], size |-> line[6],
       htype |-> CASE rule = "singular" -> "optional"
                   [] rule = "fixarray" -> "repeated"
                   [] OTHER -> rule,
       max   |-> IF rule = "fixarray" \/ (rule = "repeated" /\ atype = "static")
                 THEN line[5] ELSE 1,
       sized |-> HasSizeOffset(atype, rule),
       words |-> FieldInfoWidth(atype, rule, line[3])]

\* pb_msgdesc_t as PB_BIND builds it from the list of fields, in tag order.
MessageType(fs, subs, dflt, cb) ==
  LET Bind(r, f) == [end |-> r.end + f.words, info |-> r.info @@ (r.end :> f)]
  IN  [info |-> FoldLeft(Bind, [end |-> 0, info |-> <<>>], fs).info,
       subs |-> subs, count |-> Len(fs), dflt |-> dflt, cb |-> cb,
       largest  |-> IF fs = <<>> THEN 0 ELSE fs[Len(fs)].tag,
       required |-> Cardinality({i \in DOMAIN fs : fs[i].htype = "required"})]

\* The descriptors, as TLC evaluates them once.
MsgDesc == Types

-----------------------------------------------------------------------------
(* The iterator (pb_common.c) *)

\* Unpacks the record at the current position.  The fixed-count arrays are the
\* ones whose pSize points at the array_size of the iterator itself.
load_descriptor_values(it) ==
  LET f == it.desc.info[it.pos]
  IN  IF it.index >= it.desc.count THEN it
      ELSE [it EXCEPT !.field = f @@
              [sub |-> IF IsSubmsg(f) THEN it.desc.subs[it.submsg + 1] ELSE Null]]

FixedCount(f) ==
  ~f.sized /\ f.htype = "repeated" /\ f.atype \in {"static", "pointer"}

HasPSize(f) == f.sized \/ FixedCount(f)

advance_iterator(it) ==
  LET prev == it.desc.info[it.pos]
  IN  IF it.index + 1 >= it.desc.count
      THEN [it EXCEPT !.index = 0, !.pos = 0, !.submsg = 0, !.required = 0]
      ELSE [it EXCEPT !.index = @ + 1,
                      !.pos = @ + prev.words,
                      !.required = @ + (IF prev.htype = "required" THEN 1 ELSE 0),
                      !.submsg = @ + (IF IsSubmsg(prev) THEN 1 ELSE 0)]

EmptyType(type) == MsgDesc[type].count = 0

pb_field_iter_begin(type) ==
  load_descriptor_values(
    [desc |-> MsgDesc[type], index |-> 0, pos |-> 0, required |-> 0, submsg |-> 0,
     field |-> [tag |-> 0, ltype |-> "none"]])

\* The one field of an extension: its pSize is the found flag.
pb_field_iter_begin_extension(ext) ==
  [pb_field_iter_begin(ext.type) EXCEPT !.field.sized = TRUE]

\* Its end is the return to index 0.
pb_field_iter_next(it) == load_descriptor_values(advance_iterator(it))

\* The searches advance without loading, and load at a candidate.
LoadCandidate(it, tag) ==
  IF it.desc.info[it.pos].tag % 64 = tag % 64 THEN load_descriptor_values(it) ELSE it

RECURSIVE FindFrom(_, _, _)
FindFrom(it, tag, start) ==
  With(LoadCandidate(advance_iterator(it), tag), LAMBDA n :
    IF n.field.tag = tag /\ n.field.ltype # "extension" THEN [it |-> n, found |-> TRUE]
    ELSE IF n.index = start THEN [it |-> load_descriptor_values(n), found |-> FALSE]
    ELSE FindFrom(n, tag, start))

pb_field_iter_find(it, tag) ==
  IF it.field.tag = tag THEN [it |-> it, found |-> TRUE]
  ELSE IF tag > it.desc.largest THEN [it |-> it, found |-> FALSE]
  ELSE FindFrom(IF tag < it.field.tag THEN [it EXCEPT !.index = it.desc.count] ELSE it,
                tag, it.index)

RECURSIVE FindExtensionFrom(_, _)
FindExtensionFrom(it, start) ==
  With(advance_iterator(it), LAMBDA n :
    IF n.desc.info[n.pos].ltype = "extension" \/ n.index = start
    THEN [it |-> load_descriptor_values(n), found |-> n.desc.info[n.pos].ltype = "extension"]
    ELSE FindExtensionFrom(n, start))

pb_field_iter_find_extension(it) ==
  IF it.field.ltype = "extension" THEN [it |-> it, found |-> TRUE]
  ELSE FindExtensionFrom(it, it.index)

-----------------------------------------------------------------------------
(* Messages in memory *)

RECURSIVE FieldsFrom(_)
FieldsFrom(it) ==
  With(pb_field_iter_next(it), LAMBDA n :
    <<it.field>> \o (IF n.index = 0 THEN <<>> ELSE FieldsFrom(n)))

\* A function that TLC evaluates once and not at each application.
Table(f) == f @@ <<>>

\* The fields of a type in the order of the iterator.
Fields == Table([t \in DOMAIN Types |->
                   IF EmptyType(t) THEN <<>> ELSE FieldsFrom(pb_field_iter_begin(t))])

SetData(m, f, v) == [m EXCEPT !.data[f.slot] = v]
SetSize(m, f, n) == [m EXCEPT !.size[f.slot] = n]

\* *pSize
PSize(f, m) == IF FixedCount(f) THEN f.max ELSE m.size[f.slot]

\* A callback field holds what the application stored in pb_callback_t: its
\* behaviour when decoding and when encoding, "none" for a null function.
NoCallback == [dec |-> "none", enc |-> "none"]

\* Where the message-level callback of a "submsg_w_cb" field is stored.
CallbackSlot(f) == 0 - f.slot

SlotsOf(fs) ==
  {fs[i].slot : i \in DOMAIN fs}
    \cup {CallbackSlot(fs[i]) : i \in {j \in DOMAIN fs : fs[j].ltype = "submsg_w_cb"}}

\* The first of the fields that share slot s.
FirstAt(fs, s) ==
  fs[CHOOSE i \in DOMAIN fs :
       fs[i].slot = s /\ \A j \in DOMAIN fs : fs[j].slot = s => i <= j]

\* A message of these fields, each with a counter of n and the content Value.
Struct(fs, n, CallbackValue, Value(_)) ==
  [size |-> Table([s \in SlotsOf(fs) |-> n]),
   data |-> Table([s \in SlotsOf(fs) |->
                     IF s < 0 THEN CallbackValue ELSE Value(FirstAt(fs, s))])]

\* The memory of a message as memset to zero leaves it.
RECURSIVE ZeroStruct(_)
ZeroItem(f) ==
  CASE f.ltype = "extension"          -> <<>>
    [] f.atype = "callback"           -> NoCallback
    [] IsSubmsg(f)                    -> ZeroStruct(f.sub)
    [] f.ltype \in {"bytes", "string"} -> <<>>
    [] f.ltype = "fixed_bytes"        -> [i \in 1 .. f.size |-> 0]
    [] OTHER                          -> 0

ZeroField(f) ==
  CASE f.atype = "pointer"    -> Null
    [] f.htype = "repeated"   -> <<>>
    [] OTHER                  -> ZeroItem(f)

ZeroStruct(type) == Struct(Fields[type], 0, NoCallback, ZeroField)

\* Item i of an array: what is stored there, or memory nobody wrote.
ItemAt(f, items, i)  == IF i <= Len(items) THEN items[i] ELSE ZeroItem(f)
PutItem(items, i, v) == IF i <= Len(items) THEN [items EXCEPT ![i] = v]
                                           ELSE Append(items, v)
=============================================================================
