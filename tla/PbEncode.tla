------------------------------ MODULE PbEncode ------------------------------
(***************************************************************************)
(* nanopb's encoder, pb_encode.c: one operator per function, from a stream *)
(* to the stream it leaves.  A stream is a record: out, the bytes that     *)
(* reached the output; written and max, bytes_written and max_size;        *)
(* sizing, a null callback; room, the bytes the output callback still      *)
(* takes before it reports an error; calls, how often the application's    *)
(* field callbacks ran; ok, whether every function so far returned true.   *)
(* A function whose predecessor failed is not called in the code: here it  *)
(* leaves the stream as it is.                                             *)
(***************************************************************************)
EXTENDS PbCommon

\* The application's callback for a field writes this text, as a field.
CONSTANT CallbackText

Fails(e) == [e EXCEPT !.ok = FALSE]

pb_ostream_from_buffer(bufsize, room) ==
  [out |-> <<>>, written |-> 0, max |-> bufsize, sizing |-> FALSE,
   room |-> room, calls |-> 0, ok |-> TRUE]

\* PB_OSTREAM_SIZING.  The callbacks it runs count like any others.
SizingStream(e) == [e EXCEPT !.sizing = TRUE, !.written = 0]

(* Mutant of pb_write: off by one, the last byte of the buffer is not used. *)
pb_write_short(e, bytes) ==
  LET n == Len(bytes)
  IN  IF ~e.ok THEN e
      ELSE IF n = 0 \/ e.sizing THEN [e EXCEPT !.written = @ + n]
      ELSE IF e.written + n >= e.max \/ n > e.room THEN Fails(e)
      ELSE [e EXCEPT !.written = @ + n, !.room = @ - n, !.out = @ \o bytes]

\* Only the count of the bytes matters to a sizing stream.
pb_write(e, bytes) ==
  LET n == Len(bytes)
  IN  IF ~e.ok THEN e
      ELSE IF n = 0 \/ e.sizing THEN [e EXCEPT !.written = @ + n]
      ELSE IF e.written + n > e.max \/ n > e.room THEN Fails(e)
      ELSE [e EXCEPT !.written = @ + n, !.room = @ - n, !.out = @ \o bytes]

\* pb_write(stream, NULL, size) of a sizing stream
CountOnly(e, size) == IF e.ok THEN [e EXCEPT !.written = @ + size] ELSE e

-----------------------------------------------------------------------------
(* Numbers *)

RECURSIVE LowGroups(_, _, _, _)
LowGroups(buf, byte, low, high) ==
  IF Len(buf) < W32 \div GroupBits /\ (low # 0 \/ high # 0)
  THEN LowGroups(Append(buf, byte + Continue), low % Continue, low \div Continue, high)
  ELSE [buf |-> buf, byte |-> byte]

RECURSIVE HighGroups(_, _, _)
HighGroups(buf, byte, high) ==
  IF high = 0 THEN Append(buf, byte)
  ELSE HighGroups(Append(buf, byte + Continue), high % Continue, high \div Continue)

\* The last group of the low half takes the first bits of the high half.
pb_encode_varint_32(e, low, high) ==
  LET l    == LowGroups(<<>>, low % Continue, low \div Continue, high)
      rest == W32 % GroupBits
      free == 2^(GroupBits - rest)
  IN  pb_write(e, IF high = 0 THEN Append(l.buf, l.byte)
                  ELSE HighGroups(l.buf, l.byte + (high % free) * 2^rest, high \div free))

pb_encode_varint(e, value) ==
  IF value < Continue THEN pb_write(e, <<value>>)
  ELSE pb_encode_varint_32(e, value % 2^W32, value \div 2^W32)

pb_encode_svarint(e, value) ==
  pb_encode_varint(e, IF value < 0 THEN 0 - 2 * value - 1 ELSE 2 * value)

\* Little-endian bytes of the low n bytes of v.
LittleEndian(v, n) ==
  [i \in 1 .. n |-> ((v % 2^(n * ByteBits)) \div 2^((i - 1) * ByteBits)) % 2^ByteBits]

pb_encode_fixed32(e, v) == pb_write(e, LittleEndian(v, Bytes32))
pb_encode_fixed64(e, v) == pb_write(e, LittleEndian(v, Bytes64))

\* Wire types: 0 varint, 1 64-bit, 2 string, 5 32-bit.
pb_encode_tag(e, wiretype, field_number) ==
  pb_encode_varint(e, field_number * 8 + wiretype)

WireType(f) ==
  CASE f.ltype \in {"bool", "varint", "uvarint", "svarint"} -> 0
    [] f.ltype = "fixed32" -> 5
    [] f.ltype = "fixed64" -> 1
    [] f.ltype \in {"bytes", "string", "submsg", "submsg_w_cb", "fixed_bytes"} -> 2

pb_encode_tag_for_field(e, f) == pb_encode_tag(e, WireType(f), f.tag)

pb_encode_string(e, buffer) == pb_write(pb_encode_varint(e, Len(buffer)), buffer)

-----------------------------------------------------------------------------
(* Encoders of one value *)

pb_enc_bool(e, v) == pb_encode_varint(e, IF v = 0 THEN 0 ELSE 1)

pb_enc_varint(e, f, v) ==
  IF f.size \notin IntSizes THEN Fails(e)
  ELSE IF f.ltype = "svarint" THEN pb_encode_svarint(e, v)
  ELSE pb_encode_varint(e, v % 2^W64)

pb_enc_fixed(e, f, v) ==
  IF f.size = Bytes32 THEN pb_encode_fixed32(e, v)
  ELSE IF f.size = Bytes64 THEN pb_encode_fixed64(e, v)
  ELSE Fails(e)

BytesOffset == 2     \* offsetof(pb_bytes_array_t, bytes)

pb_enc_bytes(e, f, v) ==
  IF v = Null THEN pb_encode_string(e, <<>>)
  ELSE IF f.atype = "static" /\ Len(v) > f.size - BytesOffset THEN Fails(e)
  ELSE pb_encode_string(e, v)

\* A string ends at its null; a static one has to end inside its array.
pb_enc_string(e, f, v) ==
  IF f.atype # "pointer" /\ (f.size = 0 \/ (v # Null /\ Len(v) > f.size - 1)) THEN Fails(e)
  ELSE pb_encode_string(e, IF v = Null THEN <<>> ELSE v)

pb_enc_fixed_length_bytes(e, v) == pb_encode_string(e, v)

\* The application's callback: "text" always writes the same field, "growing"
\* writes a longer text each time it is called, "shrinking" none after the
\* first time, "fail" returns false.
FieldCallback(e, f, how) ==
  LET text == CASE how = "growing" -> CallbackText \o [i \in 1 .. e.calls |-> 1]
                [] how = "shrinking" /\ e.calls > 0 -> <<>>
                [] OTHER -> CallbackText
      c    == [e EXCEPT !.calls = @ + 1]
  IN  CASE ~e.ok \/ how = "none" -> e
        [] how = "fail"          -> Fails(c)
        [] OTHER                 -> pb_encode_string(pb_encode_tag_for_field(c, f), text)

RECURSIVE pb_encode(_, _, _)

\* The message is encoded twice: for its length, then for its bytes, on a
\* substream that ends at the length the first pass found.
SecondPass(e, head, size, type, m) ==
  With(pb_encode([head EXCEPT !.max = size, !.written = 0], type, m), LAMBDA pass2 :
    [pass2 EXCEPT !.max = e.max, !.written = head.written + @,
                  !.ok = @ /\ pass2.written = size])

AfterLength(e, head, size, type, m) ==
  IF e.sizing THEN CountOnly(head, size)
  ELSE IF ~head.ok \/ head.written + size > head.max THEN Fails(head)
  ELSE SecondPass(e, head, size, type, m)

pb_encode_submessage(e, type, m) ==
  With(pb_encode(SizingStream(e), type, m), LAMBDA pass1 :
    IF ~pass1.ok THEN Fails(e)
    ELSE AfterLength(e, pb_encode_varint([e EXCEPT !.calls = pass1.calls], pass1.written),
                     pass1.written, type, m))

pb_enc_submessage(e, f, m, v) ==
  pb_encode_submessage(
    IF f.ltype = "submsg_w_cb" /\ HasPSize(f)
    THEN FieldCallback(e, f, m.data[CallbackSlot(f)].enc) ELSE e,
    f.sub, v)

encode_value(e, f, m, v) ==
  CASE f.ltype = "bool"        -> pb_enc_bool(e, v)
    [] f.ltype \in {"varint", "uvarint", "svarint"} -> pb_enc_varint(e, f, v)
    [] f.ltype \in {"fixed32", "fixed64"}           -> pb_enc_fixed(e, f, v)
    [] f.ltype = "bytes"       -> pb_enc_bytes(e, f, v)
    [] f.ltype = "string"      -> pb_enc_string(e, f, v)
    [] IsSubmsg(f)             -> pb_enc_submessage(e, f, m, v)
    [] f.ltype = "fixed_bytes" -> pb_enc_fixed_length_bytes(e, v)

\* v: the value at pData, Null when there is none.
encode_basic_field(e, f, m, v) ==
  IF v = Null /\ f.atype = "pointer" THEN e
  ELSE encode_value(pb_encode_tag_for_field(e, f), f, m, v)

-----------------------------------------------------------------------------
(* Encoders of one field *)

\* Bytes of an array of numbers, without its tag and length.
PackedItems(e, f, items) ==
  FoldLeft(LAMBDA s, v : IF f.ltype \in {"fixed32", "fixed64"}
                         THEN pb_enc_fixed(s, f, v) ELSE pb_enc_varint(s, f, v),
           e, items)

PackedSize(e, f, items) ==
  CASE f.ltype = "fixed32" -> Bytes32 * Len(items)
    [] f.ltype = "fixed64" -> Bytes64 * Len(items)
    [] OTHER               -> PackedItems(SizingStream(e), f, items).written

\* An entry of an array of strings or bytes in a pointer is a pointer itself.
UnpackedItem(e, f, m, v) ==
  IF v = Null THEN pb_encode_varint(pb_encode_tag_for_field(e, f), 0)
              ELSE encode_basic_field(e, f, m, v)

\* The array of a pointer field, which also keeps how much is allocated.
Items(f, m) == IF f.atype = "pointer" THEN m.data[f.slot].items ELSE m.data[f.slot]

PackedArray(e, f, items, size) ==
  With(pb_encode_varint(pb_encode_tag(e, 2, f.tag), size), LAMBDA head :
    IF e.sizing THEN CountOnly(head, size) ELSE PackedItems(head, f, items))

encode_array(e, f, m) ==
  LET count == PSize(f, m)
      items == SubSeq(Items(f, m), 1, count)
  IN  IF count = 0 THEN e
      ELSE IF f.atype # "pointer" /\ count > f.max THEN Fails(e)
      ELSE IF ~Packable(f)
      THEN FoldLeft(LAMBDA s, v : UnpackedItem(s, f, m, v), e, items)
      ELSE IF f.ltype \notin {"fixed32", "fixed64"} /\ f.size \notin IntSizes THEN Fails(e)
      ELSE PackedArray(e, f, items, PackedSize(e, f, items))

\* Whether a field of a proto3 message is left out, type being its message.
RECURSIVE pb_check_proto3_default_value(_, _, _)
pb_check_proto3_default_value(type, f, m) ==
  LET v == m.data[f.slot]
  IN  CASE f.atype = "pointer"      -> v = Null
        [] f.ltype = "extension"    -> v = <<>>
        [] f.atype = "callback"     -> IF MsgDesc[type].cb THEN v.enc = "none" ELSE TRUE
        [] f.htype = "required"     -> FALSE
        [] f.htype \in {"repeated", "oneof"} -> PSize(f, m) = 0
        [] f.sized                  -> PSize(f, m) = 0
        [] MsgDesc[type].dflt # <<>>  -> FALSE
        [] Packable(f)              -> v = 0
        [] f.ltype \in {"bytes", "string"} -> v = <<>>
        [] f.ltype = "fixed_bytes"  -> f.size = 0
        [] IsSubmsg(f) -> \A g \in ToSet(Fields[f.sub]) :
                            pb_check_proto3_default_value(f.sub, g, v)

encode_callback_field(e, type, f, m) ==
  IF MsgDesc[type].cb THEN FieldCallback(e, f, m.data[f.slot].enc) ELSE e

LeftOut(type, f, m) ==
  \/ f.htype = "oneof" /\ PSize(f, m) # f.tag
  \/ f.htype = "optional" /\ f.sized /\ PSize(f, m) = 0
  \/ /\ f.htype = "optional" /\ ~f.sized /\ f.atype = "static"
     /\ pb_check_proto3_default_value(type, f, m)

encode_field(e, type, f, m) ==
  IF LeftOut(type, f, m) THEN e
  ELSE IF f.atype = "pointer" /\ m.data[f.slot] = Null
  THEN IF f.htype = "required" THEN Fails(e) ELSE e
  ELSE IF f.atype = "callback" THEN encode_callback_field(e, type, f, m)
  ELSE IF f.htype = "repeated" THEN encode_array(e, f, m)
  ELSE encode_basic_field(e, f, m, m.data[f.slot])

-----------------------------------------------------------------------------
(* Encoders of a message *)

default_extension_encoder(e, ext) ==
  IF EmptyType(ext.type) THEN Fails(e)
  ELSE encode_field(e, ext.type, pb_field_iter_begin_extension(ext).field, ext.m)

encode_extension_field(e, f, m) ==
  FoldLeft(LAMBDA s, ext : default_extension_encoder(s, ext), e, m.data[f.slot])

pb_encode(e, type, m) ==
  FoldLeft(LAMBDA s, f : IF ~s.ok THEN s
                         ELSE IF f.ltype = "extension" THEN encode_extension_field(s, f, m)
                         ELSE encode_field(s, type, f, m),
           e, Fields[type])

\* framing: "plain", "delimited" or "nullterminated"
pb_encode_ex(e, type, m, framing) ==
  CASE framing = "plain"          -> pb_encode(e, type, m)
    [] framing = "delimited"      -> pb_encode_submessage(e, type, m)
    [] framing = "nullterminated" -> pb_write(pb_encode(e, type, m), <<0>>)

pb_get_encoded_size(type, m) ==
  pb_encode(SizingStream(pb_ostream_from_buffer(0, 0)), type, m)
=============================================================================
