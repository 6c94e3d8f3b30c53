------------------------------ MODULE PbDecode ------------------------------
(***************************************************************************)
(* nanopb's decoder, pb_decode.c: one operator per function, from a stream *)
(* to the stream it leaves.  A stream is a record: in, the bytes the       *)
(* source still delivers; left, bytes_left; kind, what the source is - a   *)
(* "buffer", a callback that fails when its data ends, a "device", or one  *)
(* that also sets bytes_left to 0 at the end of its data, a "socket"; ok   *)
(* and eof, what the function returned; val, what it stored; got, the      *)
(* bytes handed to the application's callbacks.  The heap goes with it:    *)
(* live, the blocks that are allocated, and mem, the number of calls of    *)
(* realloc that still succeed.                                             *)
(***************************************************************************)
EXTENDS PbCommon

CONSTANT EnableMalloc    \* PB_ENABLE_MALLOC

Fail(d)    == [d EXCEPT !.ok = FALSE]
Give(d, v) == [d EXCEPT !.val = v]

\* What is done when a call has succeeded; old: what is stored when it has not.
Then(d, Do(_))      == IF d.ok THEN Do(d) ELSE d
OrKeep(d, old)      == IF d.ok THEN d ELSE Give(d, old)
Into(d, old, Do(_)) == IF d.ok THEN Do(d) ELSE Give(d, old)

Stream(in, left, kind, live, mem) ==
  [in |-> in, left |-> left, kind |-> kind, live |-> live, mem |-> mem,
   ok |-> TRUE, eof |-> FALSE, got |-> <<>>, val |-> 0]

pb_istream_from_buffer(buf, live, mem) == Stream(buf, Len(buf), "buffer", live, mem)

-----------------------------------------------------------------------------
(* Reading *)

\* The callback of a stream has not enough bytes: a socket that has none left
\* is at its end, one that delivers some of them has failed and lost these.
Exhausted(d) ==
  [d EXCEPT !.ok = FALSE, !.in = <<>>,
            !.left = IF d.kind = "socket" /\ d.in = <<>> THEN 0 ELSE @]

pb_read(d, n) ==
  IF n = 0 THEN Give(d, <<>>)
  ELSE IF d.left < n THEN Fail(d)
  ELSE IF Len(d.in) < n THEN Exhausted(d)
  ELSE [d EXCEPT !.in = SubSeq(@, n + 1, Len(@)), !.left = @ - n,
                 !.val = SubSeq(d.in, 1, n)]

\* pb_read with a null buffer: a callback stream is read 16 bytes at a time.
RECURSIVE SkipBytes(_, _)
SkipBytes(d, n) ==
  IF d.kind = "buffer" \/ n <= 16 THEN pb_read(d, n)
  ELSE Then(pb_read(d, 16), LAMBDA r : SkipBytes(r, n - 16))

pb_readbyte(d) ==
  IF d.left = 0 THEN Fail(d) ELSE Then(pb_read(d, 1), LAMBDA r : Give(r, r.val[1]))

Low(byte)       == byte % Continue
Continues(byte) == byte >= Continue

\* The bytes of a varint beyond W32 bits repeat the sign, or are 0.
Extends(result, b, bitpos) ==
  \/ Low(b) = 0
  \/ result >= 2^(W32 - 1) /\ b = IF bitpos < W64 - 1 THEN 2 * Continue - 1 ELSE 1

RECURSIVE Varint32From(_, _, _)
Varint32From(d, result, bitpos) ==
  Then(pb_readbyte(d), LAMBDA r :
    LET b   == r.val
        sum == IF bitpos >= W32 THEN result
               ELSE (result + Low(b) * 2^bitpos) % 2^W32
    IN  IF bitpos >= W32 /\ (bitpos >= W64 \/ ~Extends(result, b, bitpos)) THEN Fail(r)
        ELSE IF Continues(b) THEN Varint32From(r, sum, bitpos + GroupBits)
        ELSE IF bitpos \div GroupBits = W32 \div GroupBits
                /\ Low(b) >= 2^(W32 % GroupBits) THEN Fail(r)
        ELSE Give(r, sum))

(* Mutant of pb_decode_varint32_eof: the end of the data is reported in the middle of a number, too. *)
pb_decode_varint32_eof_anywhere(d) ==
  With(Then(pb_readbyte(d), LAMBDA r :
         IF Continues(r.val) THEN Varint32From(r, Low(r.val), GroupBits) ELSE r),
       LAMBDA v : [v EXCEPT !.eof = ~v.ok /\ v.left = 0])

pb_decode_varint32_eof(d) ==
  With(pb_readbyte(d), LAMBDA r :
    IF ~r.ok THEN [r EXCEPT !.eof = r.left = 0]
    ELSE IF ~Continues(r.val) THEN r
    ELSE Varint32From(r, Low(r.val), GroupBits))

pb_decode_varint32(d) == [pb_decode_varint32_eof(d) EXCEPT !.eof = FALSE]

RECURSIVE VarintFrom(_, _, _)
VarintFrom(d, result, bitpos) ==
  IF bitpos >= W64 THEN Fail(d)
  ELSE Then(pb_readbyte(d), LAMBDA r :
         LET sum == (result + Low(r.val) * 2^bitpos) % 2^W64
         IN  IF Continues(r.val) THEN VarintFrom(r, sum, bitpos + GroupBits)
             ELSE Give(r, sum))

pb_decode_varint(d) == VarintFrom(d, 0, 0)

RECURSIVE pb_skip_varint(_)
pb_skip_varint(d) ==
  Then(pb_read(d, 1), LAMBDA r : IF Continues(r.val[1]) THEN pb_skip_varint(r) ELSE r)

pb_skip_string(d) == Then(pb_decode_varint32(d), LAMBDA r : SkipBytes(r, r.val))

pb_decode_tag(d) ==
  With(pb_decode_varint32_eof(d), LAMBDA r :
    Give(r, IF r.ok THEN [tag |-> r.val \div 8, wt |-> r.val % 8] ELSE [tag |-> 0, wt |-> 0]))

(* Mutant of pb_skip_field: eight-byte fields are skipped like four-byte ones. *)
pb_skip_field_half(d, wt) ==
  CASE wt = 0 -> pb_skip_varint(d)
    [] wt = 2 -> pb_skip_string(d)
    [] wt \in {1, 5} -> SkipBytes(d, Bytes32)
    [] OTHER  -> Fail(d)

pb_skip_field(d, wt) ==
  CASE wt = 0 -> pb_skip_varint(d)
    [] wt = 1 -> SkipBytes(d, Bytes64)
    [] wt = 2 -> pb_skip_string(d)
    [] wt = 5 -> SkipBytes(d, Bytes32)
    [] OTHER  -> Fail(d)

\* The raw bytes of a number, at most as many as the longest varint has (the
\* buffer of 10 of decode_callback_field).
MaxVarint == (W64 + GroupBits - 1) \div GroupBits

RECURSIVE RawVarint(_, _)
RawVarint(d, got) ==
  IF Len(got) = MaxVarint THEN Fail(d)
  ELSE Then(pb_read(d, 1), LAMBDA r :
         IF Continues(r.val[1]) THEN RawVarint(r, got \o r.val) ELSE Give(r, got \o r.val))

read_raw_value(d, wt) ==
  CASE wt = 0 -> RawVarint(d, <<>>)
    [] wt = 1 -> pb_read(d, Bytes64)
    [] wt = 5 -> pb_read(d, Bytes32)
    [] OTHER  -> Fail(d)

\* The parent skips the length of the substream at once; both read from the
\* same source.
pb_make_string_substream(d) ==
  Then(pb_decode_varint32(d), LAMBDA r :
    IF r.left < r.val THEN Fail(r) ELSE [r EXCEPT !.left = @ - r.val])

\* r: the parent that pb_make_string_substream returned, with the size in val.
SubstreamOf(r) == [r EXCEPT !.left = r.val]

\* What is unread of the substream is skipped.  Its ok is pb_read's alone.
pb_close_string_substream(parent, sub) ==
  [SkipBytes([sub EXCEPT !.ok = TRUE], sub.left) EXCEPT !.left = parent.left, !.val = sub.val]

\* The stream after a function that ran on a substream: both have to succeed.
Rejoin(parent, sub) ==
  [pb_close_string_substream(parent, sub) EXCEPT !.ok = @ /\ sub.ok]

\* Use runs on a substream; old is stored when there is none.
InSubstream(d, old, Use(_)) ==
  Into(pb_make_string_substream(d), old, LAMBDA p :
    With(Use(SubstreamOf(p)), LAMBDA s : Rejoin(p, s)))

-----------------------------------------------------------------------------
(* The heap *)

\* ptr: the old block or Null; empty: what a new block holds.  size_t is as
\* wide as pb_size_t, as on AVR: a product beyond it is refused.
allocate_field(d, ptr, empty, data_size, array_size) ==
  IF \/ data_size = 0 \/ array_size = 0
     \/ data_size * array_size > SizeMax
     \/ d.mem = 0
  THEN Give(Fail(d), ptr)
  ELSE [d EXCEPT !.mem = @ - 1,
                 !.live = IF ptr = Null THEN @ + 1 ELSE @,
                 !.val = IF ptr = Null THEN empty ELSE ptr]

pb_free(d, ptr) == IF ptr = Null THEN d ELSE [d EXCEPT !.live = @ - 1]

RECURSIVE pb_release(_, _, _)

\* Releases the messages of an array, from item i on.
RECURSIVE ReleaseItems(_, _, _, _)
ReleaseItems(d, type, items, i) ==
  IF i > Len(items) THEN Give(d, items)
  ELSE With(pb_release(d, type, items[i]), LAMBDA r :
         ReleaseItems(r, type, [items EXCEPT ![i] = r.val], i + 1))

(* Mutant of ReleasedCount: the size of a static array cuts pointer arrays, too. *)
ReleasedCountCut(f, m) == IF PSize(f, m) > f.max THEN f.max ELSE PSize(f, m)

\* Items of an array of messages to release: its counter may be too high in a
\* static array, the others have no size to compare with.
ReleasedCount(f, m) ==
  IF f.atype = "static" /\ PSize(f, m) > f.max THEN f.max ELSE PSize(f, m)

\* What a message, or each message of an array, holds.
ReleaseInner(d, f, m) ==
  LET v == m.data[f.slot]
      n == ReleasedCount(f, m)
  IN  IF v = Null THEN Give(d, v)
      ELSE IF f.htype # "repeated" THEN pb_release(d, f.sub, v)
      ELSE IF f.atype = "static" THEN ReleaseItems(d, f.sub, SubSeq(v, 1, n), 1)
      ELSE With(ReleaseItems(d, f.sub, SubSeq(v.items, 1, n), 1), LAMBDA r :
             Give(r, [v EXCEPT !.items = r.val]))

RECURSIVE ReleaseExtensions(_, _, _)
RECURSIVE pb_release_single_field(_, _, _)
ReleaseExtensions(d, exts, i) ==
  IF i > Len(exts) THEN Give(d, exts)
  ELSE With(pb_release_single_field(d, pb_field_iter_begin_extension(exts[i]).field, exts[i].m),
            LAMBDA r : ReleaseExtensions(r, [exts EXCEPT ![i].m = r.val], i + 1))

\* The entries of an array of strings or bytes, then the field's own block.
ReleasePointer(d, f, m) ==
  LET v     == m.data[f.slot]
      items == IF v # Null /\ f.htype = "repeated" /\ f.ltype \in {"string", "bytes"}
               THEN SubSeq(v.items, 1, PSize(f, m)) ELSE <<>>
      m1    == IF f.htype = "repeated" /\ f.sized THEN SetSize(m, f, 0) ELSE m
  IN  Give(pb_free(FoldLeft(LAMBDA s, p : pb_free(s, p), d, items), v),
           SetData(m1, f, Null))

ReleaseContent(d, f, m) ==
  CASE f.ltype = "extension" -> ReleaseExtensions(d, m.data[f.slot], 1)
    [] IsSubmsg(f) /\ f.atype # "callback" -> ReleaseInner(d, f, m)
    [] OTHER -> Give(d, m.data[f.slot])

pb_release_single_field(d, f, m) ==
  IF f.htype = "oneof" /\ PSize(f, m) # f.tag THEN Give(d, m)
  ELSE With(ReleaseContent(d, f, m), LAMBDA r :
         IF f.atype = "pointer" THEN ReleasePointer(r, f, SetData(m, f, r.val))
                                ELSE Give(r, SetData(m, f, r.val)))

pb_release(d, type, m) ==
  FoldLeft(LAMBDA s, f : pb_release_single_field(s, f, s.val), Give(d, m), Fields[type])

\* The member of the union that the message held before.
pb_release_union_field(d, it, m) ==
  LET old == m.size[it.field.slot]
  IN  IF old = 0 \/ old = it.field.tag THEN Give(d, m)
      ELSE With(pb_field_iter_find(it, old), LAMBDA was :
             IF ~was.found THEN Give(Fail(d), m)
             ELSE pb_release_single_field(d, was.it.field, m))

-----------------------------------------------------------------------------
(* Decoders of one value.  old: what is at pData; they give what is there   *)
(* afterwards.  The content of a value that failed is not specified: old or *)
(* nothing.                                                                 *)

pb_decode_bool(d, old) ==
  Into(pb_decode_varint32(d), old, LAMBDA r : Give(r, IF r.val # 0 THEN 1 ELSE 0))

pb_decode_svarint(d) ==
  Then(pb_decode_varint(d), LAMBDA r :
    Give(r, IF r.val % 2 = 1 THEN 0 - (r.val \div 2) - 1 ELSE r.val \div 2))

\* A number from its little-endian bytes.
FromBytes(bytes) == FoldRight(LAMBDA b, n : b + 2^ByteBits * n, bytes, 0)

pb_decode_fixed(d, old, n) ==
  Into(pb_read(d, n), old, LAMBDA r : Give(r, FromBytes(r.val)))
pb_decode_fixed32(d, old) == pb_decode_fixed(d, old, Bytes32)
pb_decode_fixed64(d, old) == pb_decode_fixed(d, old, Bytes64)

\* The number is cut to the size of the field, stored, and then refused when
\* that changed it.
pb_dec_varint(d, f, old) ==
  Into(IF f.ltype = "svarint" THEN pb_decode_svarint(d) ELSE pb_decode_varint(d), old,
       LAMBDA r :
         LET v == IF f.ltype # "varint" THEN r.val
                  ELSE Signed(r.val, IF f.size = Bytes64 THEN W64 ELSE W32)
             clamped == IF f.ltype = "uvarint" THEN v % 2^(f.size * ByteBits)
                                               ELSE Signed(v, f.size * ByteBits)
         IN  IF f.size \notin IntSizes THEN Give(Fail(r), old)
             ELSE [r EXCEPT !.val = clamped, !.ok = (clamped = v)])

(* Mutant of DecodeText: the terminator is not counted. *)
DecodeTextUnterminated(d, f, old, limit, need) ==
  Into(pb_decode_varint32(d), old, LAMBDA r :
    LET n == r.val
    IN  IF \/ n > limit
           \/ IF f.atype = "pointer" THEN r.left < n ELSE n > f.size
        THEN Give(Fail(r), old)
        ELSE Then(IF f.atype = "pointer" THEN allocate_field(r, old, <<>>, n + need, 1) ELSE r,
                  LAMBDA a : OrKeep(pb_read(a, n), <<>>)))

\* Bytes or a string of the length the stream gives, at most limit.  need: what
\* it takes in memory beyond its bytes.
DecodeText(d, f, old, limit, need) ==
  Into(pb_decode_varint32(d), old, LAMBDA r :
    LET n == r.val
    IN  IF \/ n > limit
           \/ IF f.atype = "pointer" THEN r.left < n ELSE n + need > f.size
        THEN Give(Fail(r), old)
        ELSE Then(IF f.atype = "pointer" THEN allocate_field(r, old, <<>>, n + need, 1) ELSE r,
                  LAMBDA a : OrKeep(pb_read(a, n), <<>>)))

pb_dec_bytes(d, f, old)  == DecodeText(d, f, old, SizeMax, 2)
pb_dec_string(d, f, old) == DecodeText(d, f, old, 2^W32 - 2, 1)

pb_dec_fixed_length_bytes(d, f, old) ==
  Into(pb_decode_varint32(d), old, LAMBDA r :
    IF r.val = 0 THEN Give(r, [i \in 1 .. f.size |-> 0])
    ELSE IF r.val # f.size THEN Give(Fail(r), old)
    ELSE OrKeep(pb_read(r, f.size), old))

\* The application's callback: "all" takes what is left of the stream, "byte"
\* one byte a call, "fail" returns false.
FieldDecoder(d, how) ==
  IF how = "fail" THEN Fail(d)
  ELSE Then(pb_read(d, CASE how = "all" -> d.left
                         [] how = "byte" /\ d.left > 0 -> 1
                         [] OTHER -> 0),
            LAMBDA r : [r EXCEPT !.got = @ \o r.val])

RECURSIVE pb_decode_inner(_, _, _, _)

\* v: the message at pData.  Its callback may consume the whole substream.
pb_dec_submessage(d, f, m, v) ==
  LET cb == f.ltype = "submsg_w_cb" /\ HasPSize(f) /\ m.data[CallbackSlot(f)].dec # "none"
      noinit == f.atype = "static" /\ f.htype # "repeated"
  IN  InSubstream(d, v, LAMBDA sub :
        With(IF cb THEN FieldDecoder(sub, m.data[CallbackSlot(f)].dec) ELSE sub, LAMBDA s :
          IF s.ok /\ ~(cb /\ s.left = 0)
          THEN pb_decode_inner(s, f.sub, v, IF noinit THEN {"noinit"} ELSE {})
          ELSE Give(s, v)))

\* 255, PB_WT_PACKED, stands for an item of a packed array.
WireTypesOf(f) ==
  CASE f.ltype \in {"bool", "varint", "uvarint", "svarint"} -> {0, 255}
    [] f.ltype = "fixed32" -> {5, 255}
    [] f.ltype = "fixed64" -> {1, 255}
    [] OTHER               -> {2}

decode_basic_field(d, wt, f, m, old) ==
  IF wt \notin WireTypesOf(f) THEN Give(Fail(d), old)
  ELSE CASE f.ltype = "bool"        -> pb_decode_bool(d, old)
         [] f.ltype \in {"varint", "uvarint", "svarint"} -> pb_dec_varint(d, f, old)
         [] f.ltype = "fixed32"     -> pb_decode_fixed32(d, old)
         [] f.ltype = "fixed64"     -> pb_decode_fixed64(d, old)
         [] f.ltype = "bytes"       -> pb_dec_bytes(d, f, old)
         [] f.ltype = "string"      -> pb_dec_string(d, f, old)
         [] f.ltype = "fixed_bytes" -> pb_dec_fixed_length_bytes(d, f, old)
         [] IsSubmsg(f)             -> pb_dec_submessage(d, f, m, old)

\* The message with the content that a call has stored.
Stored(r, f, m) == Give(r, SetData(m, f, r.val))

\* The same, into the field of message m.
IntoField(d, wt, f, m) ==
  With(decode_basic_field(d, wt, f, m, m.data[f.slot]), LAMBDA r : Stored(r, f, m))

-----------------------------------------------------------------------------
(* Decoders of one field.  They give the message m with the field decoded.  *)

\* The counter of a fixed-count array is a local of pb_decode_inner in the
\* code, fixed_count_size; here it is kept where other arrays keep theirs.
Count(f, m) == m.size[f.slot]

\* Item Count(f, m) + 1 of a static array.
IntoItem(d, wt, f, m) ==
  LET i == Count(f, m) + 1
  IN  With(decode_basic_field(d, wt, f, m, ItemAt(f, m.data[f.slot], i)), LAMBDA r :
        Give(r, SetData(m, f, PutItem(m.data[f.slot], i, r.val))))

RECURSIVE PackedStatic(_, _, _)
PackedStatic(s, f, m) ==
  IF s.left = 0 \/ Count(f, m) >= f.max THEN Give(s, m)
  ELSE Then(IntoItem(s, 255, f, m), LAMBDA r :
         PackedStatic(r, f, SetSize(r.val, f, Count(f, m) + 1)))

\* An array that is full leaves the stream inside its substream.
PackedArrayOf(p, f, m) ==
  With(PackedStatic(SubstreamOf(p), f, m), LAMBDA s :
    IF s.left # 0 THEN [s EXCEPT !.ok = FALSE, !.left = p.left] ELSE Rejoin(p, s))

\* The count goes up first when items come one by one.
StaticArray(d, wt, f, m) ==
  LET n == Count(f, m) + 1
  IN  IF wt = 2 /\ Packable(f)
      THEN Into(pb_make_string_substream(d), m, LAMBDA p : PackedArrayOf(p, f, m))
      ELSE IF n > f.max THEN Give(Fail(d), SetSize(m, f, n))
      ELSE With(IntoItem(d, wt, f, m), LAMBDA r : Give(r, SetSize(r.val, f, n)))

RECURSIVE pb_field_set_to_default(_, _, _)

\* A message that becomes the member of its union is zeroed first.
StaticOneof(d, wt, f, m) ==
  Then(IF IsSubmsg(f) /\ Count(f, m) # f.tag
       THEN pb_field_set_to_default(d, f, SetData(m, f, ZeroStruct(f.sub))) ELSE Give(d, m),
       LAMBDA z : IntoField(z, wt, f, SetSize(z.val, f, f.tag)))

decode_static_field(d, wt, f, m) ==
  CASE f.htype = "required" -> IntoField(d, wt, f, m)
    [] f.htype = "optional" -> IntoField(d, wt, f, IF f.sized THEN SetSize(m, f, 1) ELSE m)
    [] f.htype = "repeated" -> StaticArray(d, wt, f, m)
    [] f.htype = "oneof"    -> StaticOneof(d, wt, f, m)

initialize_pointer_field(f, old) ==
  CASE f.ltype \in {"string", "bytes"} -> Null
    [] IsSubmsg(f) -> ZeroStruct(f.sub)
    [] OTHER -> old

AllocatedValue(d, wt, f, m) ==
  IF f.ltype \in {"string", "bytes"} THEN IntoField(d, wt, f, m)
  ELSE Into(allocate_field(d, m.data[f.slot], 0, f.size, 1), m, LAMBDA a :
         IntoField(a, wt, f, SetData(m, f, initialize_pointer_field(f, a.val))))

PointerValue(d, wt, f, m) ==
  With(IF IsSubmsg(f) /\ m.data[f.slot] # Null
       THEN pb_release_single_field(d, f, m) ELSE Give(d, m),
       LAMBDA r : AllocatedValue(r, wt, f, IF f.htype = "oneof" THEN SetSize(r.val, f, f.tag)
                                                                ELSE r.val))

\* An array in a pointer: how many items are allocated, and those written.
NewBlock == [cap |-> 0, items |-> <<>>]

Grow(d, f, m, cap) ==
  Into(allocate_field(d, m.data[f.slot], NewBlock, f.size, cap), m, LAMBDA a :
    Give(a, SetData(m, f, [a.val EXCEPT !.cap = cap])))

IntoPointerItem(d, wt, f, m) ==
  LET b == m.data[f.slot]
  IN  With(decode_basic_field(d, wt, f, m, initialize_pointer_field(f, ZeroItem(f))), LAMBDA r :
        Give(r, SetData(m, f, [b EXCEPT !.items = PutItem(b.items, Count(f, m) + 1, r.val)])))

\* The array grows by a guess of the items left, from the bytes left.
RECURSIVE PackedPointer(_, _, _, _)
PackedPointer(s, f, m, allocated) ==
  LET n      == Count(f, m)
      remain == (s.left - 1) \div f.size + 1
      more   == IF remain < SizeMax - allocated THEN allocated + remain ELSE allocated + 1
      cap    == IF n + 1 > allocated THEN more ELSE allocated
  IN  IF s.left = 0 THEN Give(s, m)
      ELSE IF n = SizeMax THEN Give(Fail(s), m)
      ELSE Then(IF n + 1 > allocated THEN Grow(s, f, m, more) ELSE Give(s, m), LAMBDA a :
             Then(IntoPointerItem(a, 255, f, a.val), LAMBDA r :
               PackedPointer(r, f, SetSize(r.val, f, n + 1), cap)))

PointerArray(d, wt, f, m) ==
  LET n == Count(f, m)
  IN  IF wt = 2 /\ Packable(f)
      THEN InSubstream(d, m, LAMBDA s : PackedPointer(s, f, m, n))
      ELSE IF n = SizeMax THEN Give(Fail(d), m)
      ELSE Then(Grow(d, f, m, n + 1), LAMBDA a :
             With(IntoPointerItem(a, wt, f, a.val), LAMBDA r :
               Give(r, SetSize(r.val, f, n + 1))))

decode_pointer_field(d, wt, f, m) ==
  IF ~EnableMalloc THEN Give(Fail(d), m)
  ELSE IF f.htype = "repeated" THEN PointerArray(d, wt, f, m)
  ELSE PointerValue(d, wt, f, m)

(* Mutant of CallbackRounds: the callback is called once. *)
CallbackOnce(s, how) == FieldDecoder(s, how)

\* The callback is called again as long as it consumes something.
RECURSIVE CallbackRounds(_, _)
CallbackRounds(s, how) ==
  With(FieldDecoder(s, how), LAMBDA r :
    IF r.ok /\ r.left > 0 /\ r.left < s.left THEN CallbackRounds(r, how) ELSE r)

\* A number is handed over as a stream of its raw bytes.
RawBytes(raw) == [raw EXCEPT !.in = raw.val, !.left = Len(raw.val), !.kind = "buffer"]

CallbackOnRaw(raw, how) ==
  With(FieldDecoder(RawBytes(raw), how), LAMBDA v : [raw EXCEPT !.ok = v.ok, !.got = v.got])

\* A callback that fails leaves the stream inside its substream.
CallbackOnText(p, how) ==
  With(CallbackRounds(SubstreamOf(p), how), LAMBDA s :
    IF s.ok THEN Rejoin(p, s) ELSE [s EXCEPT !.left = p.left])

decode_callback_field(d, wt, desc, f, m) ==
  LET how == m.data[f.slot].dec
  IN  Give(IF ~desc.cb THEN pb_skip_field(d, wt)
           ELSE IF wt = 2
           THEN Then(pb_make_string_substream(d), LAMBDA p : CallbackOnText(p, how))
           ELSE Then(read_raw_value(d, wt), LAMBDA raw : CallbackOnRaw(raw, how)),
           m)

RECURSIVE decode_field(_, _, _, _)
decode_field(d, wt, it, m) ==
  LET f == it.field
  IN  Then(IF EnableMalloc /\ f.htype = "oneof"
           THEN pb_release_union_field(d, it, m) ELSE Give(d, m),
           LAMBDA u :
             CASE f.atype = "static"   -> decode_static_field(u, wt, f, u.val)
               [] f.atype = "pointer"  -> decode_pointer_field(u, wt, f, u.val)
               [] f.atype = "callback" -> decode_callback_field(u, wt, it.desc, f, u.val))

-----------------------------------------------------------------------------
(* Extensions *)

default_extension_decoder(d, ext, tag, wt) ==
  IF EmptyType(ext.type) THEN Give(Fail(d), ext)
  ELSE With(pb_field_iter_begin_extension(ext), LAMBDA it :
         IF it.field.tag # tag THEN Give(d, ext)
         ELSE With(decode_field(d, wt, it, SetSize(ext.m, it.field, 1)), LAMBDA r :
                Give(r, [ext EXCEPT !.m = r.val])))

\* Each extension is asked, until one of them consumed something.
RECURSIVE decode_extension(_, _, _, _, _, _)
decode_extension(d, tag, wt, exts, i, pos) ==
  IF i > Len(exts) \/ d.left # pos THEN Give(d, exts)
  ELSE With(default_extension_decoder(d, exts[i], tag, wt), LAMBDA r :
         Into(r, [exts EXCEPT ![i] = r.val], LAMBDA n :
           decode_extension(n, tag, wt, [exts EXCEPT ![i] = n.val], i + 1, pos)))

-----------------------------------------------------------------------------
(* Default values *)

RECURSIVE pb_message_set_to_defaults(_, _, _)

RECURSIVE ExtensionDefaults(_, _, _)
ExtensionDefaults(d, exts, i) ==
  IF i > Len(exts) THEN Give(d, exts)
  ELSE With(pb_field_iter_begin_extension(exts[i]), LAMBDA it :
         Into(pb_message_set_to_defaults(d, it, SetSize(exts[i].m, it.field, 0)), exts,
              LAMBDA r : ExtensionDefaults(r, [exts EXCEPT ![i].m = r.val], i + 1)))

\* A message has to be walked when something in it is not zero by default.
HasDefaults(type) ==
  MsgDesc[type].dflt # <<>> \/ MsgDesc[type].cb \/ MsgDesc[type].subs # <<>>

SubmsgDefaults(d, f, v) ==
  IF HasDefaults(f.sub) /\ ~EmptyType(f.sub)
  THEN pb_message_set_to_defaults(d, pb_field_iter_begin(f.sub), v)
  ELSE Give(d, ZeroStruct(f.sub))

pb_field_set_to_default(d, f, m) ==
  LET none == IF f.sized THEN SetSize(m, f, 0) ELSE m
      absent == IF f.htype = "optional" THEN none ELSE m
  IN  CASE f.ltype = "extension" ->
             With(ExtensionDefaults(d, m.data[f.slot], 1), LAMBDA x : Stored(x, f, m))
        [] f.atype = "callback"  -> Give(d, m)
        [] f.atype = "pointer"   ->
             Give(d, SetData(IF f.htype \in {"repeated", "oneof"} THEN none ELSE m, f, Null))
        [] f.htype \in {"repeated", "oneof"} -> Give(d, none)
        [] IsSubmsg(f) ->
             With(SubmsgDefaults(d, f, m.data[f.slot]), LAMBDA s : Stored(s, f, absent))
        [] OTHER -> Give(d, SetData(absent, f, ZeroItem(f)))

\* d: the stream of the encoded default values, t: the tag read from it.
RECURSIVE DefaultsFrom(_, _, _, _)
NextDefault(d, it, m) ==
  With(pb_field_iter_next(it), LAMBDA n :
    IF ~d.ok \/ n.index = 0 THEN Give(d, m) ELSE DefaultsFrom(d, n, d.val, m))

DefaultsFrom(d, it, t, m) ==
  Then(pb_field_set_to_default(d, it.field, m), LAMBDA z :
    IF t.tag # 0 /\ it.field.tag = t.tag
    THEN Then(decode_field(z, t.wt, it, z.val), LAMBDA v :
           NextDefault(pb_decode_tag(v), it,
                       IF it.field.sized THEN SetSize(v.val, it.field, 0) ELSE v.val))
    ELSE NextDefault(Give(z, t), it, z.val))

pb_message_set_to_defaults(d, it, m) ==
  LET dflt == [d EXCEPT !.in = it.desc.dflt, !.left = SizeMax, !.kind = "buffer"]
  IN  [Into(IF dflt.in = <<>> THEN Give(dflt, [tag |-> 0, wt |-> 0]) ELSE pb_decode_tag(dflt),
            m, LAMBDA t : DefaultsFrom(t, it, t.val, m))
         EXCEPT !.in = d.in, !.left = d.left, !.kind = d.kind]

-----------------------------------------------------------------------------
(* A message *)

Never == 2^W32     \* (uint32_t)-1: no tag reaches it

\* st: it, the iterator; seen, fields_seen; fixed, the fixed-count array that
\* is being filled ([index, slot, total], or Null); from and slot, extension_range_start
\* and where the list of extensions is.
WrongFixedCount(st, m) == st.fixed # Null /\ m.size[st.fixed.slot] # st.fixed.total

\* st: it is at the extension range, and knows where the extensions are.
AtExtensions(st, e, m) ==
  LET slot == IF e.found THEN e.it.field.slot ELSE Null
  IN  [st EXCEPT !.it = e.it, !.slot = slot,
                 !.from = IF slot = Null \/ m.data[slot] = <<>> THEN Never ELSE e.it.field.tag]

AskExtensions(d, tag, wt, st) ==
  LET exts == IF st.slot = Null THEN <<>> ELSE d.val.data[st.slot]
  IN  With(decode_extension(d, tag, wt, exts, 1, d.left), LAMBDA x :
        IF ~x.ok \/ x.left # d.left
        THEN Give(x, IF st.slot = Null THEN d.val ELSE [d.val EXCEPT !.data[st.slot] = x.val])
        ELSE Give(pb_skip_field(d, wt), d.val))

\* A tag the type does not know: an extension, or skipped.
UnknownField(d, tag, wt, st) ==
  With(IF st.from = 0 THEN AtExtensions(st, pb_field_iter_find_extension(st.it), d.val) ELSE st,
       LAMBDA at :
         [d |-> IF tag >= at.from THEN AskExtensions(d, tag, wt, at)
                ELSE Give(pb_skip_field(d, wt), d.val),
          st |-> at])

\* A fixed-count array counts from 0 whenever another field of its kind came
\* in between; it has to be complete by then.
KnownField(d, wt, st) ==
  LET it   == st.it
      f    == it.field
      m    == d.val
      new  == FixedCount(f) /\ (st.fixed = Null \/ st.fixed.index # it.index)
      m1   == IF new THEN SetSize(m, f, 0) ELSE m
      st1  == [st EXCEPT
                !.fixed = IF new THEN [index |-> it.index, slot |-> f.slot, total |-> f.max]
                                 ELSE @,
                !.seen = IF f.htype = "required" /\ it.required < MaxRequired
                         THEN @ \cup {it.required} ELSE @]
  IN  IF new /\ WrongFixedCount(st, m) THEN [d |-> Fail(d), st |-> st]
      ELSE [d |-> decode_field(d, wt, it, m1), st |-> st1]

FieldOfTag(d, t, st) ==
  With(pb_field_iter_find(st.it, t.tag), LAMBDA hit :
    IF hit.found /\ hit.it.field.ltype # "extension"
    THEN KnownField(d, t.wt, [st EXCEPT !.it = hit.it])
    ELSE UnknownField(d, t.tag, t.wt, [st EXCEPT !.it = hit.it]))

RECURSIVE FieldsOfStream(_, _, _)
FieldsOfStream(d, st, flags) ==
  IF d.left = 0 THEN [d |-> d, st |-> st]
  ELSE With(pb_decode_tag(d), LAMBDA t :
         IF ~t.ok THEN [d |-> [t EXCEPT !.val = d.val, !.ok = t.eof], st |-> st]
         ELSE IF t.val.tag = 0
         THEN [d |-> [t EXCEPT !.val = d.val, !.ok = "nullterminated" \in flags], st |-> st]
         ELSE With(FieldOfTag(Give(t, d.val), t.val, st), LAMBDA n :
                IF n.d.ok THEN FieldsOfStream(n.d, n.st, flags) ELSE n))

(* Mutant of Initialized: PB_DECODE_NOINIT is ignored. *)
InitializedAlways(d, type, m, flags) ==
  IF EmptyType(type) THEN Give(d, m)
  ELSE pb_message_set_to_defaults(d, pb_field_iter_begin(type), m)

Initialized(d, type, m, flags) ==
  IF EmptyType(type) \/ "noinit" \in flags THEN Give(d, m)
  ELSE pb_message_set_to_defaults(d, pb_field_iter_begin(type), m)

FreshState(type) ==
  [it |-> pb_field_iter_begin(type), seen |-> {}, fixed |-> Null, from |-> 0, slot |-> Null]

\* Required fields beyond the MaxRequired first ones are not watched.
AllSeen(st) ==
  \A i \in 0 .. st.it.desc.required - 1 : i < MaxRequired => i \in st.seen

pb_decode_inner(d, type, m, flags) ==
  Then(Initialized(d, type, m, flags), LAMBDA d1 :
    With(FieldsOfStream(d1, FreshState(type), flags), LAMBDA r :
      IF r.d.ok /\ (WrongFixedCount(r.st, r.d.val) \/ ~AllSeen(r.st)) THEN Fail(r.d) ELSE r.d))

ReleasedOnError(d, type) ==
  IF d.ok \/ ~EnableMalloc THEN d ELSE pb_release(d, type, d.val)

pb_decode(d, type, m) == ReleasedOnError(pb_decode_inner(d, type, m, {}), type)

\* The substream is closed, and a failure of that returned, before the message
\* is released.
pb_decode_ex(d, type, m, flags) ==
  IF "delimited" \notin flags
  THEN ReleasedOnError(pb_decode_inner(d, type, m, flags), type)
  ELSE Into(pb_make_string_substream(d), m, LAMBDA p :
         With(pb_decode_inner(SubstreamOf(p), type, m, flags), LAMBDA s :
           Then(pb_close_string_substream(p, s), LAMBDA c :
             ReleasedOnError([c EXCEPT !.ok = s.ok], type))))
=============================================================================
