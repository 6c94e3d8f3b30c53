----------------------------- MODULE PbExchange -----------------------------
(***************************************************************************)
(* A message on its way: one program encodes it with nanopb, the bytes     *)
(* travel, and another decodes them, uses the message and releases it.     *)
(* Each action is one call of the library.  The receiver may know an older *)
(* or a newer version of the message type; the bytes may be cut short; the *)
(* output may be full; the heap of the receiver may run out; the source it *)
(* reads from may be a buffer, a device or a socket; the memory it decodes *)
(* into has held something else.                                           *)
(***************************************************************************)
EXTENDS PbEncode, PbDecode

CONSTANTS
  Samples,      \* sequence of the messages that are sent: [type, m]
  Foreign,      \* sequence of messages other libraries encoded: [type, m, bytes, text],
                \* text: what is in it for the receiver's callbacks
  ReadAs,       \* the types a receiver may know a message by
  Rooms,        \* how much of an output is missing, or spare
  Framings,     \* "plain", "delimited", "nullterminated"
  Sources,      \* pairs <<kind, framing>> of what a receiver may read
  HeapLimits,   \* how many calls of realloc succeed
  FieldReaders  \* behaviours of the receiver's field callbacks

VARIABLES
  phase,        \* "idle", "sent", "received" or "merged"
  sent,         \* the message and the outcome of pb_encode_ex
  wire,         \* the bytes that arrive
  rcv,          \* the receiver's message and the outcome of pb_decode_ex
  live          \* blocks allocated on the receiver's heap

vars == <<phase, sent, wire, rcv, live>>

Kinds == {"buffer", "device", "socket"}

Unlimited == 1000       \* room, or memory, that does not run out

\* A callback before a message takes the whole message or nothing of it.
MessageCallback(how) == [dec |-> IF how = "byte" THEN "none" ELSE how, enc |-> "none"]

\* Memory that was used for something else: every counter 1, every pointer
\* dangling.  Only the callbacks are set, as pb_decode.h asks for.
RECURSIVE UsedMemory(_, _)
UsedField(f, how) ==
  CASE f.ltype = "extension" -> <<>>
    [] f.atype = "callback"  -> [dec |-> how, enc |-> "none"]
    [] f.atype = "pointer"   -> "dangling"
    [] f.htype = "repeated"  -> <<>>
    [] IsSubmsg(f)           -> UsedMemory(f.sub, how)
    [] f.ltype \in {"bytes", "string"} -> <<1>>
    [] f.ltype = "fixed_bytes" -> [i \in 1 .. f.size |-> 0]
    [] OTHER -> 1

UsedMemory(type, how) ==
  Struct(Fields[type], 1, MessageCallback(how), LAMBDA f : UsedField(f, how))

\* The receiver offers the extensions it knows where the sender had some.
WithExtensions(type, m, model) ==
  LET New(x)   == [type |-> x.type, m |-> UsedMemory(x.type, "none")]
      Known(f) == [i \in DOMAIN model.data[f.slot] |-> New(model.data[f.slot][i])]
  IN  FoldLeft(LAMBDA n, f : IF f.ltype = "extension" THEN SetData(n, f, Known(f)) ELSE n,
               m, Fields[type])

Nothing == [type |-> Null, m |-> Null, framing |-> "plain", bytes |-> <<>>, ok |-> FALSE,
            room |-> 0, size |-> 0, foreign |-> FALSE, text |-> <<>>]
NoReceiver == [type |-> Null, m |-> Null, ok |-> FALSE, kind |-> "buffer", mem |-> 0,
               got |-> <<>>, how |-> "none"]

Init ==
  /\ phase = "idle" /\ sent = Nothing /\ wire = <<>> /\ rcv = NoReceiver
  /\ live = 0

-----------------------------------------------------------------------------
\* pb_encode_ex into an output of a size around the one that is needed.  full:
\* where the space ends, in the buffer (max_size) or at the device behind it.
Encode(s, framing, spare, full) ==
  LET Outcome(e) == pb_encode_ex(e, s.type, s.m, framing)
      Output(room) ==
        IF full = "buffer" THEN pb_ostream_from_buffer(room, Unlimited)
                           ELSE pb_ostream_from_buffer(Unlimited, room)
  IN  /\ phase = "idle"
      /\ \E size \in {Outcome(SizingStream(Output(0))).written} :
         \E room \in {IF size + spare < 0 THEN 0 ELSE size + spare} :
         \E e \in {Outcome(Output(room))} :
           /\ sent' = [type |-> s.type, m |-> s.m, framing |-> framing, bytes |-> e.out,
                       ok |-> e.ok, room |-> room, foreign |-> FALSE, text |-> <<>>,
                       size |-> pb_get_encoded_size(s.type, s.m).written]
           /\ wire' = e.out
      /\ phase' = "sent"
      /\ UNCHANGED <<rcv, live>>

\* The bytes come from an encoder that is not nanopb's.
Import(x) ==
  /\ phase = "idle"
  /\ phase' = "sent"
  /\ sent' = [Nothing EXCEPT !.type = x.type, !.m = x.m, !.bytes = x.bytes, !.ok = TRUE,
                             !.size = Len(x.bytes), !.room = Len(x.bytes), !.foreign = TRUE,
                             !.text = x.text]
  /\ wire' = x.bytes
  /\ UNCHANGED <<rcv, live>>

\* The end of the message is lost.
Cut(n) ==
  /\ phase = "sent" /\ sent.ok /\ wire = sent.bytes
  /\ wire' = SubSeq(wire, 1, n)
  /\ UNCHANGED <<phase, sent, rcv, live>>

\* A device knows the length of what it should deliver; a socket has no limit.
StreamOf(kind, mem) ==
  Stream(wire, CASE kind = "buffer" -> Len(wire)
                 [] kind = "device" -> Len(sent.bytes)
                 [] kind = "socket" -> Unlimited, kind, live, mem)

FlagsOf(framing) == IF framing = "plain" THEN {} ELSE {framing}

Receive(type, kind, mem, how) ==
  LET m == WithExtensions(type, UsedMemory(type, how), sent.m)
  IN  /\ phase = "sent" /\ sent.ok
      /\ type \in ReadAs[sent.type] /\ <<kind, sent.framing>> \in Sources
      /\ \E d \in {IF sent.framing = "plain" THEN pb_decode(StreamOf(kind, mem), type, m)
                   ELSE pb_decode_ex(StreamOf(kind, mem), type, m, FlagsOf(sent.framing))} :
           /\ rcv' = [type |-> type, m |-> d.val, ok |-> d.ok, kind |-> kind, mem |-> mem,
                      got |-> d.got, how |-> how]
           /\ live' = d.live
      /\ phase' = "received"
      /\ UNCHANGED <<sent, wire>>

\* pb_decode_ex with PB_DECODE_NOINIT: a second message of the same type is
\* merged into the first one.
Merge(s) ==
  /\ phase = "received" /\ rcv.ok /\ s.type = rcv.type
  /\ rcv.kind = "buffer" /\ sent.framing = "plain" /\ wire = sent.bytes
  /\ \E e \in {pb_encode(pb_ostream_from_buffer(Unlimited, Unlimited), s.type, s.m)} :
       /\ e.ok
       /\ wire' = wire \o e.out
       /\ \E d \in {pb_decode_ex(pb_istream_from_buffer(e.out, live, Unlimited), s.type, rcv.m,
                                 {"noinit"})} :
            /\ rcv' = [rcv EXCEPT !.m = d.val, !.ok = d.ok]
            /\ live' = d.live
  /\ phase' = "merged"
  /\ UNCHANGED sent

VarintSize(n) == Cardinality({i \in 0 .. MaxVarint - 1 : i = 0 \/ n >= Continue^i})

\* pb_decode_ex has returned an error before it came to releasing the message:
\* its source failed while the rest of a message with a length was skipped.
\* The blocks are still in the message.
KeptOnError ==
  /\ phase = "received" /\ ~rcv.ok /\ rcv.kind # "buffer" /\ wire # sent.bytes
  /\ sent.framing = "delimited" /\ VarintSize(sent.size) <= Len(wire)

\* The application is done with the message.  After an error it takes the
\* memory for released, as docs/reference.md says, and cannot do better: where
\* not even the length arrived the message was never initialised.
Release ==
  LET d == pb_release(Stream(<<>>, 0, "buffer", live, 0), rcv.type, rcv.m)
  IN  /\ phase \in {"received", "merged"} /\ ~KeptOnError
      /\ live' = IF rcv.ok THEN d.live ELSE live
      /\ phase' = "idle" /\ sent' = Nothing /\ wire' = <<>> /\ rcv' = NoReceiver

\* What KeptOnError leaves allocated is lost until the receiver is started again.
Restart ==
  /\ KeptOnError
  /\ live' = 0
  /\ phase' = "idle" /\ sent' = Nothing /\ wire' = <<>> /\ rcv' = NoReceiver

\* What could not be encoded is not sent.
GiveUp ==
  /\ phase = "sent" /\ ~sent.ok
  /\ phase' = "idle" /\ sent' = Nothing /\ wire' = <<>>
  /\ UNCHANGED <<rcv, live>>

Next ==
  \/ \E i \in DOMAIN Samples, framing \in Framings, spare \in Rooms,
        full \in {"buffer", "device"} :
       Encode(Samples[i], framing, spare, full)
  \/ \E i \in DOMAIN Foreign : Import(Foreign[i])
  \/ \E n \in 0 .. Len(wire) - 1 : Cut(n)
  \/ \E type \in DOMAIN Types, kind \in Kinds, mem \in HeapLimits, how \in FieldReaders :
       Receive(type, kind, mem, how)
  \/ \E i \in DOMAIN Samples : Merge(Samples[i])
  \/ Release
  \/ Restart
  \/ GiveUp

Spec == Init /\ [][Next]_vars

-----------------------------------------------------------------------------
(* What the properties compare *)

\* Whether the field has a value in m.
Present(f, m) ==
  CASE f.htype = "oneof"    -> PSize(f, m) = f.tag
    [] f.htype = "repeated" -> PSize(f, m) > 0
    [] f.htype = "optional" /\ f.sized -> PSize(f, m) = 1
    [] OTHER -> TRUE

\* The receiver's callback took the message before it could be decoded.
TakenByCallback(f, m) ==
  f.ltype = "submsg_w_cb" /\ m.data[CallbackSlot(f)].dec = "all"

\* The same content: presence, and the values that are present.
RECURSIVE SameField(_, _, _)
SameValue(f, x, y) ==
  IF x = Null \/ y = Null THEN x = Null /\ y = Null
  ELSE IF IsSubmsg(f) THEN \A g \in ToSet(Fields[f.sub]) : SameField(g, x, y)
  ELSE x = y

\* The values of a field as a sequence.
ValuesOf(f, m) ==
  IF f.htype = "repeated" THEN [i \in 1 .. PSize(f, m) |-> ItemAt(f, Items(f, m), i)]
                          ELSE <<m.data[f.slot]>>

SameValues(f, xs, ys) ==
  Len(xs) = Len(ys) /\ \A i \in DOMAIN xs : SameValue(f, xs[i], ys[i])

SameExtension(x, y) == SameField(pb_field_iter_begin_extension(x).field, x.m, y.m)

SameField(f, a, b) ==
  LET x == a.data[f.slot]
      y == b.data[f.slot]
  IN  CASE f.ltype = "extension"  -> \A i \in DOMAIN x : SameExtension(x[i], y[i])
        [] f.atype = "callback" -> TRUE
        [] OTHER ->
             /\ Present(f, a) <=> Present(f, b)
             /\ Present(f, a) /\ ~TakenByCallback(f, b) =>
                  SameValues(f, ValuesOf(f, a), ValuesOf(f, b))

Same(type, a, b) == \A f \in ToSet(Fields[type]) : SameField(f, a, b)

\* Blocks of the heap that a message holds.
RECURSIVE BlocksOf(_, _)
BlocksIn(f, v) ==
  IF v = Null THEN 0
  ELSE IF IsSubmsg(f) THEN BlocksOf(f.sub, v)
  ELSE IF f.atype = "pointer" THEN 1 ELSE 0

\* A block of its own, and those of its values.
BlocksOfField(f, m) ==
  LET v == m.data[f.slot]
      own == IF f.atype = "pointer" /\ v # Null THEN 1 ELSE 0
      inside ==
        CASE f.ltype = "extension" -> FoldLeft(LAMBDA n, x : n + BlocksOf(x.type, x.m), 0, v)
          [] f.atype = "callback" \/ v = Null -> 0
          [] IsSubmsg(f) \/ (f.htype = "repeated" /\ f.ltype \in {"bytes", "string"}) ->
               FoldLeft(LAMBDA n, x : n + BlocksIn(f, x), 0, ValuesOf(f, m))
          [] OTHER -> 0
  IN  IF f.htype = "oneof" /\ PSize(f, m) # f.tag THEN 0 ELSE own + inside

BlocksOf(type, m) == FoldLeft(LAMBDA n, f : n + BlocksOfField(f, m), 0, Fields[type])

\* Every array, text and number of a message lies inside its memory.
RECURSIVE Fits(_, _)
ValueFits(f, v) ==
  CASE v = Null  -> TRUE
    [] IsSubmsg(f) -> Fits(f.sub, v)
    [] f.ltype = "string"  -> f.atype = "pointer" \/ Len(v) < f.size
    [] f.ltype = "bytes"   -> f.atype = "pointer" \/ Len(v) + BytesOffset <= f.size
    [] f.ltype = "uvarint" -> v < 2^(f.size * ByteBits)
    [] f.ltype \in {"varint", "svarint"} -> Signed(v, f.size * ByteBits) = v
    [] OTHER -> TRUE

FieldFits(f, m) ==
  LET v     == m.data[f.slot]
      items == IF f.atype = "pointer" THEN v.items ELSE v
      room  == IF f.atype = "pointer" THEN v.cap ELSE f.max
  IN  CASE f.ltype = "extension" -> \A i \in DOMAIN v : Fits(v[i].type, v[i].m)
        [] f.atype = "callback" \/ v = Null \/ ~Present(f, m) -> TRUE
        [] f.htype = "repeated" ->
             /\ PSize(f, m) <= room /\ Len(items) <= room
             /\ \A i \in DOMAIN items : ValueFits(f, items[i])
        [] OTHER -> ValueFits(f, v)
Fits(type, m) == \A f \in ToSet(Fields[type]) : FieldFits(f, m)

\* The bytes of a message when space does not matter.
Encoding(type, m) == pb_encode(pb_ostream_from_buffer(Unlimited, Unlimited), type, m).out

\* The sender's callbacks write the same on every call.
RECURSIVE Steady(_, _)
Steady(type, m) ==
  \A f \in ToSet(Fields[type]) :
    /\ f.atype = "callback" /\ f.ltype # "extension" =>
         m.data[f.slot].enc \in {"none", "text"}
    /\ IsSubmsg(f) /\ f.atype = "static" /\ f.htype # "repeated" /\ f.htype # "oneof" =>
         Steady(f.sub, m.data[f.slot])

\* The message can be encoded at all: its counters are right, its texts end
\* inside their arrays, what it requires is there.
Encodable(type, m) ==
  /\ Fits(type, m)
  /\ \A f \in ToSet(Fields[type]) :
       f.htype = "required" /\ f.atype = "pointer" => m.data[f.slot] # Null

\* What the receiver's callbacks should be given of message m.
RECURSIVE CallbackContent(_, _, _)
ContentOf(f, m, how) ==
  LET v == m.data[f.slot]
  IN  IF ~Present(f, m) THEN <<>>
      ELSE IF f.atype = "callback" /\ f.ltype # "extension"
      THEN IF v.enc = "none" THEN <<>> ELSE CallbackText
      ELSE IF TakenByCallback(f, [data |-> (CallbackSlot(f) :> [dec |-> how])])
      THEN Encoding(f.sub, v)
      ELSE IF IsSubmsg(f) /\ f.atype = "static" /\ f.htype # "repeated"
      THEN CallbackContent(f.sub, v, how)
      ELSE <<>>

CallbackContent(type, m, how) ==
  FoldLeft(LAMBDA got, f : got \o ContentOf(f, m, how), <<>>, Fields[type])

\* What a message holds determines its bytes: nothing in it is a callback's,
\* and no fixed array, which is written even when it was never received.
RECURSIVE Determined(_)
Determined(type) ==
  \A f \in ToSet(Fields[type]) :
    /\ ~FixedCount(f)
    /\ f.atype # "callback" \/ f.ltype = "extension"
    /\ IsSubmsg(f) => Determined(f.sub)

Tags(type)         == {f.tag : f \in ToSet(Fields[type])}
RequiredTags(type) == {f.tag : f \in {g \in ToSet(Fields[type]) : g.htype = "required"}}

Received == phase = "received"
Whole    == wire = sent.bytes
Undisturbed == Received /\ Whole /\ rcv.mem = Unlimited /\ rcv.how # "fail"

-----------------------------------------------------------------------------
(* Properties *)

\* Every number of a message that was accepted fits its field, every array
\* and text, with the end of a string, its memory: whole or cut, with all the
\* heap or little.
TypeOK ==
  /\ phase \in {"idle", "sent", "received", "merged"}
  /\ \A i \in DOMAIN wire : wire[i] \in Byte
  /\ sent.ok \in BOOLEAN /\ rcv.ok \in BOOLEAN
  /\ live \in Nat
  /\ phase \in {"received", "merged"} /\ rcv.ok => Fits(rcv.type, rcv.m)

\* An encoder that returns true has written the message, all of it, inside the
\* space it was given: as much as pb_get_encoded_size announced, and the
\* length or the terminator around it, even if a callback writes more or less
\* the second time it is asked.  It returns true whenever that fits and the
\* callbacks write the same every time.
EncodedExactly ==
  phase = "sent" /\ ~sent.foreign /\ Whole =>
    LET around == CASE sent.framing = "plain" -> 0
                    [] sent.framing = "nullterminated" -> 1
                    [] sent.framing = "delimited" -> VarintSize(sent.size)
    IN  /\ Len(sent.bytes) <= sent.room
        /\ sent.ok => Len(sent.bytes) = sent.size + around
        /\ Steady(sent.type, sent.m) =>
             (sent.ok <=> /\ Encodable(sent.type, sent.m)
                          /\ sent.size + around <= sent.room)

\* What was sent arrives, from any source, into memory that held anything.  A
\* receiver with another version of the type gets the fields both know, and the
\* others absent; a message is refused exactly when one that its receiver
\* requires is not there or one has no room in its arrays.
RoundTrip ==
  Undisturbed =>
    LET known(f) == f.tag \in Tags(sent.type)
    IN  /\ rcv.ok <=> /\ RequiredTags(rcv.type) \subseteq Tags(sent.type)
                      /\ \A f \in ToSet(Fields[rcv.type]) : known(f) => FieldFits(f, sent.m)
        /\ rcv.ok => \A f \in ToSet(Fields[rcv.type]) :
             IF known(f) THEN SameField(f, sent.m, rcv.m)
             ELSE f.htype = "optional" /\ f.sized => PSize(f, rcv.m) = 0

\* The callbacks of the receiver are given the text that the sender's callback
\* wrote, or the message it encoded, all of it, once and in one piece, however
\* many calls it takes them; of a number the bytes it travelled in, in one call.
HandedOver ==
  Undisturbed /\ rcv.ok =>
    rcv.got = IF rcv.how = "none" THEN <<>>
              ELSE IF sent.foreign
              THEN IF rcv.how = "byte" /\ sent.text # <<>> THEN <<sent.text[1]>> ELSE sent.text
              ELSE CallbackContent(sent.type, sent.m, rcv.how)

\* Whatever the bytes, the source and the heap did, the message holds every
\* block that is allocated and no other: pb_release leaves none and releases none
\* twice.  After an error none is left, with one exception, KeptOnError, where the
\* code does NOT do what docs/reference.md:792 promises ("On error return
\* pb_decode_ex will release the memory itself"): there the message holds what was
\* allocated before the error, and the application does not release it.
BlocksAccountedFor ==
  /\ phase \in {"idle", "sent"} => live = 0
  /\ phase \in {"received", "merged"} =>
       live = IF rcv.ok \/ KeptOnError THEN BlocksOf(rcv.type, rcv.m) ELSE 0

\* A message whose end is missing is refused by a device, and by a buffer when
\* it has a length.  Otherwise a buffer accepts it, its terminator missing or
\* not, only when what arrived is itself a message: then that encodes to these
\* very bytes.
CutIsSeen ==
  Received /\ rcv.ok /\ ~Whole /\ ~sent.foreign /\ rcv.kind # "socket" =>
    /\ sent.framing # "delimited" /\ rcv.kind = "buffer"
    /\ rcv.type = sent.type /\ rcv.how = "none" /\ Determined(rcv.type) =>
         Encoding(rcv.type, rcv.m) = wire

\* Decoding a second message into the first one is decoding the two in a row, if
\* the type has no array of a fixed count of its own: each call counts these anew,
\* so that the second message replaces them, where in a row they overflow.
MergeIsConcatenation ==
  phase = "merged" /\ (\A f \in ToSet(Fields[rcv.type]) : ~FixedCount(f)) =>
    With(pb_decode(pb_istream_from_buffer(wire, 0, Unlimited), rcv.type,
                   WithExtensions(rcv.type, UsedMemory(rcv.type, rcv.how), sent.m)),
         LAMBDA d : /\ rcv.ok <=> d.ok
                    /\ rcv.ok => Same(rcv.type, rcv.m, d.val))

=============================================================================
