----------------------------- MODULE PbExchangeMC -----------------------------
(***************************************************************************)
(* Message types and messages for PbExchange: every kind of field and of   *)
(* allocation, two versions of one type, and encodings that another        *)
(* library may choose.                                                     *)
(***************************************************************************)
EXTENDS PbExchange

\* The lines of a _FIELDLIST: allocation, rule, type, tag, length of the array,
\* size of an item, slot.  TestMessage is in the repository's LoRa tests (test.proto).
NodeLines ==
  << <<"static", "required", "uvarint", 1, 1, 2, 1>>,
     <<"static", "optional", "svarint", 2, 1, Bytes32, 2>>,
     <<"static", "optional", "string",  3, 1, 3, 3>>,
     <<"static", "repeated", "varint",  4, 2, 1, 4>>,
     <<"static", "optional", "submsg",  5, 1, 8, 5>> >>
NodeDefaults == <<8, 2, 5, 0>>     \* field 2 is -3

FieldLists ==
  [test |-> << <<"static", "required", "varint", 1, 1, Bytes32, 1>> >>,
   pos  |-> << <<"static",  "required", "varint", 1, 1, 2, 1>>,
               <<"pointer", "optional", "string", 2, 1, 1, 2>> >>,
   node1 |-> NodeLines,
   \* a later version
   node2 |-> NodeLines \o
     << <<"static", "optional", "fixed32",     6, 1, Bytes32, 6>>,
        <<"static", "singular", "fixed64",     7, 1, Bytes64, 7>>,
        <<"static", "optional", "fixed_bytes", 8, 1, 2, 8>>,
        <<"static", "singular", "bool",        9, 1, 1, 9>>,
        <<"static", "required", "bytes",      10, 1, 4, 10>> >>,
   \* a version with more room
   wide |->
     << <<"static", "required", "uvarint", 1, 1, Bytes32 + Bytes32, 1>>,
        <<"static", "optional", "svarint", 2, 1, Bytes32, 2>>,
        <<"static", "optional", "string",  3, 1, 5, 3>>,
        <<"static", "repeated", "varint",  4, 4, 2, 4>>,
        <<"static", "optional", "submsg",  5, 1, 8, 5>>,
        <<"static", "optional", "fixed32", 6, 1, Bytes32, 6>> >>,
   \* everything in memory of its own
   heap |->
     << <<"pointer", "repeated", "string",  1, 1, 1, 1>>,
        <<"pointer", "repeated", "submsg",  2, 1, 8, 2>>,
        <<"pointer", "repeated", "uvarint", 3, 1, 1, 3>>,
        <<"pointer", "required", "bytes",   4, 1, 1, 4>>,
        <<"pointer", "optional", "submsg",  5, 1, 8, 5>> >>,
   \* unions: in the struct, with a callback before the message, and by pointer
   choice |->
     << <<"static", "oneof", "uvarint",     1, 1, 2, 1>>,
        <<"static", "oneof", "string",      2, 1, 3, 1>>,
        <<"static", "oneof", "submsg",      3, 1, 8, 1>>,
        <<"static", "oneof", "submsg_w_cb", 4, 1, 8, 1>> >>,
   pchoice |->
     << <<"pointer", "oneof", "string", 1, 1, 1, 1>>,
        <<"pointer", "oneof", "submsg", 2, 1, 8, 1>>,
        <<"pointer", "oneof", "varint", 3, 1, 2, 1>> >>,
   fixed |->
     << <<"static", "fixarray", "fixed32", 1, 2, Bytes32, 1>>,
        <<"static", "fixarray", "string",  2, 2, 3, 2>> >>,
   fixed1 |-> << <<"static", "fixarray", "fixed32", 1, 2, Bytes32, 1>> >>,
   \* a field with a callback, alone and inside a message
   cbk  |-> << <<"callback", "optional", "string", 1, 1, 2, 1>>,
               <<"static", "required", "bool", 2, 1, 1, 2>> >>,
   wrap |-> << <<"static", "optional", "submsg", 1, 1, 8, 1>> >>,
   \* room for extensions, and two extension fields
   open |-> << <<"static", "optional", "bool", 1, 1, 1, 1>>,
               <<"callback", "optional", "extension", 8, 1, 2, 2>> >>,
   ext10 |-> << <<"static", "optional", "fixed32", 10, 1, Bytes32, 1>> >>,
   ext11 |-> << <<"pointer", "optional", "string", 11, 1, 1, 1>> >>]

SubMessages(t) ==
  CASE t \in {"node1", "node2", "wide", "pchoice"} -> <<"pos">>
    [] t = "heap"   -> <<"pos", "pos">>
    [] t = "choice" -> <<"pos", "test">>
    [] t = "wrap"   -> <<"cbk">>
    [] OTHER        -> <<>>

SampleTypes ==
  [t \in DOMAIN FieldLists |->
     MessageType([i \in DOMAIN FieldLists[t] |-> FieldInfo(FieldLists[t][i])], SubMessages(t),
                 IF t \in {"node1", "node2", "wide"} THEN NodeDefaults ELSE <<>>,
                 t \in {"choice", "cbk", "open"})]

Versions == [t \in DOMAIN SampleTypes |->
               CASE t \in {"node1", "node2"} -> {"node1", "node2", "wide"}
                 [] t = "wide"              -> {"node1", "wide"}
                 [] OTHER                   -> {t}]

\* What a receiver may read from, and how the message is framed there.
AllSources == {"buffer", "device", "socket"} \X {"plain", "delimited", "nullterminated"}
MessageText == <<6, 11>>
Short == {-4, -1, 0}

-----------------------------------------------------------------------------
(* Messages *)

\* A message whose slots are 1, 2, ...: their counters and their contents.
M(sizes, data) == [size |-> sizes, data |-> data]
Sample(type, sizes, data) == [type |-> type, m |-> M(sizes, data)]
Block(items) == [cap |-> Len(items), items |-> items]

Here  == M(<<0, 0>>, <<5, Null>>)
There == M(<<0, 0>>, <<-9, <<7, 12>> >>)
NoPos == M(<<0, 0>>, <<0, Null>>)

OldData == <<3, -100, <<1, 2>>, <<-8, 7>>, There>>
Old     == Sample("node1", <<0, 1, 1, 2, 1>>, OldData)
New     == Sample("node2", <<0, 1, 1, 2, 1, 1, 0, 1, 0, 0>>,
                  OldData \o <<255, 40000, <<4, 0>>, 1, <<6, 0>> >>)
Wide(sizes, number, text, items) ==
  Sample("wide", sizes \o <<0>>, <<number, 0, text, items, NoPos, 0>>)

Heap  == Sample("heap", <<2, 2, 3, 0, 0>>,
                <<Block(<< <<3>>, <<>> >>), Block(<<Here, There>>), Block(<<1, 9, 15>>), <<2>>,
                  There>>)
Fixed == Sample("fixed", <<0, 0>>, << <<1, 254>>, << <<1>>, <<2, 3>> >> >>)

Fixed1 == Sample("fixed1", <<0>>, << <<7, 0>> >>)

Choice(tag, v)  == Sample("choice", (1 :> tag) @@ (-1 :> 0), (1 :> v) @@ (-1 :> NoCallback))
PChoice(tag, v) == Sample("pchoice", <<tag>>, <<v>>)
Writing(how)    == Sample("cbk", <<0, 0>>, <<[dec |-> "none", enc |-> how], 1>>)
Wrapped(how)    == Sample("wrap", <<1>>, <<Writing(how).m>>)
Open == Sample("open", <<1, 0>>, <<1, <<Sample("ext11", <<0>>, << <<5>> >>),
                                        Sample("ext10", <<1>>, <<77>>)>> >>)

SampleMessages ==
  <<Sample("test", <<0>>, <<-2>>), Old, New,
    Sample("node1", <<0, 0, 0, 0, 0>>, <<200, 0, <<>>, <<>>, NoPos>>),
    \* more items than the array holds
    Sample("node1", <<0, 0, 0, 3, 0>>, <<1, 0, <<>>, <<1, 2, 3>>, NoPos>>),
    Wide(<<0, 0, 1, 0, 0>>, 9, <<1, 2>>, <<>>), Wide(<<0, 0, 1, 0, 0>>, 9, <<1, 2, 3>>, <<>>),
    Wide(<<0, 0, 0, 3, 0>>, 9, <<>>, <<1, 2, 3>>), Wide(<<0, 0, 0, 1, 0>>, 9, <<>>, <<8>>),
    Wide(<<0, 0, 0, 0, 0>>, 256, <<>>, <<>>), Heap, Fixed, Fixed1, Open,
    Choice(1, 9), Choice(3, There), Choice(4, M(<<0>>, <<6>>)),
    PChoice(1, <<4>>), PChoice(2, There), PChoice(3, -1),
    Writing("text"), Writing("fail"), Wrapped("text"), Wrapped("growing"),
    Wrapped("shrinking")>>

-----------------------------------------------------------------------------
(* Encodings of other libraries *)

Written(e)     == e.out
Start          == pb_ostream_from_buffer(Unlimited, Unlimited)
Key(tag, wt)   == Written(pb_encode_tag(Start, wt, tag))
Varint(v)      == Written(pb_encode_varint(Start, v))
Text(tag, bs)  == Key(tag, 2) \o Varint(Len(bs)) \o bs

\* v with needless groups of 0 at its end.
Long(v) == LET b == Varint(v)
           IN  [b EXCEPT ![Len(b)] = @ + Continue] \o <<Continue, 0>>

Imported(s, bytes) == [type |-> s.type, m |-> s.m, bytes |-> bytes, text |-> <<>>]

OtherEncodings ==
  <<\* a negative number in 32 bits, a tag and a length in too many bytes
   Imported(Sample("test", <<0>>, <<-2>>), Long(8) \o Varint(2^W32 - 2)),
   \* fields backwards and repeated, the array in pieces, the message in two parts
   Imported(Old,
     Text(5, Text(2, <<7, 12>>) \o Key(1, 0) \o Varint(5)) \o Text(4, Varint(2^W64 - 8))
       \o Text(3, <<1>>) \o Key(2, 0) \o Varint(1) \o Key(4, 0) \o Varint(7)
       \o Text(5, Key(1, 0) \o Varint(2^W64 - 9)) \o Text(3, <<1, 2>>)
       \o Key(2, 0) \o Varint(199) \o Key(1, 0) \o Long(3)),
   \* an array that should be packed and is not, between strings
   Imported(Heap,
     Text(1, <<3>>) \o Key(3, 0) \o Varint(1) \o Text(2, Key(1, 0) \o Varint(5)) \o Text(1, <<>>)
       \o Key(3, 0) \o Varint(9) \o Text(4, <<2>>)
       \o Text(2, Text(2, <<7, 12>>) \o Key(1, 0) \o Varint(2^W64 - 9))
       \o Key(3, 0) \o Varint(15)
       \o Text(5, Key(1, 0) \o Varint(2^W64 - 9) \o Text(2, <<7, 12>>))),
   \* one member of a union after another
   Imported(PChoice(2, There),
     Text(1, <<4>>) \o Key(3, 0) \o Varint(1)
       \o Text(2, Key(1, 0) \o Varint(2^W64 - 9) \o Text(2, <<7, 12>>))),
   Imported(Choice(1, 9),
     Text(3, Key(1, 0) \o Varint(2^W64 - 9) \o Text(2, <<7, 12>>)) \o Key(1, 0) \o Varint(9)),
   \* a fixed array item by item, and a number where the callback expects text
   Imported(Fixed, Key(1, 5) \o <<1, 0>> \o Key(1, 5) \o <<14, 15>>
                     \o Text(2, <<1>>) \o Text(2, <<2, 3>>)),
   [Imported(Writing("text"), Key(1, 0) \o Long(9) \o Key(2, 0) \o Varint(1))
      EXCEPT !.text = Long(9)]>>
=============================================================================
