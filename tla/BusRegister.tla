----------------------------- MODULE BusRegister -----------------------------
(***************************************************************************)
(* Adafruit_BusIO over I2C: a register of a device as the bytes of one     *)
(* write or one read of the bus, and a slice of its bits.                  *)
(*                                                                         *)
(* A word is the set of the places of its one bits; 0xFFFFFFFF, what       *)
(* read() returns on failure, is Ones.                                     *)
(***************************************************************************)
EXTENDS Integers, Sequences

CONSTANTS
  ByteBits,    \* bits of a byte
  ValueBits,   \* bits of the uint32_t of read() and write()
  IntBits,     \* bits of an int of the board: 16 or 32
  MaxBuffer    \* maxBufferSize(): bytes of one transmission

ASSUME WidthAssumption ==
  /\ {ByteBits, ValueBits, IntBits, MaxBuffer} \subseteq Nat \ {0}
  /\ IntBits <= ValueBits

Ones == 0 .. ValueBits - 1
Low(n) == 0 .. n - 1
Words(n) == SUBSET Low(n)

Shl(word, n) == {b + n : b \in word} \cap Ones
Shr(word, n) == {b \in Ones : b + n \in word}

(* The word of an integer, in two's complement, and the integer of a word. *)
Binary(n) == {b \in Low(IntBits) : (n \div 2^b) % 2 = 1}
ToWord(n) == IF n >= 0 THEN Binary(n) ELSE Ones \ Binary(-n - 1)

(* The k-th byte on the bus of the n lowest of a value, MSBFIRST. *)
ByteAt(value, k, n) == {b \in Low(ByteBits) : b + (n - k) * ByteBits \in value}

(* Mutant of ToBuffer: the loop runs once too often. *)
ToBufferLong(value, n) == [k \in 1..(n + 1) |-> ByteAt(value, k, n + 1)]

(* write(value, numbytes) as the bytes it hands to the bus. *)
ToBuffer(value, n) == [k \in 1..n |-> ByteAt(value, k, n)]

(* The value read() makes of the bytes that came. *)
FromBuffer(buffer) ==
  UNION {Shl(buffer[k], (Len(buffer) - k) * ByteBits) : k \in DOMAIN buffer}

(* Does a transmission of n bytes come through, if the other side answers? *)
Transmits(n, acknowledged) == n <= MaxBuffer /\ acknowledged

(* Mutant of ReadValue: a register that cannot be read reads as zero. *)
ReadValueZero(came, buffer) == IF came THEN FromBuffer(buffer) ELSE {}

(* read(): -1 when the bytes did not come. *)
ReadValue(came, buffer) == IF came THEN FromBuffer(buffer) ELSE Ones

(* A slice of a register of a device: Adafruit_BusIO_RegisterBits.  The    *)
(* register itself is the slice of all bits of a value.                    *)
Slice(reg, bits, shift) == [reg |-> reg, bits |-> bits, shift |-> shift]
Whole(reg) == Slice(reg, ValueBits, 0)

(* (1 << bits) - 1 of int: a shift by its width or more leaves nothing of   *)
(* the one on boards of 16 bits (and is undefined in C).                    *)
Mask(bits) == IF bits < IntBits THEN Low(bits) ELSE Ones

(* RegisterBits.read() of a value that was read. *)
Extracted(value, slice) == Shr(value, slice.shift) \cap Mask(slice.bits)

(* Mutant of Inserted: the old bits of the slice are left in. *)
InsertedUncleared(value, slice, data) ==
  value \cup Shl(data \cap Mask(slice.bits), slice.shift)

(* RegisterBits.write(): the value read with data in the place of the slice. *)
Inserted(value, slice, data) ==
  (value \ Shl(Mask(slice.bits), slice.shift))
    \cup Shl(data \cap Mask(slice.bits), slice.shift)
=============================================================================
