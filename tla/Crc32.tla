------------------------------- MODULE Crc32 --------------------------------
(***************************************************************************)
(* The frame checksum of src/stores/file.rs: CRC-32 by table, one byte a   *)
(* step, next to a reference that divides bit by bit.                      *)
(* A 32-bit word is the set of its one bits; bytes are numbers.            *)
(***************************************************************************)
EXTENDS Naturals, SequencesExt

Bits == 0 .. 31

Words == SUBSET Bits

\* The word a loop over `items` ends with.
Loop(step(_, _), start, items) ==
  LET from[k \in 1 .. Len(items) + 1, w \in Words] ==
        IF k > Len(items) THEN w ELSE from[k + 1, step(w, items[k])]
  IN from[1, start]

Xor(a, b) == (a \ b) \cup (b \ a)

\* w >> n
ShiftRight(w, n) == {b - n : b \in {c \in w : c >= n}}

\* The one bits of a byte, and the byte of its one bits.
Word(byte) == {b \in 0 .. 7 : (byte \div 2^b) % 2 = 1}
Byte(w) == MapThenSumSet(LAMBDA b : 2^b, w)

\* Mutation: the polynomial without its term of degree 26.
PolynomialShort == {8, 9, 15, 19, 20, 21, 23, 24, 26, 27, 29, 30, 31}

\* 0xEDB88320
Polynomial == {5, 8, 9, 15, 19, 20, 21, 23, 24, 26, 27, 29, 30, 31}

\* One turn of the inner loop of crc32_table.
Divide(w) == IF 0 \in w THEN Xor(ShiftRight(w, 1), Polynomial) ELSE ShiftRight(w, 1)

Divided(w) == Loop(LAMBDA crc, j : Divide(crc), w, [j \in 1 .. 8 |-> j])

CRC32_TABLE == [byte \in 0 .. 255 |-> Divided(Word(byte))]

\* One turn of crc32's loop.
Update(crc, byte) ==
  LET index == Byte(Xor(crc \cap 0 .. 7, Word(byte)))
  IN Xor(ShiftRight(crc, 8), CRC32_TABLE[index])

\* crc32
Checksum(bytes) == Xor(Loop(Update, Bits, bytes), Bits)

-----------------------------------------------------------------------------
(* The reference: long division of the message's bits, least significant   *)
(* bit first, by the generator of IEEE 802.3.                              *)

\* The degrees of the generator's terms below x^32.
Generator == {26, 23, 22, 16, 12, 11, 10, 8, 7, 5, 4, 2, 1, 0}

DivideBit(rest, bit) ==
  LET shifted == ShiftRight(rest, 1)
  IN IF (0 \in rest) # bit THEN Xor(shifted, {31 - degree : degree \in Generator}) ELSE shifted

DivideByte(rest, byte) ==
  Loop(LAMBDA r, b : DivideBit(r, b \in Word(byte)), rest, [b \in 1 .. 8 |-> b - 1])

Remainder(bytes) == Xor(Loop(DivideByte, Bits, bytes), Bits)
=============================================================================
