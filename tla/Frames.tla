------------------------------- MODULE Frames -------------------------------
(***************************************************************************)
(* The framing of src/stores/file.rs byte by byte: `crc32:len:payload\n`,  *)
(* where a payload may hold any byte, a colon, a newline or a whole frame  *)
(* included.  FileJournal counts a frame in parts, of which nothing parses *)
(* but the whole; here is what makes that so.                              *)
(***************************************************************************)
EXTENDS Crc32

CONSTANTS
  Payloads,     \* sequences of bytes
  MaxLost,      \* bound on the neighbouring bytes a power loss takes
  MaxBytes      \* bound on the file

\* What is left of a byte whose sector was never written.
Lost == 0

ASSUME PayloadsAssumption == \A p \in Payloads : p \in Seq(1 .. 255)
ASSUME LimitsAssumption == MaxLost \in 1 .. 4 /\ MaxBytes \in Nat

VARIABLES
  file,     \* the bytes in the file
  written,  \* the payloads whose frames were written whole and kept
  pending,  \* what the write under way has yet to write
  torn      \* a write was cut off, and no one has read the file since

vars == <<file, written, pending, torn>>

-----------------------------------------------------------------------------
(* Numbers as text.                                                        *)

Colon == 58
Newline == 10
Plus == 43

Digits == [d \in 0 .. 9 |-> 48 + d]
Letters == [d \in 10 .. 15 |-> 87 + d]
Capitals == [d \in 10 .. 15 |-> 55 + d]

\* The digits a byte writes, in either case; 16 is none.
HexValue(byte) ==
  LET digits == {d \in 0 .. 15 : byte \in {(Digits @@ Letters)[d], (Digits @@ Capitals)[d]}}
  IN Min(digits \cup {16})

\* {:08x}
Hex(word) ==
  [k \in 1 .. 8 |->
     LET nibble == ShiftRight(word, 4 * (8 - k)) \cap 0 .. 3
     IN (Digits @@ Letters)[Byte(nibble)]]

\* {} of a length.
Decimal(n) ==
  LET digits[k \in Nat] == IF k < 10 THEN <<Digits[k]>>
                           ELSE Append(digits[k \div 10], Digits[k % 10])
  IN digits[n]

\* What from_str_radix and parse read behind a plus sign: digits of the
\* radix, one at least.
Unsigned(field) == IF field # <<>> /\ field[1] = Plus THEN Tail(field) ELSE field

IsNumber(field, radix) == field # <<>> /\ \A i \in DOMAIN field : HexValue(field[i]) < radix

Number(field) == MapThenSumSet(LAMBDA i : HexValue(field[i]) * 10^(Len(field) - i), DOMAIN field)

\* The bits a hexadecimal field writes; beyond 31 it is no u32.
HexWord(field) ==
  UNION {{4 * (Len(field) - i) + b : b \in Word(HexValue(field[i]))} : i \in DOMAIN field}

-----------------------------------------------------------------------------
(* Frames.                                                                 *)

EncodeFrame(payload) ==
  Hex(Checksum(payload)) \o <<Colon>> \o Decimal(Len(payload)) \o <<Colon>>
    \o payload \o <<Newline>>

NoFrame == [good |-> FALSE, payload |-> <<>>, end |-> 0]

Colons(bytes, from) == {i \in from .. Len(bytes) : bytes[i] = Colon}

\* Mutation: the length and the newline are enough.
FrameBetweenUnchecked(bytes, crc_end, len_end) ==
  LET len == Unsigned(SubSeq(bytes, crc_end + 1, len_end - 1))
      newline == len_end + Number(len) + 1
  IN IF IsNumber(len, 10) /\ newline <= Len(bytes) /\ bytes[newline] = Newline
     THEN [good |-> TRUE, payload |-> SubSeq(bytes, len_end + 1, newline - 1), end |-> newline]
     ELSE NoFrame

\* The frame whose header is closed by the colons at `crc_end` and `len_end`.
FrameBetween(bytes, crc_end, len_end) ==
  LET crc == Unsigned(SubSeq(bytes, 1, crc_end - 1))
      len == Unsigned(SubSeq(bytes, crc_end + 1, len_end - 1))
      newline == len_end + Number(len) + 1
      payload == SubSeq(bytes, len_end + 1, newline - 1)
  IN IF /\ IsNumber(crc, 16) /\ HexWord(crc) \subseteq Bits
        /\ IsNumber(len, 10)
        /\ newline <= Len(bytes) /\ bytes[newline] = Newline
        /\ Checksum(payload) = HexWord(crc)
     THEN [good |-> TRUE, payload |-> payload, end |-> newline]
     ELSE NoFrame

ParseOneFrame(bytes) ==
  IF Cardinality(Colons(bytes, 1)) < 2 THEN NoFrame
  ELSE LET crc_end == Min(Colons(bytes, 1))
       IN FrameBetween(bytes, crc_end, Min(Colons(bytes, crc_end + 1)))

\* parse_frames, from a position: the payloads, and where the last good frame
\* ends.
ParseFrames(bytes) ==
  LET from[position \in 0 .. Len(bytes)] ==
        LET frame == ParseOneFrame(SubSeq(bytes, position + 1, Len(bytes)))
            rest == from[position + frame.end]
        IN IF frame.good THEN [rest EXCEPT !.payloads = <<frame.payload>> \o @]
           ELSE [payloads |-> <<>>, position |-> position]
  IN from[0]

-----------------------------------------------------------------------------
Init == file = <<>> /\ written = <<>> /\ pending = <<>> /\ torn = FALSE

\* append hands the frame to write_all, on a file just read and healed.
AppendFrame ==
  /\ pending = <<>> /\ ~ torn
  /\ \E payload \in Payloads :
       /\ Len(file) + Len(EncodeFrame(payload)) <= MaxBytes
       /\ pending' = EncodeFrame(payload)
       /\ written' = Append(written, payload)
  /\ UNCHANGED <<file, torn>>

\* write_all gets one more byte into the file.
WriteByte ==
  /\ pending # <<>>
  /\ file' = Append(file, Head(pending))
  /\ pending' = Tail(pending)
  /\ UNCHANGED <<written, torn>>

\* The write is cut off, by a death or an error.
Cut ==
  /\ pending # <<>>
  /\ pending' = <<>> /\ torn' = TRUE
  /\ written' = Front(written)
  /\ UNCHANGED file

\* Power fails before the sync: neighbouring bytes of the frame just written
\* are lost, though the file is as long as it was.
Spoil ==
  /\ pending = <<>> /\ ~ torn /\ written # <<>>
  /\ \E first \in Len(file) - Len(EncodeFrame(Last(written))) + 1 .. Len(file) :
       \E last \in first .. Min({Len(file), first + MaxLost - 1}) :
         file' = [i \in DOMAIN file |-> IF i \in first .. last THEN Lost ELSE file[i]]
  /\ written' = Front(written)
  /\ torn' = TRUE
  /\ UNCHANGED pending

\* read_and_heal cuts the file after its last good frame.
ReadAndHeal ==
  /\ pending = <<>>
  /\ file' = SubSeq(file, 1, ParseFrames(file).position)
  /\ torn' = FALSE
  /\ UNCHANGED <<written, pending>>

Next == AppendFrame \/ WriteByte \/ Cut \/ Spoil \/ ReadAndHeal

Spec == Init /\ [][Next]_vars

-----------------------------------------------------------------------------
Whole == IF pending = <<>> THEN written ELSE Front(written)

\* What parse_frames finds are the frames written whole, in order, whatever
\* bytes their payloads hold and wherever a write was cut off or lost bytes;
\* and it counts the bytes of just these, so that read_and_heal cuts the torn
\* tail and nothing else.
ParsesWhatWasWritten ==
  /\ ParseFrames(file).payloads = Whole
  /\ SubSeq(file, 1, ParseFrames(file).position) =
       FlattenSeq([i \in DOMAIN Whole |-> EncodeFrame(Whole[i])])

\* The table-driven crc32 is the division it stands for, of any bytes a file
\* has held.
ChecksumIsDivision == Checksum(file) = Remainder(file)
=============================================================================
