------------------------------ MODULE FramesMC ------------------------------
(* Payloads that imitate the framing around them, for TLC. *)
EXTENDS Frames

\* "123456789" has the checksum CBF43926 (the check value of the catalogue of
\* CRCs).
ASSUME CheckValueAssumption ==
  Hex(Remainder([i \in 1 .. 9 |-> 48 + i])) = <<99, 98, 102, 52, 51, 57, 50, 54>>

Empty == <<>>
JustColon == <<Colon>>
Lines == <<Newline, Newline>>

\* "0:1:2\n3:4:5"
Long == <<48, Colon, 49, Colon, 50, Newline, 51, Colon, 52, Colon, 53>>

\* A payload that is the frame of another one.
Nested == EncodeFrame(JustColon)

HardPayloads == {Empty, JustColon, Lines, Long, Nested}
=============================================================================
