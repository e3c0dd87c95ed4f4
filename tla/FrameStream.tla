----------------------------- MODULE FrameStream -----------------------------
(***************************************************************************)
(* One direction of a connection as bytes (node.rs, p2p/protocol.rs): the  *)
(* writer sends padded and encrypted frames, each a length and a payload,  *)
(* the reader reads a length, then a payload, each read with a timeout.    *)
(* The length is shown as two halves, the payload as one piece.  A timeout *)
(* drops what a read has got so far: read_exact is started anew.           *)
(***************************************************************************)
EXTENDS Integers, Sequences, Padding

CONSTANTS
  Size,      \* lengths of serialised messages
  MaxFrames  \* bound: frames sent

ASSUME FrameAssumption == Size \subseteq Nat /\ MaxFrames \in Nat

VARIABLES
  sent,      \* lengths of the messages sent
  onWire,    \* pieces written and not yet arrived
  arrived,   \* pieces that arrived and were not yet read
  lengthGot, \* pieces the read of a length has got so far
  inPayload, \* the reader has a length and reads its payload
  received,  \* lengths of the messages handled
  reader,    \* "reading", or what ended it
  cutLength  \* history: a timeout dropped half a length

frameVars == <<sent, onWire, arrived, lengthGot, inPayload, received, reader, cutLength>>

Piece == [frame : 1..MaxFrames, part : {"high", "low", "payload"}]

FrameTypeOK ==
  /\ Len(sent) <= MaxFrames
  /\ \A q \in {onWire, arrived, lengthGot} : \A i \in DOMAIN q : q[i] \in Piece
  /\ Len(lengthGot) <= 1
  /\ inPayload \in BOOLEAN /\ cutLength \in BOOLEAN
  /\ reader \in {"reading", "invalid", "timeout"}

FrameInit ==
  /\ sent = <<>> /\ received = <<>>
  /\ onWire = <<>> /\ arrived = <<>> /\ lengthGot = <<>>
  /\ inPayload = FALSE /\ cutLength = FALSE
  /\ reader = "reading"

-----------------------------------------------------------------------------

\* Frame::to_bytes.
Pieces(f) == <<[frame |-> f, part |-> "high"], [frame |-> f, part |-> "low"],
               [frame |-> f, part |-> "payload"]>>

\* send_message_to_stream with Frame::from_encrypted.
WriteFrame(n) ==
  /\ Len(sent) < MaxFrames
  /\ sent'   = Append(sent, n)
  /\ onWire' = onWire \o Pieces(Len(sent) + 1)
  /\ UNCHANGED <<arrived, lengthGot, inPayload, received, reader, cutLength>>

PieceArrives ==
  /\ onWire # <<>>
  /\ onWire'  = Tail(onWire)
  /\ arrived' = Append(arrived, Head(onWire))
  /\ UNCHANGED <<sent, lengthGot, inPayload, received, reader, cutLength>>

NextPiece == Head(arrived)

ReadHalf ==
  /\ reader = "reading" /\ ~inPayload /\ lengthGot = <<>> /\ arrived # <<>>
  /\ NextPiece.part # "payload"
  /\ lengthGot' = <<NextPiece>>
  /\ arrived'   = Tail(arrived)
  /\ UNCHANGED <<sent, onWire, inPayload, received, reader, cutLength>>

\* Four bytes are a length, wherever they lie (a payload is longer than that);
\* if they are not one frame's, what is read as a payload does not parse, or
\* never comes.
ReadLength ==
  /\ reader = "reading" /\ ~inPayload /\ arrived # <<>>
  /\ lengthGot # <<>> \/ NextPiece.part = "payload"
  /\ IF lengthGot = <<[NextPiece EXCEPT !.part = "high"]>> /\ NextPiece.part = "low"
     THEN inPayload' = TRUE /\ UNCHANGED reader
     ELSE reader' \in {"invalid", "timeout"} /\ UNCHANGED inPayload
  /\ lengthGot' = <<>>
  /\ arrived'   = Tail(arrived)
  /\ UNCHANGED <<sent, onWire, received, cutLength>>

\* Nothing comes for 30 seconds: a heartbeat, and the length is read again.
LengthTimeout ==
  /\ reader = "reading" /\ ~inPayload /\ arrived = <<>>
  /\ cutLength' = (cutLength \/ lengthGot # <<>>)
  /\ lengthGot' = <<>>
  /\ UNCHANGED <<sent, onWire, arrived, inPayload, received, reader>>

\* Deviation: a message that does not parse is skipped.
SkipsInvalid(n) == "reading"

\* Message::from_bytes: a message parses when all of it was recovered.
AfterPayload(n) == IF Unpad(Pad(n)) = n THEN "reading" ELSE "invalid"

ReadPayload ==
  /\ reader = "reading" /\ inPayload /\ arrived # <<>>
  /\ LET n == sent[NextPiece.frame] IN
     /\ reader'   = AfterPayload(n)
     /\ received' = IF Unpad(Pad(n)) = n THEN Append(received, n) ELSE received
  /\ inPayload' = FALSE
  /\ arrived'   = Tail(arrived)
  /\ UNCHANGED <<sent, onWire, lengthGot, cutLength>>

PayloadTimeout ==
  /\ reader = "reading" /\ inPayload /\ arrived = <<>>
  /\ reader' = "timeout"
  /\ UNCHANGED <<sent, onWire, arrived, lengthGot, inPayload, received, cutLength>>

FrameNext ==
  \/ \E n \in Size : WriteFrame(n)
  \/ PieceArrives \/ ReadHalf \/ ReadLength \/ LengthTimeout
  \/ ReadPayload \/ PayloadTimeout

FrameSpec == FrameInit /\ [][FrameNext]_frameVars

-----------------------------------------------------------------------------

\* What is handled is what was sent, from the first message on and without a
\* gap: a message of 64 KiB or more, whose length does not fit its prefix, and
\* a length cut in half by a timeout end the connection and are never skipped
\* or taken for something else (the reader of handle_connection).
ReceivedIsPrefix ==
  /\ Len(received) <= Len(sent)
  /\ received = SubSeq(sent, 1, Len(received))
  /\ reader = "invalid" => cutLength \/ sent[Len(received) + 1] >= Prefix

=============================================================================
