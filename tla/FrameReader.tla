---------------------------- MODULE FrameReader ----------------------------
(***************************************************************************)
(* FrameReader of protocol/frames.py, the reassembly of frames from a byte  *)
(* stream, as _PanelConnection._consume drives it: feed() is called with    *)
(* whatever arrived, and an exception out of it resets the reader.          *)
(*                                                                          *)
(* feed() runs to its end before anything else, so the turns of its loops   *)
(* are steps here and nothing happens between them.  The checksum is a      *)
(* parameter: Checks(s) is xor_all(s) = 0 in the code.                      *)
(***************************************************************************)
EXTENDS Integers, Sequences

CONSTANTS HEADER,         \* 0x7B
          Foreign,        \* LEGACY_HEADER and WIRELESS_HEADER
          MinFrameLength, \* MIN_FRAME_LENGTH
          MaxByte,        \* 0xFF, which is MAX_FRAME_LENGTH too
          Checks(_),
          Streams         \* what a peer may send: [bytes, frames, at], the
                          \* frames being the genuine ones among the bytes,
                          \* and at where each of them begins

Byte == 0..MaxByte

ASSUME ByteAssumption == /\ MaxByte \in Nat
                         /\ HEADER \in Byte /\ Foreign \subseteq Byte \ {HEADER}
ASSUME LengthAssumption == MinFrameLength \in 2..MaxByte
ASSUME StreamAssumption ==
  \A s \in Streams : /\ s.bytes \in Seq(Byte)
                     /\ s.frames \in Seq(Seq(Byte)) /\ s.at \in Seq(Nat)

VARIABLES
  source,  \* the stream of this connection
  pos,     \* how many of its bytes have arrived
  phase,   \* "idle", or "taking" while feed() loops
  buffer,  \* FrameReader._buffer
  checked, \* FrameReader._checked_first_byte
  dropped, \* FrameReader.dropped_bytes
  desyncs, \* FrameReader.desyncs
  refused, \* history: bytes lost to UnsupportedProtocolError and reset()
  framed,  \* history: bytes that left the buffer as frames
  out      \* the frames returned so far

vars == <<source, pos, phase, buffer, checked, dropped, desyncs, refused, framed, out>>

MaxBuffer == 4 * MaxByte

TypeOK ==
  /\ source.bytes \in Seq(Byte) /\ pos \in 0..Len(source.bytes)
  /\ phase \in {"idle", "taking"}
  /\ buffer \in Seq(Byte)
  /\ checked \in BOOLEAN
  /\ dropped \in Nat /\ desyncs \in Nat /\ refused \in Nat /\ framed \in Nat
  /\ out \in Seq(Seq(Byte))

Init ==
  /\ source \in Streams /\ pos = 0 /\ phase = "idle"
  /\ buffer = <<>> /\ checked = FALSE
  /\ dropped = 0 /\ desyncs = 0 /\ refused = 0 /\ framed = 0 /\ out = <<>>

-----------------------------------------------------------------------------
(* Where frames begin. *)

\* The last byte of a frame that begins at position i of s, and its bytes.
EndFrom(s, i) == i + s[i + 1] - 1
FrameFrom(s, i) == SubSeq(s, i, EndFrom(s, i))

\* From position i, s holds a whole frame of the length it declares.
WholeFrom(s, i) == /\ i + 1 <= Len(s) /\ s[i] = HEADER
                   /\ s[i + 1] >= MinFrameLength /\ EndFrom(s, i) <= Len(s)

ValidFrom(s, i) == WholeFrom(s, i) /\ Checks(FrameFrom(s, i))

CompleteAt(i) == WholeFrom(buffer, i)
CandidateAt(i) == FrameFrom(buffer, i)
ValidAt(i) == ValidFrom(buffer, i)

\* i is the first position of the buffer, after the head, where P holds:
\* bytearray.find and _scan_for_valid_frame.
FirstHeader(i) == /\ buffer[i] = HEADER
                  /\ \A j \in 1..(i - 1) : buffer[j] # HEADER
FirstValid(i) == /\ i > 1 /\ ValidAt(i)
                 /\ \A j \in 2..(i - 1) : ~ValidAt(j)

HeadIsHeader == buffer # <<>> /\ buffer[1] = HEADER

\* The head announces more bytes than there are.
HeadIsPartial == HeadIsHeader /\ Len(buffer) >= 2 /\ buffer[2] >= MinFrameLength
                   /\ Len(buffer) < buffer[2]

-----------------------------------------------------------------------------
(* The steps of feed(). *)

\* k bytes leave the front of the buffer.
Advance(k) == buffer' = SubSeq(buffer, k + 1, Len(buffer))

\* Fault: rubbish leaves the buffer uncounted.
DropUncounted(k) ==
  /\ Advance(k)
  /\ UNCHANGED <<source, pos, phase, checked, dropped, desyncs, refused, framed, out>>

Drop(k) ==
  /\ Advance(k)
  /\ dropped' = dropped + k
  /\ UNCHANGED <<source, pos, phase, checked, desyncs, refused, framed, out>>

\* Fault: bytes that follow an unfinished frame replace it.
FeedForgets(n) ==
  /\ phase = "idle"
  /\ pos' = pos + n
  /\ buffer' = SubSeq(source.bytes, pos + 1, pos + n)
  /\ checked' = TRUE /\ phase' = "taking"
  /\ UNCHANGED <<source, dropped, desyncs, refused, framed, out>>

\* n bytes arrive.  The first byte of all may name a protocol generation that
\* is not implemented: feed() raises and _consume resets the reader.
Feed(n) ==
  /\ phase = "idle"
  /\ pos' = pos + n
  /\ IF ~checked /\ source.bytes[pos + 1] \in Foreign
       THEN /\ refused' = refused + n + Len(buffer)
            /\ buffer' = <<>> /\ checked' = FALSE
            /\ UNCHANGED phase
       ELSE /\ buffer' = buffer \o SubSeq(source.bytes, pos + 1, pos + n)
            /\ checked' = TRUE /\ phase' = "taking"
            /\ UNCHANGED refused
  /\ UNCHANGED <<source, dropped, desyncs, framed, out>>

\* No header anywhere: the whole buffer is noise.  SkipToHeader drops what
\* stands before the first one.
SkipNoise ==
  /\ phase = "taking" /\ buffer # <<>>
  /\ \A i \in 1..Len(buffer) : buffer[i] # HEADER
  /\ Drop(Len(buffer))

SkipToHeader ==
  /\ phase = "taking"
  /\ \E i \in 2..Len(buffer) : FirstHeader(i) /\ Drop(i - 1)

\* The head is a header byte of no frame: its length is impossible, or its
\* checksum fails.
DropHead ==
  /\ phase = "taking" /\ HeadIsHeader /\ Len(buffer) >= 2
  /\ buffer[2] < MinFrameLength \/ (CompleteAt(1) /\ ~ValidAt(1))
  /\ Drop(1)

\* The head is incomplete and a valid frame follows: the head is taken for a
\* phantom.
SkipPhantom ==
  /\ phase = "taking" /\ HeadIsPartial
  /\ \E i \in 2..Len(buffer) : FirstValid(i) /\ Drop(i - 1)

\* Fault: the checksum is not looked at.
TakeUnchecked ==
  /\ phase = "taking" /\ CompleteAt(1)
  /\ Advance(buffer[2])
  /\ out' = Append(out, CandidateAt(1))
  /\ framed' = framed + buffer[2]
  /\ UNCHANGED <<source, pos, phase, checked, dropped, desyncs, refused>>

TakeFrame ==
  /\ phase = "taking" /\ ValidAt(1)
  /\ Advance(buffer[2])
  /\ out' = Append(out, CandidateAt(1))
  /\ framed' = framed + buffer[2]
  /\ UNCHANGED <<source, pos, phase, checked, dropped, desyncs, refused>>

\* Fault: an incomplete head ends the loop only when it is all there is.
FinishWaits ==
  /\ phase = "taking"
  /\ buffer = <<>> \/ (HeadIsHeader /\ Len(buffer) < 2)
  /\ phase' = "idle"
  /\ UNCHANGED <<source, pos, buffer, checked, dropped, desyncs, refused, framed, out>>

\* Fault: the loop ends at the first byte that is no header.
FinishAtNoise ==
  /\ phase = "taking"
  /\ \/ ~HeadIsHeader
     \/ Len(buffer) < 2
     \/ HeadIsPartial /\ \A i \in 2..Len(buffer) : ~ValidAt(i)
  /\ phase' = "idle"
  /\ UNCHANGED <<source, pos, buffer, checked, dropped, desyncs, refused, framed, out>>

\* Nothing more can be taken; a buffer beyond the cap is abandoned.
Finish ==
  /\ phase = "taking"
  /\ \/ buffer = <<>>
     \/ HeadIsHeader /\ Len(buffer) < 2
     \/ HeadIsPartial /\ \A i \in 2..Len(buffer) : ~ValidAt(i)
  /\ phase' = "idle"
  /\ IF Len(buffer) > MaxBuffer
       THEN /\ desyncs' = desyncs + 1 /\ dropped' = dropped + Len(buffer)
            /\ buffer' = <<>>
       ELSE UNCHANGED <<desyncs, dropped, buffer>>
  /\ UNCHANGED <<source, pos, checked, refused, framed, out>>

Turn == SkipNoise \/ SkipToHeader \/ DropHead \/ SkipPhantom \/ TakeFrame \/ Finish

Next == Turn \/ \E n \in 1..(Len(source.bytes) - pos) : Feed(n)

Spec == Init /\ [][Next]_vars

\* feed() does not await: once called, its loop runs.
FairSpec == Spec /\ WF_vars(Turn)

-----------------------------------------------------------------------------
(* Properties. *)

\* Every byte that arrived is in a frame, dropped and counted, still buffered,
\* or was refused with a foreign first byte: none is lost and none counted
\* twice on the way through the loops of feed().
Conserved == pos = framed + dropped + refused + Len(buffer)

\* Between two calls of feed() less than one frame is buffered, whatever the
\* peer sends, so the cap on the buffer is never reached.
LessThanAFrame == /\ phase = "idle" => Len(buffer) < MaxByte
                  /\ desyncs = 0

\* What is returned is a frame: it begins with a header, has the length it
\* declares and its checksum holds (is_valid).
IsFrame(f) == /\ Len(f) >= MinFrameLength /\ f[1] = HEADER /\ f[2] = Len(f)
              /\ Checks(f)
OnlyFramesComeOut == \A i \in 1..Len(out) : IsFrame(out[i])

AllArrived == phase = "idle" /\ pos = Len(source.bytes)

\* The genuine frames of a stream stand where "at" says, one after the other.
Framed(s) ==
  /\ Len(s.frames) = Len(s.at)
  /\ \A k \in 1..Len(s.at) :
       /\ s.at[k] \in 1..Len(s.bytes)
       /\ ValidFrom(s.bytes, s.at[k]) /\ s.frames[k] = FrameFrom(s.bytes, s.at[k])
       /\ \A j \in 1..(k - 1) : EndFrom(s.bytes, s.at[j]) < s.at[k]

\* A quiet stream does not begin with a foreign header, and nothing in it could
\* be taken for a frame but its genuine frames, and what begins in one of them
\* and ends behind it.  Header bytes in the noise or in a frame are no matter.
Quiet(s) ==
  /\ Framed(s)
  /\ s.bytes # <<>> => s.bytes[1] \notin Foreign
  /\ \A i \in 1..Len(s.bytes) :
       ValidFrom(s.bytes, i) =>
         \E k \in 1..Len(s.at) :
           \/ i = s.at[k]
           \/ /\ s.at[k] < i /\ i <= EndFrom(s.bytes, s.at[k])
              /\ EndFrom(s.bytes, s.at[k]) < EndFrom(s.bytes, i)

\* The genuine frames of a quiet stream come out, exactly once each and in
\* order, however the stream was cut into reads.
ExactlyTheFrames == AllArrived /\ Quiet(source) => out = source.frames

\* feed() returns.
FeedReturns == phase = "taking" ~> phase = "idle"

=============================================================================
