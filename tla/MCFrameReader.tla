--------------------------- MODULE MCFrameReader ---------------------------
(* Small instances of FrameReader: bytes of three bits, frames of three to   *)
(* five of them, and the checksum of the code.                               *)
EXTENDS FrameReader, Bitwise, SequencesExt

MCForeign == {2, 4}

\* xor_all, over a table: the fold evaluates its accumulator once.
XorOf == [x, y \in Byte |-> x ^^ y]
XorAll(s) == FoldLeft(LAMBDA acc, x : XorOf[acc, x], 0, s)
MCChecks(s) == XorAll(s) = 0

BuildFrame(payload) ==
  LET body == <<HEADER, Len(payload) + 3>> \o payload IN Append(body, XorAll(body))

\* Payloads with headers, lengths and foreign headers in them.
Payloads == BoundedSeq({1, 2, 3, 6}, 2)
Frames == {BuildFrame(p) : p \in Payloads}

\* The parts of a stream, of which those with the numbers "genuine" are frames.
Stream(parts, genuine) ==
  [bytes |-> FlattenSeq(parts),
   frames |-> [k \in DOMAIN genuine |-> parts[genuine[k]]],
   at |-> [k \in DOMAIN genuine |->
             1 + Len(FlattenSeq(SubSeq(parts, 1, genuine[k] - 1)))]]

\* Frames, one after the other or with noise between them and at the start.
\* The noise may have header bytes, and a frame another one inside it: not all
\* of these streams are quiet.
Noise == BoundedSeq({0, 3, 6}, 2)
FramedStreams ==
  {Stream(<<f, n, g>>, <<1, 3>>) : f, g \in Frames, n \in Noise}
    \cup {Stream(<<n, f>>, <<2>>) : n \in {<<0>>, <<3, 1>>, <<6>>, <<6, 3>>}, f \in Frames}

\* Anything at all: a few longer streams of headers and lengths, too.
ArbitraryStreams ==
  {Stream(<<s>>, <<>>) :
     s \in BoundedSeq({2, 3, 5, 6, 7}, 5) \cup BoundedSeq({3, 6, 7}, 7)}

AllStreams == FramedStreams \cup ArbitraryStreams
=============================================================================
