------------------------- MODULE FrameReaderProofs -------------------------
(***************************************************************************)
(* Proofs about FrameReader, for every stream of bytes, every way of        *)
(* cutting it into reads and every checksum.                                *)
(***************************************************************************)
EXTENDS FrameReader, SequenceTheorems, TLAPS

IInv == TypeOK /\ Conserved /\ LessThanAFrame /\ OnlyFramesComeOut

\* What the assumptions on the constants say, in numbers.
LEMMA ConstantFacts ==
  /\ MaxByte \in Nat /\ MinFrameLength \in Nat
  /\ 2 <= MinFrameLength /\ MinFrameLength <= MaxByte
  /\ MaxBuffer \in Nat /\ MaxByte <= MaxBuffer
BY ByteAssumption, LengthAssumption DEF MaxBuffer

\* A part of a sequence of bytes.
LEMMA PartOf ==
  ASSUME NEW s \in Seq(Byte), NEW i \in 1..(Len(s) + 1), NEW j \in 0..Len(s), i <= j + 1
  PROVE  /\ SubSeq(s, i, j) \in Seq(Byte)
         /\ Len(SubSeq(s, i, j)) = j - i + 1
         /\ \A k \in 1..(j - i + 1) : SubSeq(s, i, j)[k] = s[i + k - 1]
<1>1. Len(s) \in Nat
  BY LenProperties
<1>2. i \in Int /\ j \in Int /\ \A k \in i..j : s[k] \in Byte
  BY <1>1, ElementOfSeq
<1>3. QED
  BY <1>1, <1>2, SubSeqProperties

\* Dropping at most what there is keeps the reader consistent, in the middle of
\* feed().
LEMMA DropKeeps ==
  ASSUME IInv, phase = "taking", NEW k \in 1..Len(buffer), Drop(k)
  PROVE  IInv'
<1>1. Len(buffer) \in Nat
  BY LenProperties DEF IInv, TypeOK
<1>2. buffer' \in Seq(Byte) /\ Len(buffer') = Len(buffer) - k
  BY <1>1, PartOf DEF IInv, TypeOK, Drop, Advance
<1>3. TypeOK'
  BY <1>1, <1>2 DEF IInv, TypeOK, Drop
<1>4. Conserved'
  BY <1>1, <1>2 DEF IInv, TypeOK, Conserved, Drop
<1>5. LessThanAFrame'
  BY DEF IInv, LessThanAFrame, Drop
<1>6. OnlyFramesComeOut'
  BY DEF IInv, OnlyFramesComeOut, Drop
<1>7. QED
  BY <1>3, <1>4, <1>5, <1>6 DEF IInv

\* What TakeFrame returns is a frame.
LEMMA CandidateIsFrame ==
  ASSUME TypeOK, ValidAt(1)
  PROVE  /\ buffer[2] \in 1..Len(buffer)
         /\ CandidateAt(1) \in Seq(Byte)
         /\ IsFrame(CandidateAt(1))
<1>1. Len(buffer) \in Nat /\ 2 <= Len(buffer) /\ buffer[1] = HEADER
  BY LenProperties DEF TypeOK, ValidAt, ValidFrom, WholeFrom
<1>2. buffer[2] \in Nat
  <2>1. buffer[2] \in Byte
    BY <1>1, ElementOfSeq DEF TypeOK
  <2>2. QED
    BY <2>1, ConstantFacts DEF Byte
<1>3. buffer[2] >= MinFrameLength /\ buffer[2] <= Len(buffer)
  BY <1>1, <1>2 DEF ValidAt, ValidFrom, WholeFrom, EndFrom
<1>4. CandidateAt(1) = SubSeq(buffer, 1, buffer[2])
  BY <1>1, <1>2 DEF CandidateAt, FrameFrom, EndFrom
<1>5. /\ CandidateAt(1) \in Seq(Byte) /\ Len(CandidateAt(1)) = buffer[2]
      /\ \A k \in 1..buffer[2] : CandidateAt(1)[k] = buffer[k]
  <2>1. buffer[2] \in 0..Len(buffer) /\ 1 \in 1..(Len(buffer) + 1) /\ 1 <= buffer[2] + 1
    BY <1>1, <1>2, <1>3
  <2>2. /\ SubSeq(buffer, 1, buffer[2]) \in Seq(Byte)
        /\ Len(SubSeq(buffer, 1, buffer[2])) = buffer[2] - 1 + 1
        /\ \A k \in 1..(buffer[2] - 1 + 1) : SubSeq(buffer, 1, buffer[2])[k] = buffer[1 + k - 1]
    BY <2>1, PartOf DEF TypeOK
  <2>3. buffer[2] - 1 + 1 = buffer[2] /\ \A k \in 1..buffer[2] : 1 + k - 1 = k
    BY <1>2
  <2>4. QED
    BY <1>4, <2>2, <2>3
<1>6. CandidateAt(1)[1] = HEADER /\ CandidateAt(1)[2] = buffer[2]
  BY <1>1, <1>2, <1>3, <1>5, ConstantFacts
<1>7. QED
  BY <1>2, <1>3, <1>5, <1>6, ConstantFacts DEF IsFrame, ValidAt, ValidFrom, CandidateAt

\* The loops of feed() end with less than a frame in the buffer.
LEMMA FinishIsShort == ASSUME TypeOK, Finish PROVE Len(buffer) < MaxByte
<1>1. Len(buffer) \in Nat
  BY LenProperties DEF TypeOK
<1>2. CASE buffer = <<>>
  BY <1>2, EmptySeq, ConstantFacts
<1>3. CASE Len(buffer) < 2
  <2>1. CASE MaxByte >= 2
    BY <1>1, <1>3, <2>1, ConstantFacts
  <2>2. QED
    BY <2>1, ConstantFacts
<1>4. CASE HeadIsPartial
  <2>1. buffer[2] \in Byte
    BY <1>1, <1>4, ElementOfSeq DEF HeadIsPartial, TypeOK
  <2>2. QED
    BY <1>1, <1>4, <2>1, ConstantFacts DEF HeadIsPartial, Byte
<1>5. QED
  BY <1>2, <1>3, <1>4 DEF Finish

\* Every step of the reader keeps the invariant.
LEMMA StepKeeps == ASSUME IInv, [Next]_vars PROVE IInv'
<1>1. Len(buffer) \in Nat /\ Len(source.bytes) \in Nat
  BY LenProperties DEF IInv, TypeOK
<1>2. ASSUME SkipNoise
      PROVE  IInv'
  BY <1>1, <1>2, EmptySeq, DropKeeps DEF SkipNoise, IInv, TypeOK
<1>3. ASSUME SkipToHeader
      PROVE  IInv'
  <2>1. PICK i \in 2..Len(buffer) : Drop(i - 1)
    BY <1>3 DEF SkipToHeader
  <2>2. QED
    BY <1>1, <1>3, <2>1, DropKeeps DEF SkipToHeader
<1>4. ASSUME DropHead
      PROVE  IInv'
  BY <1>1, <1>4, DropKeeps DEF DropHead
<1>5. ASSUME SkipPhantom
      PROVE  IInv'
  <2>1. PICK i \in 2..Len(buffer) : Drop(i - 1)
    BY <1>5 DEF SkipPhantom
  <2>2. QED
    BY <1>1, <1>5, <2>1, DropKeeps DEF SkipPhantom
<1>6. ASSUME TakeFrame
      PROVE  IInv'
  <2>1. /\ buffer[2] \in 1..Len(buffer)
        /\ CandidateAt(1) \in Seq(Byte) /\ IsFrame(CandidateAt(1))
    BY <1>6, CandidateIsFrame DEF TakeFrame, IInv
  <2>2. buffer' \in Seq(Byte) /\ Len(buffer') = Len(buffer) - buffer[2]
    BY <1>1, <1>6, <2>1, PartOf, SMTT(30) DEF TakeFrame, Advance, IInv, TypeOK
  <2>3. out' \in Seq(Seq(Byte))
    BY <1>6, <2>1, AppendProperties DEF TakeFrame, IInv, TypeOK
  <2>4. TypeOK'
    BY <1>1, <1>6, <2>1, <2>2, <2>3 DEF TakeFrame, IInv, TypeOK
  <2>5. Conserved'
    <3>1. /\ framed' = framed + buffer[2] /\ UNCHANGED <<pos, dropped, refused>>
          /\ pos = framed + dropped + refused + Len(buffer)
          /\ framed \in Nat /\ dropped \in Nat /\ refused \in Nat /\ buffer[2] \in Nat
      BY <1>1, <1>6, <2>1 DEF TakeFrame, IInv, TypeOK, Conserved
    <3>2. framed + dropped + refused + Len(buffer)
            = (framed + buffer[2]) + dropped + refused + (Len(buffer) - buffer[2])
      BY <1>1, <3>1, SMTT(30)
    <3>3. QED
      BY <2>2, <3>1, <3>2 DEF Conserved
  <2>6. LessThanAFrame'
    BY <1>6 DEF TakeFrame, IInv, LessThanAFrame
  <2>7. OnlyFramesComeOut'
    <3>1. /\ Len(out) \in Nat /\ Len(out') = Len(out) + 1
          /\ \A i \in 1..Len(out) : out'[i] = out[i]
          /\ out'[Len(out) + 1] = CandidateAt(1)
      BY <1>6, <2>1, LenProperties, AppendProperties DEF TakeFrame, IInv, TypeOK
    <3>2. ASSUME NEW i \in 1..Len(out')
          PROVE  IsFrame(out'[i])
      <4>1. CASE i \in 1..Len(out)
        BY <3>1, <4>1 DEF IInv, OnlyFramesComeOut
      <4>2. CASE i = Len(out) + 1
        BY <2>1, <3>1, <4>2
      <4>3. QED
        BY <3>1, <3>2, <4>1, <4>2
    <3>3. QED
      BY <3>2 DEF OnlyFramesComeOut, IsFrame
  <2>8. QED
    BY <2>4, <2>5, <2>6, <2>7 DEF IInv
<1>7. ASSUME Finish
      PROVE  IInv'
  <2>1. Len(buffer) < MaxByte
    BY <1>7, FinishIsShort DEF IInv
  <2>2. UNCHANGED <<desyncs, dropped, buffer>>
    BY <1>1, <1>7, <2>1, ConstantFacts DEF Finish
  <2>3. QED
    BY <1>7, <2>1, <2>2
       DEF Finish, IInv, TypeOK, Conserved, LessThanAFrame, OnlyFramesComeOut, IsFrame
<1>8. ASSUME NEW n \in 1..(Len(source.bytes) - pos), Feed(n)
      PROVE  IInv'
  <2>1. /\ pos \in Nat /\ pos + n \in 0..Len(source.bytes) /\ n \in Nat
        /\ pos + 1 \in 1..(Len(source.bytes) + 1) /\ pos + 1 <= pos + n + 1
        /\ (pos + n) - (pos + 1) + 1 = n
    BY <1>1 DEF IInv, TypeOK
  <2>2. /\ SubSeq(source.bytes, pos + 1, pos + n) \in Seq(Byte)
        /\ Len(SubSeq(source.bytes, pos + 1, pos + n)) = n
    BY <2>1, PartOf DEF IInv, TypeOK
  <2>3. CASE ~checked /\ source.bytes[pos + 1] \in Foreign
    <3>1. buffer' = <<>> /\ buffer' \in Seq(Byte) /\ Len(buffer') = 0
      BY <1>8, <2>3, EmptySeq DEF Feed
    <3>2. /\ pos' = pos + n /\ refused' = refused + n + Len(buffer)
          /\ checked' = FALSE
          /\ UNCHANGED <<source, phase, dropped, desyncs, framed, out>>
      BY <1>8, <2>3 DEF Feed
    <3>3. TypeOK'
      <4>1. pos' \in 0..Len(source'.bytes) /\ refused' \in Nat
        BY <1>1, <2>1, <3>2 DEF IInv, TypeOK
      <4>1a. checked' \in BOOLEAN
        BY <3>2, Zenon
      <4>2. buffer' \in Seq(Byte)
        BY <3>1
      <4>3. QED
        BY <3>2, <4>1, <4>1a, <4>2 DEF IInv, TypeOK
    <3>4. Conserved'
      BY <1>1, <2>1, <3>1, <3>2 DEF IInv, TypeOK, Conserved
    <3>5. LessThanAFrame' /\ OnlyFramesComeOut'
      BY <3>1, <3>2, ConstantFacts DEF IInv, LessThanAFrame, OnlyFramesComeOut, IsFrame
    <3>6. QED
      BY <3>3, <3>4, <3>5 DEF IInv
  <2>4. CASE ~(~checked /\ source.bytes[pos + 1] \in Foreign)
    <3>1. buffer' \in Seq(Byte) /\ Len(buffer') = Len(buffer) + n
      <4> DEFINE fed == SubSeq(source.bytes, pos + 1, pos + n)
      <4>1. buffer' = buffer \o fed
        BY <1>8, <2>4, Zenon DEF Feed
      <4>2. buffer \in Seq(Byte) /\ fed \in Seq(Byte) /\ Len(fed) = n
        BY <2>2 DEF IInv, TypeOK
      <4> HIDE DEF fed
      <4>3. QED
        BY <4>1, <4>2, ConcatProperties
    <3>2. /\ pos' = pos + n /\ checked' = TRUE /\ phase' = "taking"
          /\ UNCHANGED <<source, dropped, desyncs, refused, framed, out>>
      BY <1>8, <2>4 DEF Feed
    <3>3. TypeOK'
      BY <1>1, <2>1, <3>1, <3>2 DEF IInv, TypeOK
    <3>4. Conserved'
      BY <1>1, <2>1, <3>1, <3>2 DEF IInv, TypeOK, Conserved
    <3>5. LessThanAFrame' /\ OnlyFramesComeOut'
      BY <3>2 DEF IInv, LessThanAFrame, OnlyFramesComeOut, IsFrame
    <3>6. QED
      BY <3>3, <3>4, <3>5 DEF IInv
  <2>5. QED
    BY <2>3, <2>4
<1>9. CASE UNCHANGED vars
  BY <1>9 DEF vars, IInv, TypeOK, Conserved, LessThanAFrame, OnlyFramesComeOut, IsFrame
<1>10. QED
  BY <1>2, <1>3, <1>4, <1>5, <1>6, <1>7, <1>8, <1>9 DEF Next, Turn

\* An empty reader satisfies the invariant.
LEMMA InitIInv == Init => IInv
<1> SUFFICES ASSUME Init PROVE IInv
  OBVIOUS
<1>1. Len(source.bytes) \in Nat /\ source.bytes \in Seq(Byte)
  BY StreamAssumption, LenProperties DEF Init
<1>2. buffer \in Seq(Byte) /\ Len(buffer) = 0 /\ out \in Seq(Seq(Byte)) /\ Len(out) = 0
  BY EmptySeq DEF Init
<1>3. TypeOK
  <2>1. /\ pos \in 0..Len(source.bytes) /\ phase \in {"idle", "taking"}
        /\ dropped \in Nat /\ desyncs \in Nat /\ refused \in Nat /\ framed \in Nat
    BY <1>1 DEF Init
  <2>2. checked \in BOOLEAN
    BY Zenon DEF Init
  <2>3. QED
    BY <1>1, <1>2, <2>1, <2>2 DEF TypeOK
<1>4. Conserved
  BY <1>2 DEF Init, Conserved
<1>5. LessThanAFrame /\ OnlyFramesComeOut
  BY <1>2, ConstantFacts DEF Init, LessThanAFrame, OnlyFramesComeOut
<1>6. QED
  BY <1>3, <1>4, <1>5 DEF IInv

\* The reader's state is well typed and the three properties below hold at every
\* turn of the loops of feed().
THEOREM Invariance == Spec => []IInv
<1>1. IInv /\ [Next]_vars => IInv'
  BY StepKeeps
<1>2. QED
  BY <1>1, InitIInv, PTL DEF Spec

\* Every turn of the loops of feed() leaves a well-typed reader.
THEOREM TypeCorrect == Spec => []TypeOK
<1>1. IInv => TypeOK
  BY DEF IInv
<1>2. QED
  BY <1>1, Invariance, PTL

\* No byte is lost or counted twice by feed(), _take_one, _drop_one and reset.
THEOREM BytesConserved == Spec => []Conserved
<1>1. IInv => Conserved
  BY DEF IInv
<1>2. QED
  BY <1>1, Invariance, PTL

\* The buffer never holds a whole longest frame between two calls, so the branch
\* of feed() that abandons an oversized buffer is dead code.
THEOREM BufferBounded == Spec => []LessThanAFrame
<1>1. IInv => LessThanAFrame
  BY DEF IInv
<1>2. QED
  BY <1>1, Invariance, PTL

\* Whatever is returned is a complete frame with a correct checksum (is_valid),
\* whatever the peer sent.
THEOREM ReturnsOnlyFrames == Spec => []OnlyFramesComeOut
<1>1. IInv => OnlyFramesComeOut
  BY DEF IInv
<1>2. QED
  BY <1>1, Invariance, PTL

-----------------------------------------------------------------------------
(* Genuine frames come out.  The buffer is the part of the stream behind the  *)
(* bytes that were consumed, and what was consumed ends between two genuine   *)
(* frames: behind all that came out, before all that are to come.             *)

Consumed == pos - Len(buffer)

Buffered == \A i \in 1..Len(buffer) : buffer[i] = source.bytes[Consumed + i]

Came ==
  /\ Len(out) <= Len(source.at)
  /\ \A k \in 1..Len(out) : /\ out[k] = source.frames[k]
                            /\ EndFrom(source.bytes, source.at[k]) <= Consumed

ToCome == (Len(out) + 1)..Len(source.at)

Ahead == \A k \in ToCome : Consumed < source.at[k]

\* Between two calls of feed() no genuine frame is whole and not taken.
NoneKept ==
  phase = "idle" => \A k \in ToCome : EndFrom(source.bytes, source.at[k]) > pos

Started == pos > 0 => checked

Synced == /\ source \in Streams /\ Buffered
          /\ Quiet(source) => Came /\ Ahead /\ NoneKept /\ Started

\* The numbers of a state.
LEMMA Numbers ==
  ASSUME IInv, source \in Streams
  PROVE  /\ pos \in Nat /\ Len(buffer) \in Nat /\ Len(source.bytes) \in Nat
         /\ pos <= Len(source.bytes) /\ Len(buffer) <= pos
         /\ Consumed \in Nat /\ Consumed + Len(buffer) = pos
         /\ Len(out) \in Nat /\ Len(source.at) \in Nat
<1>1. /\ pos \in Nat /\ Len(buffer) \in Nat /\ Len(source.bytes) \in Nat
      /\ pos <= Len(source.bytes) /\ Len(out) \in Nat
  BY LenProperties DEF IInv, TypeOK
<1>2. Len(source.at) \in Nat
  BY StreamAssumption, LenProperties
<1>3. Len(buffer) <= pos
  BY <1>1 DEF IInv, Conserved, TypeOK
<1>4. QED
  BY <1>1, <1>2, <1>3 DEF Consumed

\* Where a frame of a sequence of bytes ends.
LEMMA EndOfWhole ==
  ASSUME NEW s \in Seq(Byte), NEW i \in 1..Len(s), WholeFrom(s, i)
  PROVE  /\ s[i + 1] \in Nat /\ 2 <= s[i + 1] /\ i + 1 \in 1..Len(s)
         /\ EndFrom(s, i) \in Nat /\ i < EndFrom(s, i) /\ EndFrom(s, i) <= Len(s)
         /\ EndFrom(s, i) = i + s[i + 1] - 1
<1>1. Len(s) \in Nat
  BY LenProperties
<1>2. i + 1 \in 1..Len(s)
  BY <1>1 DEF WholeFrom
<1>3. s[i + 1] \in 0..MaxByte
  BY <1>2, ElementOfSeq DEF Byte
<1>4. s[i + 1] \in Nat /\ 2 <= s[i + 1]
  BY <1>3, ConstantFacts DEF WholeFrom
<1>5. QED
  BY <1>1, <1>2, <1>4 DEF WholeFrom, EndFrom

\* A frame at a place of a sequence that another one copies is there, too.
LEMMA FramesAgree ==
  ASSUME NEW s \in Seq(Byte), NEW t \in Seq(Byte),
         NEW i \in 1..Len(s), NEW d \in Int, i + d \in 1..Len(t),
         WholeFrom(s, i), EndFrom(s, i) + d <= Len(t),
         \A k \in i..EndFrom(s, i) : k + d \in 1..Len(t) /\ t[k + d] = s[k]
  PROVE  /\ EndFrom(t, i + d) = EndFrom(s, i) + d
         /\ WholeFrom(t, i + d)
         /\ FrameFrom(t, i + d) = FrameFrom(s, i)
<1>1. /\ Len(s) \in Nat /\ Len(t) \in Nat /\ i \in Nat
      /\ s[i + 1] \in Nat /\ i + 1 \in 1..Len(s)
      /\ EndFrom(s, i) \in Nat /\ i + 1 <= EndFrom(s, i) /\ EndFrom(s, i) <= Len(s)
      /\ EndFrom(s, i) = i + s[i + 1] - 1
  BY EndOfWhole, LenProperties
<1>2. i \in i..EndFrom(s, i) /\ i + 1 \in i..EndFrom(s, i)
  BY <1>1
<1>3. t[i + d] = s[i] /\ t[(i + d) + 1] = s[i + 1]
  <2>1. t[i + d] = s[i] /\ t[(i + 1) + d] = s[i + 1]
    BY <1>2
  <2>2. (i + 1) + d = (i + d) + 1
    BY <1>1
  <2>3. QED
    BY <2>1, <2>2
<1>4. EndFrom(t, i + d) = EndFrom(s, i) + d
  BY <1>1, <1>3 DEF EndFrom
<1>5. WholeFrom(t, i + d)
  BY <1>1, <1>3, <1>4 DEF WholeFrom
<1> DEFINE e == EndFrom(s, i)
           A == SubSeq(s, i, e)
           B == SubSeq(t, i + d, e + d)
<1>6. /\ A \in Seq(Byte) /\ Len(A) = e - i + 1
      /\ \A k \in 1..(e - i + 1) : A[k] = s[i + k - 1]
  <2>1. i \in 1..(Len(s) + 1) /\ e \in 0..Len(s) /\ i <= e + 1
    BY <1>1, SMTT(30)
  <2>2. QED
    BY <2>1, PartOf
<1>7. /\ B \in Seq(Byte) /\ Len(B) = e - i + 1
      /\ \A k \in 1..(e - i + 1) : B[k] = t[(i + d) + k - 1]
  <2>1. i + d \in 1..(Len(t) + 1) /\ e + d \in 0..Len(t) /\ i + d <= (e + d) + 1
        /\ (e + d) - (i + d) + 1 = e - i + 1
    BY <1>1, SMTT(30)
  <2>2. QED
    BY <2>1, PartOf
<1>8. ASSUME NEW k \in 1..Len(A)
      PROVE  A[k] = B[k]
  <2>1. k \in 1..(e - i + 1) /\ i + k - 1 \in i..e /\ (i + k - 1) + d = (i + d) + k - 1
    BY <1>1, <1>6, SMTT(30)
  <2>2. t[(i + k - 1) + d] = s[i + k - 1]
    BY <2>1
  <2>3. QED
    BY <1>6, <1>7, <2>1, <2>2
<1>9. A = B
  BY <1>6, <1>7, <1>8, SeqEqual, SMTT(30)
<1>10. QED
  BY <1>4, <1>5, <1>9 DEF FrameFrom

\* What the buffer holds of a frame is what the stream holds, and back.
LEMMA FrameInStream ==
  ASSUME IInv, source \in Streams, Buffered, NEW i \in 1..Len(buffer), WholeFrom(buffer, i)
  PROVE  /\ EndFrom(source.bytes, Consumed + i) = Consumed + EndFrom(buffer, i)
         /\ Consumed + EndFrom(buffer, i) <= pos
         /\ FrameFrom(source.bytes, Consumed + i) = FrameFrom(buffer, i)
         /\ ValidFrom(buffer, i) => ValidFrom(source.bytes, Consumed + i)
<1>1. buffer \in Seq(Byte) /\ source.bytes \in Seq(Byte)
  BY StreamAssumption DEF IInv, TypeOK
<1>2. /\ EndFrom(buffer, i) \in Nat /\ i \in Nat
      /\ EndFrom(buffer, i) <= Len(buffer) /\ i < EndFrom(buffer, i)
  BY <1>1, EndOfWhole
<1>3. Consumed + i = i + Consumed /\ Consumed \in Int
  BY <1>2, Numbers
<1>4. i + Consumed \in 1..Len(source.bytes) /\ EndFrom(buffer, i) + Consumed <= pos
      /\ EndFrom(buffer, i) + Consumed <= Len(source.bytes)
  BY <1>2, Numbers
<1>5. ASSUME NEW k \in i..EndFrom(buffer, i)
      PROVE  /\ k + Consumed \in 1..Len(source.bytes)
             /\ source.bytes[k + Consumed] = buffer[k]
  <2>1. k \in 1..Len(buffer) /\ k + Consumed = Consumed + k /\ k + Consumed \in 1..Len(source.bytes)
    BY <1>2, Numbers
  <2>2. QED
    BY <2>1 DEF Buffered
<1>6. /\ EndFrom(source.bytes, i + Consumed) = EndFrom(buffer, i) + Consumed
      /\ WholeFrom(source.bytes, i + Consumed)
      /\ FrameFrom(source.bytes, i + Consumed) = FrameFrom(buffer, i)
  BY <1>1, <1>3, <1>4, <1>5, FramesAgree
<1>7. EndFrom(buffer, i) + Consumed = Consumed + EndFrom(buffer, i)
  BY <1>2, <1>3
<1>8. QED
  BY <1>3, <1>4, <1>6, <1>7 DEF ValidFrom

\* What begins behind the bytes consumed, and has arrived whole, is in the buffer.
LEMMA FrameInBuffer ==
  ASSUME IInv, source \in Streams, Buffered,
         NEW p \in 1..Len(source.bytes), Consumed < p, ValidFrom(source.bytes, p),
         EndFrom(source.bytes, p) <= pos
  PROVE  /\ p - Consumed \in 1..Len(buffer)
         /\ ValidFrom(buffer, p - Consumed)
<1>1. buffer \in Seq(Byte) /\ source.bytes \in Seq(Byte)
  BY StreamAssumption DEF IInv, TypeOK
<1>2. WholeFrom(source.bytes, p)
  BY DEF ValidFrom
<1>3. EndFrom(source.bytes, p) \in Nat /\ p \in Nat /\ p < EndFrom(source.bytes, p)
  BY <1>1, <1>2, EndOfWhole, Numbers
<1> DEFINE d == 0 - Consumed
           e == EndFrom(source.bytes, p)
<1>4. d \in Int /\ p + d = p - Consumed /\ p + d \in 1..Len(buffer) /\ e + d <= Len(buffer)
  BY <1>3, Numbers
<1>5. ASSUME NEW k \in p..e
      PROVE  /\ k + d \in 1..Len(buffer)
             /\ buffer[k + d] = source.bytes[k]
  <2>1. k + d \in 1..Len(buffer) /\ Consumed + (k + d) = k
    BY <1>3, Numbers
  <2>2. QED
    BY <2>1 DEF Buffered
<1> HIDE DEF d
<1>6. WholeFrom(buffer, p + d) /\ FrameFrom(buffer, p + d) = FrameFrom(source.bytes, p)
  BY <1>1, <1>2, <1>4, <1>5, FramesAgree
<1>7. QED
  BY <1>4, <1>6 DEF ValidFrom

\* A genuine frame of a quiet stream, and those before it.
LEMMA GenuineFrame ==
  ASSUME IInv, source \in Streams, Quiet(source), NEW k \in 1..Len(source.at)
  PROVE  /\ source.at[k] \in 1..Len(source.bytes) /\ source.at[k] \in Nat
         /\ ValidFrom(source.bytes, source.at[k])
         /\ source.frames[k] = FrameFrom(source.bytes, source.at[k])
         /\ EndFrom(source.bytes, source.at[k]) \in Nat
         /\ source.at[k] < EndFrom(source.bytes, source.at[k])
         /\ EndFrom(source.bytes, source.at[k]) <= Len(source.bytes)
         /\ \A j \in 1..Len(source.at) :
              j < k => EndFrom(source.bytes, source.at[j]) < source.at[k]
<1>1. /\ source.at[k] \in 1..Len(source.bytes)
      /\ ValidFrom(source.bytes, source.at[k])
      /\ source.frames[k] = FrameFrom(source.bytes, source.at[k])
      /\ \A j \in 1..(k - 1) : EndFrom(source.bytes, source.at[j]) < source.at[k]
  BY DEF Quiet, Framed
<1>2. /\ EndFrom(source.bytes, source.at[k]) \in Nat
      /\ source.at[k] < EndFrom(source.bytes, source.at[k])
      /\ EndFrom(source.bytes, source.at[k]) <= Len(source.bytes)
  BY <1>1, StreamAssumption, EndOfWhole DEF ValidFrom
<1>3. source.at[k] \in Nat
  BY <1>1, Numbers
<1>4. ASSUME NEW j \in 1..Len(source.at), j < k
      PROVE  EndFrom(source.bytes, source.at[j]) < source.at[k]
  <2>1. j \in 1..(k - 1)
    BY <1>4, Numbers
  <2>2. QED
    BY <1>1, <2>1
<1>5. QED
  BY <1>1, <1>2, <1>3, <1>4

\* Bytes that leave the front of the buffer were consumed.
LEMMA AdvanceMoves ==
  ASSUME IInv, source \in Streams, Buffered, NEW k \in 1..Len(buffer), Advance(k),
         UNCHANGED <<source, pos>>
  PROVE  Consumed' = Consumed + k /\ Buffered'
<1>1. k \in Nat /\ k + 1 \in 1..(Len(buffer) + 1) /\ Len(buffer) \in 0..Len(buffer)
      /\ k + 1 <= Len(buffer) + 1
  BY Numbers
<1>2. /\ Len(buffer') = Len(buffer) - (k + 1) + 1
      /\ \A i \in 1..(Len(buffer) - (k + 1) + 1) : buffer'[i] = buffer[(k + 1) + i - 1]
  BY <1>1, PartOf DEF IInv, TypeOK, Advance
<1>3. Len(buffer') = Len(buffer) - k /\ Consumed' = Consumed + k
  BY <1>1, <1>2, Numbers DEF Consumed
<1>4. ASSUME NEW i \in 1..Len(buffer')
      PROVE  buffer'[i] = source'.bytes[Consumed' + i]
  <2>1. /\ i \in 1..(Len(buffer) - (k + 1) + 1) /\ (k + 1) + i - 1 = k + i
        /\ k + i \in 1..Len(buffer) /\ Consumed + (k + i) = (Consumed + k) + i
    BY <1>1, <1>3, Numbers
  <2>2. buffer'[i] = buffer[k + i] /\ buffer[k + i] = source.bytes[Consumed + (k + i)]
    BY <1>2, <2>1 DEF Buffered
  <2>3. QED
    BY <1>3, <2>1, <2>2
<1>5. QED
  BY <1>3, <1>4 DEF Buffered

\* Dropping stays in step as long as it stops before the next genuine frame.
LEMMA DropStaysBehind ==
  ASSUME IInv, Synced, phase = "taking", NEW k \in 1..Len(buffer), Drop(k),
         Quiet(source) => \A j \in ToCome : Consumed + k < source.at[j]
  PROVE  Synced'
<1>1. source \in Streams /\ Buffered
  BY DEF Synced
<1>2. /\ Advance(k) /\ UNCHANGED <<source, pos, phase, checked, out>>
  BY DEF Drop
<1>3. Consumed' = Consumed + k /\ Buffered' /\ k \in Nat
  BY <1>1, <1>2, AdvanceMoves, Numbers
<1>4. ASSUME Quiet(source)
      PROVE  Came' /\ Ahead' /\ NoneKept' /\ Started'
  <2>1. Came /\ Started
    BY <1>4 DEF Synced
  <2>2. Came'
    <3>1. ASSUME NEW q \in 1..Len(out)
          PROVE  EndFrom(source.bytes, source.at[q]) <= Consumed + k
      <4>1. q \in 1..Len(source.at)
        BY <1>1, <2>1, Numbers DEF Came
      <4>2. EndFrom(source.bytes, source.at[q]) \in Nat
        BY <1>1, <1>4, <4>1, GenuineFrame
      <4>3. EndFrom(source.bytes, source.at[q]) <= Consumed
        BY <2>1 DEF Came
      <4>4. QED
        BY <1>1, <1>3, <4>2, <4>3, Numbers
    <3>2. QED
      BY <1>2, <1>3, <2>1, <3>1 DEF Came, EndFrom
  <2>3. Ahead'
    BY <1>2, <1>3, <1>4 DEF Ahead, ToCome
  <2>4. NoneKept' /\ Started'
    BY <1>2, <2>1 DEF NoneKept, Started
  <2>5. QED
    BY <2>2, <2>3, <2>4
<1>5. Quiet(source') = Quiet(source)
  BY <1>2
<1>6. QED
  BY <1>1, <1>2, <1>3, <1>4, <1>5 DEF Synced

\* A genuine frame that begins in the buffer begins there with a header and a
\* length, and, once it has arrived, is there as a whole.
LEMMA HeadInBuffer ==
  ASSUME IInv, Synced, Quiet(source), NEW j \in ToCome,
         source.at[j] - Consumed <= Len(buffer)
  PROVE  /\ source.at[j] - Consumed \in 1..Len(buffer)
         /\ buffer[source.at[j] - Consumed] = HEADER
         /\ (source.at[j] - Consumed) + 1 <= Len(buffer) =>
              buffer[(source.at[j] - Consumed) + 1] = source.bytes[source.at[j] + 1]
         /\ EndFrom(source.bytes, source.at[j]) <= pos => ValidAt(source.at[j] - Consumed)
<1> DEFINE i == source.at[j] - Consumed
<1>1. source \in Streams /\ Buffered /\ Ahead
  BY DEF Synced
<1>2. j \in 1..Len(source.at) /\ Consumed < source.at[j]
  BY <1>1, Numbers DEF ToCome, Ahead
<1>3. /\ source.at[j] \in 1..Len(source.bytes) /\ source.at[j] \in Nat
      /\ ValidFrom(source.bytes, source.at[j])
  BY <1>1, <1>2, GenuineFrame
<1>4. i \in 1..Len(buffer) /\ Consumed + i = source.at[j]
  BY <1>1, <1>2, <1>3, Numbers
<1>5. buffer[i] = source.bytes[source.at[j]]
  BY <1>1, <1>4 DEF Buffered
<1>6. source.bytes[source.at[j]] = HEADER
  BY <1>3 DEF ValidFrom, WholeFrom
<1>7. ASSUME i + 1 <= Len(buffer)
      PROVE  buffer[i + 1] = source.bytes[source.at[j] + 1]
  <2>1. i + 1 \in 1..Len(buffer) /\ Consumed + (i + 1) = source.at[j] + 1
    BY <1>1, <1>3, <1>4, <1>7, Numbers, SMTT(30)
  <2>2. QED
    BY <1>1, <2>1 DEF Buffered
<1>8. ASSUME EndFrom(source.bytes, source.at[j]) <= pos
      PROVE  ValidAt(i)
  BY <1>1, <1>2, <1>3, <1>8, FrameInBuffer DEF ValidAt
<1>9. QED
  BY <1>4, <1>5, <1>6, <1>7, <1>8

\* What is taken for a frame in the middle of a quiet stream is the genuine
\* frame it looks like, or shows that the one before it has arrived.
LEMMA LooksGenuine ==
  ASSUME IInv, Synced, Quiet(source), NEW i \in 1..Len(buffer), ValidAt(i),
         NEW j \in ToCome, source.at[j] < Consumed + i
  PROVE  EndFrom(source.bytes, source.at[j]) <= pos
<1>1. source \in Streams /\ Buffered /\ Came /\ Ahead
  BY DEF Synced
<1> DEFINE p == Consumed + i
<1>2. WholeFrom(buffer, i) /\ ValidFrom(buffer, i)
  BY DEF ValidAt, ValidFrom
<1>3. /\ ValidFrom(source.bytes, p)
      /\ EndFrom(source.bytes, p) = Consumed + EndFrom(buffer, i)
      /\ Consumed + EndFrom(buffer, i) <= pos
  BY <1>1, <1>2, FrameInStream
<1>4. p \in 1..Len(source.bytes) /\ p \in Nat
  BY <1>1, Numbers
<1>5. /\ EndFrom(source.bytes, p) \in Nat /\ EndFrom(source.bytes, p) <= pos
      /\ p < EndFrom(source.bytes, p)
  BY <1>1, <1>3, <1>4, StreamAssumption, EndOfWhole DEF ValidFrom
<1>6. j \in 1..Len(source.at)
  BY <1>1, Numbers DEF ToCome
<1>7. PICK q \in 1..Len(source.at) :
        \/ p = source.at[q]
        \/ /\ source.at[q] < p /\ p <= EndFrom(source.bytes, source.at[q])
           /\ EndFrom(source.bytes, source.at[q]) < EndFrom(source.bytes, p)
  BY <1>3, <1>4 DEF Quiet
<1>8. /\ source.at[q] \in Nat /\ EndFrom(source.bytes, source.at[q]) \in Nat
      /\ source.at[q] < EndFrom(source.bytes, source.at[q])
      /\ source.at[j] \in Nat /\ EndFrom(source.bytes, source.at[j]) \in Nat
      /\ q < j => EndFrom(source.bytes, source.at[q]) < source.at[j]
      /\ j < q => EndFrom(source.bytes, source.at[j]) < source.at[q]
  BY <1>1, <1>6, <1>7, GenuineFrame
<1>9. source.at[q] <= p /\ p <= EndFrom(source.bytes, source.at[q])
  BY <1>4, <1>7, <1>8
<1>10. j \in Nat /\ q \in Nat /\ pos \in Nat /\ source.at[j] < p
  BY <1>1, <1>6, <1>7, Numbers
<1>11. CASE q < j
  BY <1>4, <1>8, <1>9, <1>10, <1>11
<1>12. CASE q = j
  BY <1>4, <1>5, <1>7, <1>8, <1>10, <1>12
<1>13. CASE j < q
  BY <1>4, <1>5, <1>8, <1>9, <1>10, <1>13
<1>14. QED
  BY <1>10, <1>11, <1>12, <1>13

\* A genuine frame that k dropped bytes would reach begins among them.
LEMMA HeadPassed ==
  ASSUME IInv, Synced, Quiet(source), NEW j \in ToCome,
         NEW k \in 1..Len(buffer), ~(Consumed + k < source.at[j])
  PROVE  /\ source.at[j] - Consumed \in 1..Len(buffer)
         /\ source.at[j] - Consumed <= k
         /\ buffer[source.at[j] - Consumed] = HEADER
<1>1. source \in Streams
  BY DEF Synced
<1>2. j \in 1..Len(source.at)
  BY <1>1, Numbers DEF ToCome
<1>3. source.at[j] \in Nat
  BY <1>1, <1>2, GenuineFrame
<1>4. source.at[j] - Consumed <= Len(buffer) /\ source.at[j] - Consumed <= k
  BY <1>1, <1>3, Numbers
<1>5. QED
  BY <1>4, HeadInBuffer

\* The turns of the loops that drop bytes stop before the next genuine frame.
LEMMA TurnStaysBehind ==
  ASSUME IInv, Synced, SkipNoise \/ SkipToHeader \/ DropHead \/ SkipPhantom
  PROVE  Synced'
<1>1. source \in Streams /\ Len(buffer) \in Nat
  BY Numbers DEF Synced
<1>2. CASE SkipNoise
  <2>1. Len(buffer) \in 1..Len(buffer)
    BY <1>1, <1>2, EmptySeq DEF SkipNoise, IInv, TypeOK
  <2>2. ASSUME Quiet(source), NEW j \in ToCome
        PROVE  Consumed + Len(buffer) < source.at[j]
    <3>1. SUFFICES ASSUME ~(Consumed + Len(buffer) < source.at[j])
                   PROVE  FALSE
      OBVIOUS
    <3>2. /\ source.at[j] - Consumed \in 1..Len(buffer)
          /\ buffer[source.at[j] - Consumed] = HEADER
      BY <2>1, <2>2, <3>1, HeadPassed
    <3>3. QED
      BY <1>2, <3>2 DEF SkipNoise
  <2>3. QED
    BY <1>2, <2>1, <2>2, DropStaysBehind DEF SkipNoise
<1>3. CASE SkipToHeader
  <2>1. PICK n \in 2..Len(buffer) : FirstHeader(n) /\ Drop(n - 1)
    BY <1>3 DEF SkipToHeader
  <2>2. n - 1 \in 1..Len(buffer)
    BY <1>1, <2>1
  <2>3. ASSUME Quiet(source), NEW j \in ToCome
        PROVE  Consumed + (n - 1) < source.at[j]
    <3>1. SUFFICES ASSUME ~(Consumed + (n - 1) < source.at[j])
                   PROVE  FALSE
      OBVIOUS
    <3>2. /\ source.at[j] - Consumed \in 1..(n - 1)
          /\ buffer[source.at[j] - Consumed] = HEADER
      <4>1. /\ source.at[j] - Consumed \in 1..Len(buffer)
            /\ source.at[j] - Consumed <= n - 1
            /\ buffer[source.at[j] - Consumed] = HEADER
        BY <2>2, <2>3, <3>1, HeadPassed
      <4>2. QED
        BY <1>1, <2>2, <4>1
    <3>3. QED
      BY <2>1, <3>2 DEF FirstHeader
  <2>4. QED
    BY <1>3, <2>1, <2>2, <2>3, DropStaysBehind DEF SkipToHeader
<1>4. CASE DropHead
  <2>1. 1 \in 1..Len(buffer) /\ 2 <= Len(buffer) /\ Drop(1) /\ phase = "taking"
    BY <1>1, <1>4 DEF DropHead
  <2>2. ASSUME Quiet(source), NEW j \in ToCome
        PROVE  Consumed + 1 < source.at[j]
    <3>1. SUFFICES ASSUME ~(Consumed + 1 < source.at[j])
                   PROVE  FALSE
      OBVIOUS
    <3>2. source.at[j] - Consumed = 1
      BY <1>1, <2>1, <2>2, <3>1, HeadPassed
    <3>3. /\ buffer[2] = source.bytes[source.at[j] + 1]
          /\ EndFrom(source.bytes, source.at[j]) <= pos => ValidAt(1)
      BY <1>1, <2>1, <2>2, <3>2, HeadInBuffer
    <3>4. j \in 1..Len(source.at)
      BY <1>1, Numbers DEF ToCome
    <3>5. source.at[j] \in Nat /\ ValidFrom(source.bytes, source.at[j])
          /\ source.at[j] \in 1..Len(source.bytes)
      BY <1>1, <2>2, <3>4, GenuineFrame
    <3>6. /\ buffer[2] >= MinFrameLength /\ buffer[2] \in Nat
          /\ EndFrom(source.bytes, source.at[j]) = source.at[j] + buffer[2] - 1
      BY <1>1, <3>3, <3>5, StreamAssumption, EndOfWhole DEF ValidFrom, WholeFrom
    <3>7. CompleteAt(1) /\ ~ValidAt(1)
      BY <1>4, <3>6, ConstantFacts DEF DropHead
    <3>8. 1 + buffer[2] - 1 <= Len(buffer)
      BY <3>7 DEF CompleteAt, WholeFrom, EndFrom
    <3>9. EndFrom(source.bytes, source.at[j]) <= pos
      <4>1. /\ Consumed \in Nat /\ Len(buffer) \in Nat /\ pos \in Nat
            /\ Consumed + Len(buffer) = pos
        BY <1>1, Numbers
      <4>2. source.at[j] \in Nat /\ source.at[j] = Consumed + 1
        BY <3>2, <3>5, <4>1
      <4>3. EndFrom(source.bytes, source.at[j]) = Consumed + buffer[2]
        BY <3>6, <4>1, <4>2
      <4>4. buffer[2] \in Nat /\ buffer[2] <= Len(buffer)
        BY <3>6, <3>8, <4>1
      <4>5. QED
        BY <4>1, <4>3, <4>4
    <3>10. QED
      BY <3>3, <3>7, <3>9
  <2>3. QED
    BY <2>1, <2>2, DropStaysBehind
<1>5. CASE SkipPhantom
  <2>1. PICK n \in 2..Len(buffer) : FirstValid(n) /\ Drop(n - 1)
    BY <1>5 DEF SkipPhantom
  <2>2. n - 1 \in 1..Len(buffer) /\ n \in 1..Len(buffer)
    BY <1>1, <2>1
  <2>3. ASSUME Quiet(source), NEW j \in ToCome
        PROVE  Consumed + (n - 1) < source.at[j]
    <3>1. SUFFICES ASSUME ~(Consumed + (n - 1) < source.at[j])
                   PROVE  FALSE
      OBVIOUS
    <3>2. /\ source.at[j] - Consumed \in 1..Len(buffer)
          /\ source.at[j] - Consumed <= n - 1
      BY <2>2, <2>3, <3>1, HeadPassed
    <3>3. source.at[j] < Consumed + n
      <4>1. source.at[j] \in Nat
        <5>1. j \in 1..Len(source.at)
          BY <1>1, Numbers DEF ToCome
        <5>2. QED
          BY <1>1, <2>3, <5>1, GenuineFrame
      <4>2. QED
        BY <1>1, <2>2, <3>2, <4>1, Numbers
    <3>4. EndFrom(source.bytes, source.at[j]) <= pos
      BY <2>1, <2>2, <2>3, <3>3, LooksGenuine DEF FirstValid
    <3>5. ValidAt(source.at[j] - Consumed)
      BY <1>1, <2>3, <3>2, <3>4, HeadInBuffer
    <3>6. CASE source.at[j] - Consumed = 1
      <4>1. buffer[2] \in Nat /\ buffer[2] <= Len(buffer)
        BY <1>1, <3>5, <3>6, CandidateIsFrame DEF IInv
      <4>2. QED
        BY <1>1, <1>5, <4>1 DEF SkipPhantom, HeadIsPartial
    <3>7. CASE source.at[j] - Consumed # 1
      <4>1. source.at[j] - Consumed \in 2..(n - 1)
        BY <1>1, <2>2, <3>2, <3>7
      <4>2. QED
        BY <2>1, <3>5, <4>1 DEF FirstValid
    <3>8. QED
      BY <3>6, <3>7
  <2>4. QED
    BY <1>5, <2>1, <2>2, <2>3, DropStaysBehind DEF SkipPhantom
<1>6. QED
  BY <1>2, <1>3, <1>4, <1>5

\* What is taken from a quiet stream is its next genuine frame.
LEMMA TakeInStep == ASSUME IInv, Synced, TakeFrame PROVE Synced'
<1>1. source \in Streams /\ Buffered
  BY DEF Synced
<1>2. /\ ValidAt(1) /\ Advance(buffer[2]) /\ out' = Append(out, CandidateAt(1))
      /\ UNCHANGED <<source, pos, phase, checked>> /\ phase = "taking"
  BY DEF TakeFrame
<1>3. buffer[2] \in 1..Len(buffer) /\ CandidateAt(1) \in Seq(Byte)
  BY <1>2, CandidateIsFrame DEF IInv
<1>4. Consumed' = Consumed + buffer[2] /\ Buffered'
  BY <1>1, <1>2, <1>3, AdvanceMoves
<1>5. ASSUME Quiet(source)
      PROVE  Came' /\ Ahead' /\ NoneKept' /\ Started'
  <2>1. Came /\ Ahead /\ Started
    BY <1>5 DEF Synced
  <2> DEFINE p == Consumed + 1
             n == Len(out) + 1
  <2>2. 1 \in 1..Len(buffer) /\ WholeFrom(buffer, 1) /\ ValidFrom(buffer, 1)
    BY <1>1, <1>2, <1>3, Numbers DEF ValidAt, ValidFrom
  <2>3. /\ ValidFrom(source.bytes, p)
        /\ EndFrom(source.bytes, p) = Consumed + EndFrom(buffer, 1)
        /\ FrameFrom(source.bytes, p) = CandidateAt(1)
    BY <1>1, <2>2, FrameInStream DEF CandidateAt
  <2>4. EndFrom(source.bytes, p) = Consumed + buffer[2]
    <3>1. EndFrom(buffer, 1) = buffer[2]
      BY <1>1, <1>3, Numbers DEF EndFrom
    <3>2. QED
      BY <2>3, <3>1
  <2>5. p \in 1..Len(source.bytes) /\ p \in Nat
    BY <1>1, <2>2, Numbers
  <2>6. PICK q \in 1..Len(source.at) :
          \/ p = source.at[q]
          \/ source.at[q] < p /\ p <= EndFrom(source.bytes, source.at[q])
    BY <1>5, <2>3, <2>5 DEF Quiet
  <2>7. /\ source.at[q] \in Nat /\ EndFrom(source.bytes, source.at[q]) \in Nat
        /\ source.at[q] < EndFrom(source.bytes, source.at[q])
        /\ \A j \in 1..Len(source.at) :
             j < q => EndFrom(source.bytes, source.at[j]) < source.at[q]
    BY <1>1, <1>5, <2>6, GenuineFrame
  <2>8. q \in ToCome
    <3>1. CASE q \in 1..Len(out)
      <4>1. EndFrom(source.bytes, source.at[q]) <= Consumed
        BY <2>1, <3>1 DEF Came
      <4>2. QED
        BY <1>1, <2>6, <2>7, <4>1, Numbers
    <3>2. QED
      BY <1>1, <2>6, <3>1, Numbers DEF ToCome
  <2>9. p = source.at[q]
    <3>1. Consumed < source.at[q]
      BY <2>1, <2>8 DEF Ahead
    <3>2. QED
      BY <1>1, <2>6, <2>7, <3>1, Numbers
  <2>10. q = n
    <3>1. SUFFICES ASSUME q # n PROVE FALSE
      OBVIOUS
    <3>2. n \in ToCome /\ n < q /\ n \in 1..Len(source.at)
      BY <1>1, <2>8, <3>1, Numbers DEF ToCome
    <3>3. EndFrom(source.bytes, source.at[n]) < source.at[q] /\ Consumed < source.at[n]
      BY <2>1, <2>7, <3>2 DEF Ahead
    <3>4. /\ source.at[n] \in Nat /\ EndFrom(source.bytes, source.at[n]) \in Nat
          /\ source.at[n] < EndFrom(source.bytes, source.at[n])
      BY <1>1, <1>5, <3>2, GenuineFrame
    <3>5. QED
      BY <1>1, <2>9, <3>3, <3>4, Numbers
  <2>11. /\ EndFrom(source.bytes, source.at[n]) = Consumed'
         /\ source.frames[n] = CandidateAt(1)
         /\ n \in 1..Len(source.at)
    <3>1. source.frames[q] = FrameFrom(source.bytes, source.at[q])
      BY <1>1, <1>5, <2>6, GenuineFrame
    <3>2. QED
      BY <1>4, <2>3, <2>4, <2>6, <2>9, <2>10, <3>1
  <2>12. /\ Len(out') = n /\ out'[n] = CandidateAt(1)
         /\ \A k \in 1..Len(out) : out'[k] = out[k]
    BY <1>2, <1>3, AppendProperties DEF IInv, TypeOK
  <2>13. Came'
    <3>1. ASSUME NEW k \in 1..n
          PROVE  /\ out'[k] = source.frames[k]
                 /\ EndFrom(source.bytes, source.at[k]) <= Consumed'
      <4>1. CASE k = n
        <5>1. out'[k] = source.frames[k]
          BY <2>11, <2>12, <4>1
        <5>2. EndFrom(source.bytes, source.at[k]) \in Nat
          BY <1>1, <1>5, <2>11, <4>1, GenuineFrame
        <5>3. QED
          BY <2>11, <4>1, <5>1, <5>2
      <4>2. CASE k # n
        <5>1. k \in 1..Len(out)
          BY <1>1, <3>1, <4>2, Numbers
        <5>2. k \in 1..Len(source.at) /\ k < n
          BY <1>1, <2>11, <5>1, Numbers
        <5>3. out'[k] = source.frames[k] /\ EndFrom(source.bytes, source.at[k]) <= Consumed
          BY <2>1, <2>12, <5>1 DEF Came
        <5>4. EndFrom(source.bytes, source.at[k]) \in Nat
          BY <1>1, <1>5, <5>2, GenuineFrame
        <5>5. QED
          BY <1>1, <1>3, <1>4, <5>3, <5>4, Numbers
      <4>3. QED
        BY <4>1, <4>2
    <3>2. n <= Len(source.at)
      BY <1>1, <2>11, Numbers
    <3>3. QED
      BY <1>2, <2>12, <3>1, <3>2 DEF Came, EndFrom
  <2>14. Ahead'
    <3>1. ASSUME NEW k \in (n + 1)..Len(source.at)
          PROVE  Consumed' < source.at[k]
      <4>1. k \in 1..Len(source.at) /\ n < k
        BY <1>1, <2>11, <3>1, Numbers
      <4>2. EndFrom(source.bytes, source.at[n]) < source.at[k]
        BY <1>1, <1>5, <2>11, <4>1, GenuineFrame
      <4>3. QED
        BY <2>11, <4>2
    <3>2. QED
      BY <1>2, <2>12, <3>1 DEF Ahead, ToCome
  <2>15. NoneKept' /\ Started'
    BY <1>2, <2>1 DEF NoneKept, Started
  <2>16. QED
    BY <2>13, <2>14, <2>15
<1>6. Quiet(source') = Quiet(source)
  BY <1>2
<1>7. QED
  BY <1>1, <1>2, <1>4, <1>5, <1>6 DEF Synced

\* The loops end without a whole genuine frame in the buffer.
LEMMA FinishInStep == ASSUME IInv, Synced, Finish PROVE Synced'
<1>1. source \in Streams /\ Buffered
  BY DEF Synced
<1>2. UNCHANGED <<source, pos, buffer, checked, out>> /\ phase = "taking"
  <2>1. Len(buffer) < MaxByte
    BY FinishIsShort DEF IInv
  <2>2. QED
    BY <1>1, <2>1, Numbers, ConstantFacts DEF Finish
<1>3. ASSUME Quiet(source), NEW j \in ToCome
      PROVE  EndFrom(source.bytes, source.at[j]) > pos
  <2>1. j \in 1..Len(source.at)
    BY <1>1, Numbers DEF ToCome
  <2>2. /\ source.at[j] \in Nat /\ EndFrom(source.bytes, source.at[j]) \in Nat
        /\ source.at[j] < EndFrom(source.bytes, source.at[j])
    BY <1>1, <1>3, <2>1, GenuineFrame
  <2>3. SUFFICES ASSUME EndFrom(source.bytes, source.at[j]) <= pos
                 PROVE  FALSE
    BY <1>1, <2>2, Numbers
  <2> DEFINE i == source.at[j] - Consumed
  <2>4. i <= Len(buffer)
    BY <1>1, <2>2, <2>3, Numbers
  <2>5. i \in 1..Len(buffer) /\ ValidAt(i)
    BY <1>3, <2>3, <2>4, HeadInBuffer
  <2>6. i + 1 <= Len(buffer)
    BY <2>5 DEF ValidAt, ValidFrom, WholeFrom
  <2>7. buffer # <<>> /\ ~(Len(buffer) < 2)
    BY <1>1, <2>5, <2>6, EmptySeq, Numbers
  <2>8. HeadIsPartial /\ \A k \in 2..Len(buffer) : ~ValidAt(k)
    BY <2>7 DEF Finish
  <2>9. CASE i = 1
    <3>1. buffer[2] \in Nat /\ buffer[2] <= Len(buffer)
      BY <1>1, <2>5, <2>9, CandidateIsFrame, Numbers DEF IInv
    <3>2. QED
      BY <1>1, <2>8, <3>1, Numbers DEF HeadIsPartial
  <2>10. CASE i # 1
    <3>1. i \in 2..Len(buffer)
      BY <1>1, <2>5, <2>10, Numbers
    <3>2. QED
      BY <2>5, <2>8, <3>1
  <2>11. QED
    BY <2>9, <2>10
<1>4. Buffered' /\ Consumed' = Consumed
  BY <1>1, <1>2 DEF Buffered, Consumed
<1>5. ASSUME Quiet(source)
      PROVE  Came' /\ Ahead' /\ NoneKept' /\ Started'
  <2>1. Came /\ Ahead /\ Started
    BY <1>5 DEF Synced
  <2>2. QED
    BY <1>2, <1>3, <1>4, <1>5, <2>1 DEF Came, Ahead, NoneKept, Started, ToCome, EndFrom
<1>6. Quiet(source') = Quiet(source)
  BY <1>2
<1>7. QED
  BY <1>1, <1>2, <1>4, <1>5, <1>6 DEF Synced

\* What arrives goes behind what is there; a quiet stream is never refused.
LEMMA FeedInStep ==
  ASSUME IInv, Synced, NEW n \in 1..(Len(source.bytes) - pos), Feed(n)
  PROVE  Synced'
<1>1. source \in Streams /\ Buffered
  BY DEF Synced
<1>2. /\ n \in Nat /\ pos + n \in 0..Len(source.bytes) /\ pos \in Nat
      /\ pos + 1 \in 1..(Len(source.bytes) + 1) /\ pos + 1 <= pos + n + 1
      /\ (pos + n) - (pos + 1) + 1 = n
  <2>1. /\ pos \in Nat /\ Len(source.bytes) \in Nat /\ pos <= Len(source.bytes)
    BY <1>1, Numbers
  <2>2. n \in Nat /\ n <= Len(source.bytes) - pos
    BY <2>1
  <2>3. QED
    BY <2>1, <2>2
<1> DEFINE more == SubSeq(source.bytes, pos + 1, pos + n)
<1>3. /\ more \in Seq(Byte) /\ Len(more) = n
      /\ \A i \in 1..n : more[i] = source.bytes[(pos + 1) + i - 1]
  BY <1>2, PartOf DEF IInv, TypeOK
<1>4. pos' = pos + n /\ UNCHANGED <<source, out>>
  BY DEF Feed
<1>5. CASE ~checked /\ source.bytes[pos + 1] \in Foreign
  <2>1. buffer' = <<>>
    BY <1>5 DEF Feed
  <2>2. Buffered'
    BY <2>1, EmptySeq DEF Buffered
  <2>3. ~Quiet(source)
    <3>1. SUFFICES ASSUME Quiet(source) PROVE FALSE
      OBVIOUS
    <3>2. pos = 0
      BY <1>2, <1>5, <3>1 DEF Synced, Started
    <3>3. source.bytes # <<>>
      BY <1>2, EmptySeq, <3>2
    <3>4. QED
      BY <1>5, <3>1, <3>2, <3>3 DEF Quiet
  <2>4. ~Quiet(source')
    BY <1>4, <2>3
  <2>5. QED
    BY <1>1, <1>4, <2>2, <2>4 DEF Synced
<1>6. CASE ~(~checked /\ source.bytes[pos + 1] \in Foreign)
  <2>1. buffer' = buffer \o more /\ checked' = TRUE /\ phase' = "taking"
    BY <1>6 DEF Feed
  <2>2. /\ Len(buffer') = Len(buffer) + n
        /\ \A i \in 1..(Len(buffer) + n) :
             buffer'[i] = IF i <= Len(buffer) THEN buffer[i] ELSE more[i - Len(buffer)]
    BY <1>3, <2>1, ConcatProperties DEF IInv, TypeOK
  <2>3. Consumed' = Consumed
    BY <1>1, <1>2, <1>4, <2>2, Numbers DEF Consumed
  <2>4. ASSUME NEW i \in 1..Len(buffer')
        PROVE  buffer'[i] = source'.bytes[Consumed' + i]
    <3>1. i \in 1..(Len(buffer) + n) /\ i \in Nat
      BY <1>1, <1>2, <2>2, Numbers
    <3>2. CASE i <= Len(buffer)
      <4>1. i \in 1..Len(buffer) /\ buffer'[i] = buffer[i]
        BY <1>1, <2>2, <3>1, <3>2, Numbers
      <4>2. QED
        BY <1>1, <1>4, <2>3, <4>1 DEF Buffered
    <3>3. CASE ~(i <= Len(buffer))
      <4>1. /\ i - Len(buffer) \in 1..n
            /\ (pos + 1) + (i - Len(buffer)) - 1 = Consumed + i
        BY <1>1, <1>2, <3>1, <3>3, Numbers
      <4>2. buffer'[i] = more[i - Len(buffer)]
        BY <2>2, <3>1, <3>3
      <4>3. more[i - Len(buffer)] = source.bytes[(pos + 1) + (i - Len(buffer)) - 1]
        BY <1>3, <4>1
      <4>4. QED
        BY <1>4, <2>3, <4>1, <4>2, <4>3
    <3>4. QED
      BY <3>2, <3>3
  <2>5. Buffered'
    BY <2>4 DEF Buffered
  <2>6. ASSUME Quiet(source)
        PROVE  Came' /\ Ahead' /\ NoneKept' /\ Started'
    <3>1. Came /\ Ahead
      BY <2>6 DEF Synced
    <3>2. Came' /\ Ahead'
      BY <1>4, <2>3, <3>1 DEF Came, Ahead, ToCome, EndFrom
    <3>3. NoneKept'
      BY <2>1 DEF NoneKept
    <3>4. Started'
      BY <2>1 DEF Started
    <3>5. QED
      BY <3>2, <3>3, <3>4
  <2>7. Quiet(source') = Quiet(source)
    BY <1>4
  <2>8. QED
    BY <1>1, <1>4, <2>5, <2>6, <2>7 DEF Synced
<1>7. QED
  BY <1>5, <1>6

\* Nothing consumed, nothing taken.
LEMMA InitSynced == Init => Synced
<1> SUFFICES ASSUME Init PROVE Synced
  OBVIOUS
<1>1. /\ source \in Streams /\ pos = 0 /\ Len(buffer) = 0 /\ Len(out) = 0
      /\ Consumed = 0
  <2>1. source \in Streams /\ pos = 0 /\ buffer = <<>> /\ out = <<>>
    BY DEF Init
  <2>2. pos = 0 /\ Len(buffer) = 0 /\ Len(out) = 0
    BY <2>1, EmptySeq
  <2>3. pos - Len(buffer) = 0
    BY <2>2
  <2>4. QED
    BY <2>1, <2>2, <2>3, Zenon DEF Consumed
<1>2. Buffered
  BY <1>1 DEF Buffered
<1>3. Len(source.bytes) \in Nat /\ Len(source.at) \in Nat
  BY <1>1, StreamAssumption, LenProperties
<1>4. ASSUME Quiet(source)
      PROVE  Came /\ Ahead /\ NoneKept /\ Started
  <2>1. ASSUME NEW k \in ToCome
        PROVE  0 < source.at[k] /\ 0 < EndFrom(source.bytes, source.at[k])
    <3>1. k \in 1..Len(source.at)
      BY <1>1, <2>1 DEF ToCome
    <3>2. source.at[k] \in 1..Len(source.bytes) /\ ValidFrom(source.bytes, source.at[k])
      BY <1>4, <3>1 DEF Quiet, Framed
    <3>3. /\ EndFrom(source.bytes, source.at[k]) \in Nat
          /\ source.at[k] < EndFrom(source.bytes, source.at[k])
      BY <1>1, <3>2, StreamAssumption, EndOfWhole DEF ValidFrom
    <3>4. QED
      BY <1>3, <3>2, <3>3
  <2>2. Came
    BY <1>1, <1>3 DEF Came
  <2>3. Ahead /\ Started
    BY <1>1, <2>1 DEF Ahead, Started
  <2>4. NoneKept
    <3>1. ASSUME NEW k \in ToCome
          PROVE  EndFrom(source.bytes, source.at[k]) > pos
      <4>1. k \in 1..Len(source.at)
        BY <1>1, <3>1 DEF ToCome
      <4>2. source.at[k] \in 1..Len(source.bytes) /\ ValidFrom(source.bytes, source.at[k])
        BY <1>4, <4>1 DEF Quiet, Framed
      <4>3. EndFrom(source.bytes, source.at[k]) \in Nat
        BY <1>1, <4>2, StreamAssumption, EndOfWhole DEF ValidFrom
      <4>4. QED
        BY <1>1, <2>1, <4>3
    <3>2. QED
      BY <3>1 DEF NoneKept
  <2>5. QED
    BY <2>2, <2>3, <2>4
<1>5. QED
  BY <1>1, <1>2, <1>4 DEF Synced

\* Every step of the reader stays in step with a quiet stream.
LEMMA StepInStep == ASSUME IInv, Synced, [Next]_vars PROVE Synced'
<1>1. CASE SkipNoise \/ SkipToHeader \/ DropHead \/ SkipPhantom
  BY <1>1, TurnStaysBehind
<1>2. CASE TakeFrame
  BY <1>2, TakeInStep
<1>3. CASE Finish
  BY <1>3, FinishInStep
<1>4. CASE \E n \in 1..(Len(source.bytes) - pos) : Feed(n)
  BY <1>4, FeedInStep
<1>5. CASE UNCHANGED vars
  <2>1. UNCHANGED <<source, pos, phase, buffer, checked, out>>
    BY <1>5 DEF vars
  <2>2. Consumed' = Consumed /\ Quiet(source') = Quiet(source) /\ ToCome' = ToCome
    BY <2>1 DEF Consumed, ToCome
  <2>3. QED
    BY <2>1, <2>2 DEF Synced, Buffered, Came, Ahead, NoneKept, Started, EndFrom
<1>6. QED
  BY <1>1, <1>2, <1>3, <1>4, <1>5 DEF Next, Turn

\* When all of a quiet stream has been read, all its genuine frames are out.
LEMMA AllAreOut == ASSUME IInv, Synced PROVE ExactlyTheFrames
<1> SUFFICES ASSUME AllArrived, Quiet(source) PROVE out = source.frames
  BY DEF ExactlyTheFrames
<1>1. source \in Streams /\ Came /\ NoneKept
  BY DEF Synced
<1>2. Len(source.frames) = Len(source.at) /\ source.frames \in Seq(Seq(Byte))
  BY <1>1, StreamAssumption DEF Quiet, Framed
<1>3. Len(out) = Len(source.at)
  <2>1. SUFFICES ASSUME Len(out) # Len(source.at) PROVE FALSE
    OBVIOUS
  <2>2. Len(source.at) \in ToCome /\ Len(source.at) \in 1..Len(source.at)
    BY <1>1, <2>1, Numbers DEF Came, ToCome
  <2>3. EndFrom(source.bytes, source.at[Len(source.at)]) > Len(source.bytes)
    BY <1>1, <2>2 DEF NoneKept, AllArrived
  <2>4. /\ EndFrom(source.bytes, source.at[Len(source.at)]) <= Len(source.bytes)
        /\ EndFrom(source.bytes, source.at[Len(source.at)]) \in Nat
    BY <1>1, <2>2, GenuineFrame
  <2>5. QED
    BY <1>1, <2>3, <2>4, Numbers
<1>4. \A k \in 1..Len(out) : out[k] = source.frames[k]
  BY <1>1 DEF Came
<1>5. out \in Seq(Seq(Byte))
  BY DEF IInv, TypeOK
<1>6. QED
  BY <1>2, <1>3, <1>4, <1>5, SeqEqual

\* Whatever the cuts, feed() returns every genuine frame of a quiet stream once
\* and in order: no loop of it drops a byte of one, takes a phantom for one, or
\* leaves a whole one in the buffer.
THEOREM GenuineFramesComeOut == Spec => []ExactlyTheFrames
<1>1. Init => IInv /\ Synced
  BY InitIInv, InitSynced
<1>2. IInv /\ Synced /\ [Next]_vars => (IInv /\ Synced)'
  BY StepKeeps, StepInStep
<1>3. IInv /\ Synced => ExactlyTheFrames
  BY AllAreOut
<1>4. QED
  BY <1>1, <1>2, <1>3, PTL DEF Spec

=============================================================================
