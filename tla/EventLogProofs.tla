--------------------------- MODULE EventLogProofs ---------------------------
(***************************************************************************)
(* Theorems about the download of the event buffer, for any happenings,    *)
(* ring and page: what the caller has is the log, what it concludes from   *)
(* that is so, and what a frame told when an event happened agrees.        *)
(*                                                                         *)
(* First the bytes that the panel sends and what decode_events makes of    *)
(* them; then the invariant of the download; then contact_id's tables,     *)
(* and what a caller concludes with them; and last the event's own frame.  *)
(***************************************************************************)
EXTENDS EventLog, CodecProofs

-----------------------------------------------------------------------------
(* Bytes. *)

\* Bytes are numbers.
LEMMA BytesAreNumbers ==
  ASSUME NEW s \in Seq(Byte)
  PROVE  s \in Seq(Nat)
<1>1. Byte \subseteq Nat
  BY DEF Byte
<1> QED
  BY <1>1, LargerSeq

\* Four bytes, most significant first, are the number that they were made of.
LEMMA SerialIsRead ==
  ASSUME NEW n \in Nat, FitsFourBytes(n)
  PROVE  /\ \A k \in 1..4 : SerialBytes(n)[k] \in Byte
         /\ NumberOfBytes(SerialBytes(n)) = n
<1>1. 2^24 = 16777216 /\ 2^16 = 65536 /\ 2^8 = 256
  OBVIOUS
<1>2. ASSUME NEW m \in Nat PROVE m % 256 \in 0..255 /\ m = (m \div 256) * 256 + (m % 256)
  <2>1. m % 256 \in 0..255
    OBVIOUS
  <2>2. m = (m \div 256) * 256 + (m % 256)
    OBVIOUS
  <2> QED
    BY <2>1, <2>2
<1>3. (n \div 256) \div 256 = n \div 65536 /\ (n \div 65536) \div 256 = n \div 16777216
  OBVIOUS
<1> DEFINE a == n \div 256
           b == n \div 65536
           c == n \div 16777216
<1>4. a \in Nat /\ b \in Nat /\ c \in Nat /\ c \in 0..255
  BY <1>1 DEF FitsFourBytes
<1>5. n = a * 256 + (n % 256) /\ a = b * 256 + (a % 256) /\ b = c * 256 + (b % 256)
  BY <1>2, <1>3, <1>4
<1>6. SerialBytes(n) = <<c, b % 256, a % 256, n % 256>>
  BY <1>1 DEF SerialBytes
<1> HIDE DEF a, b, c
<1> QED
  BY <1>2, <1>4, <1>5, <1>6 DEF NumberOfBytes, Byte

\* What is less than a number of four bytes is one, and it is not the greatest.
LEMMA FitsBelow ==
  ASSUME NEW m \in Nat, NEW n \in Nat, m < n, FitsFourBytes(n)
  PROVE  FitsFourBytes(m) /\ m # ((255 * 256 + 255) * 256 + 255) * 256 + 255
<1>1. 2^24 = 16777216
  BY SMT
<1>2. n \div 16777216 <= 255
  BY <1>1, SMT DEF FitsFourBytes
<1>3. m \div 16777216 <= 255 /\ m # ((255 * 256 + 255) * 256 + 255) * 256 + 255
  BY <1>2, SMT
<1> QED
  BY <1>1, <1>3, SMT DEF FitsFourBytes

\* Two decimal digits a byte.
LEMMA DigitsOfAByte ==
  ASSUME NEW n \in 0..99
  PROVE  ToBcd(n) \in Byte /\ IsBcd(ToBcd(n)) /\ BcdToInt(ToBcd(n)) = n
BY DEF ToBcd, IsBcd, BcdToInt, Byte

\* Four decimal digits.
LEMMA FourDigits ==
  ASSUME NEW n \in FourDigit
  PROVE  /\ \A k \in 1..4 : Digits4(n)[k] \in 0..9
         /\ n = ((Digits4(n)[1] * 10 + Digits4(n)[2]) * 10 + Digits4(n)[3]) * 10 + Digits4(n)[4]
         /\ Digits4(n) = <<Digits4(n)[1], Digits4(n)[2], Digits4(n)[3], Digits4(n)[4]>>
<1>0. n \in Nat
  BY DEF FourDigit
<1>1. ASSUME NEW m \in Nat PROVE m % 10 \in 0..9 /\ m = (m \div 10) * 10 + (m % 10)
  <2>1. m % 10 \in 0..9
    OBVIOUS
  <2>2. m = (m \div 10) * 10 + (m % 10)
    OBVIOUS
  <2> QED
    BY <2>1, <2>2
<1>2. (n \div 10) \div 10 = n \div 100 /\ (n \div 100) \div 10 = n \div 1000
  BY <1>0
<1>6. n \div 1000 \in 0..9
  <2>1. n \in Nat /\ n <= 9999
    BY DEF FourDigit
  <2>2. n \div 1000 \in Nat /\ n \div 1000 <= 9
    BY <2>1
  <2> QED
    BY <2>2
<1>7. n \div 1 = n
  BY <1>0
<1> DEFINE a == n \div 10
           b == n \div 100
           c == n \div 1000
<1>3. n = a * 10 + (n % 10) /\ a = b * 10 + (a % 10) /\ b = c * 10 + (b % 10) /\ c % 10 = c
      /\ a \in Nat /\ b \in Nat
  BY <1>0, <1>1, <1>2, <1>6
<1>4. Digits4(n) = <<c, b % 10, a % 10, n % 10>>
  BY <1>2, <1>3, <1>7 DEF Digits4, Digit
<1>5. c \in 0..9 /\ b % 10 \in 0..9 /\ a % 10 \in 0..9 /\ n % 10 \in 0..9
  BY <1>0, <1>1, <1>2, <1>3, <1>6
<1> DEFINE d == Digits4(n)
<1> HIDE DEF a, b, c, d
<1>8. d = <<c, b % 10, a % 10, n % 10>>
  BY <1>4 DEF d
<1>9. /\ \A k \in 1..4 : d[k] \in 0..9
      /\ n = ((d[1] * 10 + d[2]) * 10 + d[3]) * 10 + d[4]
      /\ d = <<d[1], d[2], d[3], d[4]>>
  BY <1>3, <1>5, <1>8
<1> QED
  BY <1>9 DEF d

-----------------------------------------------------------------------------
(* The log and its records. *)

\* What the panel writes down.
Entries == [what : UNION {Happenings[i] : i \in DOMAIN Happenings}, fence : {1, 2, 129, 130}]
LogTyped ==
  /\ log \in Seq(Entries) /\ Len(log) <= Len(Happenings)
  /\ \A n \in 1..Len(log) : log[n].what \in Happenings[n]

\* The record of an event as a client should read it.
TheRecord(n) ==
  [serial |-> SerialBytes(Serial(n)), contact_id |-> Digits4(log[n].what.code),
   subject |-> log[n].what.subject, partition |-> log[n].what.partition, timestamp |-> Clock(n)]

\* What is known of the n-th event of the log.
IsEvent(n) ==
  LET h == log[n].what
  IN /\ n \in Nat \ {0} /\ n \in FourDigit /\ n \in DOMAIN Happenings /\ h \in Happenings[n]
     /\ h.code \in FourDigit /\ h.partition \in 0..99 /\ h.subject \in 0..255
     /\ h.becomes \in BOOLEAN /\ Means(h)
     /\ Serial(n) \in Nat \ {0} /\ FitsFourBytes(Serial(n)) /\ FitsFourBytes(Serial(n) + 1)

\* The fields of a happening in the log.
LEMMA EntryFacts ==
  ASSUME LogTyped, NEW n \in 1..Len(log)
  PROVE  IsEvent(n)
<1>1. Len(Happenings) \in Nat /\ Len(Happenings) <= 9999 /\ DOMAIN Happenings = 1..Len(Happenings)
      /\ FitsFourBytes(FirstSerial + Len(Happenings))
  BY HappeningsAssumption
<1>2. Len(log) \in Nat /\ Len(log) <= Len(Happenings) /\ log[n].what \in Happenings[n]
  BY DEF LogTyped
<1>3. n \in Nat \ {0} /\ n <= 9999 /\ n \in DOMAIN Happenings /\ n \in FourDigit
  BY <1>1, <1>2 DEF FourDigit
<1>4. FirstSerial \in Nat \ {0}
  BY EventLogAssumption
<1>5. Serial(n) \in Nat \ {0} /\ Serial(n) + 1 <= FirstSerial + Len(Happenings)
  BY <1>1, <1>3, <1>4 DEF Serial
<1>6. FitsFourBytes(Serial(n) + 1)
  <2>1. CASE Serial(n) + 1 = FirstSerial + Len(Happenings)
    BY <1>1, <2>1
  <2>2. CASE Serial(n) + 1 < FirstSerial + Len(Happenings)
    BY <1>1, <1>4, <1>5, <2>2, FitsBelow
  <2> QED
    BY <1>1, <1>4, <1>5, <2>1, <2>2
<1>7. \A h \in Happenings[n] :
        /\ h.code \in FourDigit /\ h.partition \in 0..99 /\ h.subject \in 0..255
        /\ h.becomes \in BOOLEAN /\ Means(h)
  <2>1. n \in DOMAIN Happenings
    BY <1>3
  <2> QED
    BY <2>1, HappeningsAssumption
<1>8. FitsFourBytes(Serial(n))
  BY <1>5, <1>6, FitsBelow
<1> QED
  BY <1>2, <1>3, <1>5, <1>6, <1>7, <1>8 DEF IsEvent

\* The clock of an event is six numbers of two digits.
LEMMA ClockDigits ==
  ASSUME NEW n \in FourDigit
  PROVE  \A k \in 1..6 : Clock(n)[k] \in 0..99
<1>0. n \in Nat /\ n <= 9999
  BY DEF FourDigit
<1>1. n \div 100 \in 0..99
  BY <1>0
<1>2. n % 100 \in 0..99
  BY <1>0
<1> QED
  BY <1>1, <1>2 DEF Clock

\* An event's record is read as it was written (decode_events,
\* decode_wireless_clock), and it does not count as an empty slot.
LEMMA RecordIsRead ==
  ASSUME LogTyped, NEW n \in 1..Len(log)
  PROVE  /\ LogBytes(n) \in Seq(Byte) /\ Len(LogBytes(n)) = EVENT_RECORD_SIZE
         /\ Written(LogBytes(n)) /\ EventRecord(LogBytes(n)) = TheRecord(n)
<1> DEFINE h == log[n].what
           d == Digits4(h.code)
           r == LogBytes(n)
           a == SerialBytes(Serial(n))
           b == <<16 * d[1] + d[2], 16 * d[3] + d[4], h.subject, h.partition>>
           c == [k \in 1..6 |-> ToBcd(Clock(n)[k])]
<1>1. /\ n \in FourDigit /\ h.code \in FourDigit /\ h.partition \in 0..99
      /\ h.subject \in 0..255 /\ Serial(n) \in Nat \ {0} /\ FitsFourBytes(Serial(n) + 1)
  <2>1. IsEvent(n)
    BY EntryFacts
  <2> QED
    BY <2>1 DEF IsEvent
<1>2. FitsFourBytes(Serial(n)) /\ Serial(n) # ((255 * 256 + 255) * 256 + 255) * 256 + 255
  BY <1>1, FitsBelow
<1>3. a \in Seq(Byte) /\ Len(a) = 4 /\ NumberOfBytes(a) = Serial(n) /\ a = <<a[1], a[2], a[3], a[4]>>
  <2>1. (\A k \in 1..4 : a[k] \in Byte) /\ NumberOfBytes(a) = Serial(n)
    BY <1>1, <1>2, SerialIsRead
  <2>2. \E w, x, y, z : a = <<w, x, y, z>>
    BY DEF SerialBytes
  <2> HIDE DEF a
  <2> QED
    BY <2>1, <2>2
<1>4. (\A k \in 1..4 : d[k] \in 0..9) /\ d = <<d[1], d[2], d[3], d[4]>>
  BY <1>1, FourDigits
<1>5. b \in Seq(Byte) /\ Len(b) = 4
  <2> HIDE DEF d, h
  <2>0. d[1] \in 0..9 /\ d[2] \in 0..9 /\ d[3] \in 0..9 /\ d[4] \in 0..9
    BY <1>4
  <2>1. \A x, y \in 0..9 : 16 * x + y \in 0..255
    OBVIOUS
  <2>2. h.subject \in Byte /\ h.partition \in Byte
    BY <1>1 DEF Byte
  <2>3. 16 * d[1] + d[2] \in Byte /\ 16 * d[3] + d[4] \in Byte
    BY <2>0, <2>1, Zenon DEF Byte
  <2> QED
    BY <2>2, <2>3
<1>6. c \in Seq(Byte) /\ Len(c) = 6 /\ \A k \in 1..6 : IsBcd(c[k]) /\ BcdToInt(c[k]) = Clock(n)[k]
  <2>1. \A k \in 1..6 : Clock(n)[k] \in 0..99
    BY <1>1, ClockDigits
  <2>2. \A k \in 1..6 : c[k] = ToBcd(Clock(n)[k])
    OBVIOUS
  <2>3. \A k \in 1..6 : c[k] \in Byte /\ IsBcd(c[k]) /\ BcdToInt(c[k]) = Clock(n)[k]
    BY <2>1, <2>2, DigitsOfAByte
  <2>4. c \in Seq(Byte) /\ Len(c) = 6
    BY <2>3
  <2> QED
    BY <2>3, <2>4
<1>7. r = a \o b \o c
  BY DEF LogBytes
<1> HIDE DEF a, b, c, r
<1>8. /\ r \in Seq(Byte) /\ Len(r) = 14 /\ SubSeq(r, 1, 4) = a /\ SubSeq(r, 9, 14) = c
      /\ \A i \in 1..4 : r[4 + i] = b[i]
  <2>1. Parts(Byte, r, a, b, c)
    BY <1>3, <1>5, <1>6, <1>7, ThreeParts
  <2>2. Len(a) = 4 /\ Len(b) = 4 /\ Len(c) = 6
    BY <1>3, <1>5, <1>6
  <2> QED
    BY <2>1, <2>2 DEF Parts
<1>9. r[5] = 16 * d[1] + d[2] /\ r[6] = 16 * d[3] + d[4] /\ r[7] = h.subject /\ r[8] = h.partition
  <2>1. r[5] = b[1] /\ r[6] = b[2] /\ r[7] = b[3] /\ r[8] = b[4]
    BY <1>8
  <2> QED
    BY <2>1 DEF b
<1>10. <<r[5] \div 16, r[5] % 16, r[6] \div 16, r[6] % 16>> = d
  <2> HIDE DEF d
  <2>0. d[1] \in 0..9 /\ d[2] \in 0..9 /\ d[3] \in 0..9 /\ d[4] \in 0..9
    BY <1>4
  <2>1. ASSUME NEW x \in 0..9, NEW y \in 0..9
        PROVE  (16 * x + y) \div 16 = x /\ (16 * x + y) % 16 = y
    OBVIOUS
  <2>2. r[5] \div 16 = d[1] /\ r[5] % 16 = d[2] /\ r[6] \div 16 = d[3] /\ r[6] % 16 = d[4]
    <3>1. (16 * d[1] + d[2]) \div 16 = d[1] /\ (16 * d[1] + d[2]) % 16 = d[2]
      BY <2>0, <2>1
    <3>2. (16 * d[3] + d[4]) \div 16 = d[3] /\ (16 * d[3] + d[4]) % 16 = d[4]
      BY <2>0, <2>1
    <3> QED
      BY <1>9, <3>1, <3>2
  <2> QED
    BY <1>4, <2>2
<1>11. DecodeWirelessClock(c) = Clock(n)
  <2>1. DecodeWirelessClock(c) = [i \in 1..6 |-> BcdToInt(c[i])]
    BY <1>6 DEF DecodeWirelessClock
  <2>2. Clock(n) = [i \in 1..6 |-> Clock(n)[i]]
    BY DEF Clock
  <2> QED
    BY <1>6, <2>1, <2>2
<1>12. EventRecord(r) = TheRecord(n)
  BY <1>8, <1>9, <1>10, <1>11 DEF EventRecord, TheRecord, a
<1>13. Written(r)
  <2>1. a # <<0, 0, 0, 0>> /\ a # <<255, 255, 255, 255>>
    <3>1. a # <<0, 0, 0, 0>>
      BY <1>1, <1>3 DEF NumberOfBytes
    <3>2. a # <<255, 255, 255, 255>>
      BY <1>2, <1>3 DEF NumberOfBytes
    <3> QED
      BY <3>1, <3>2
  <2> QED
    BY <1>8, <2>1 DEF Written
<1> QED
  BY <1>8, <1>12, <1>13 DEF EVENT_RECORD_SIZE, r

\* What PageFrame puts into a slot: an event, or nothing.
EmptySlot(k) == [b \in 1..EVENT_RECORD_SIZE |-> IF k % 2 = 0 THEN 0 ELSE 255]

\* An empty slot does not count.
LEMMA EmptyIsEmpty ==
  ASSUME NEW k \in Nat
  PROVE  /\ EmptySlot(k) \in Seq(Byte) /\ Len(EmptySlot(k)) = EVENT_RECORD_SIZE
         /\ ~Written(EmptySlot(k))
<1> DEFINE x == IF k % 2 = 0 THEN 0 ELSE 255
           s == [b \in 1..14 |-> x]
<1>1. x = 0 \/ x = 255
  OBVIOUS
<1> HIDE DEF x
<1>2. s \in Seq(Byte) /\ Len(s) = 14
  BY <1>1 DEF Byte
<1>3. SubSeq(s, 1, 4) = <<x, x, x, x>>
  <2> DEFINE t == <<x, x, x, x>>
  <2>1. t \in Seq(Byte) /\ Len(t) = 4 /\ \A i \in 1..4 : t[i] = x /\ s[0 + i] = x
    BY <1>1 DEF Byte
  <2> HIDE DEF s, t
  <2>2. SubSeq(s, 0 + 1, 0 + Len(t)) = t
    BY <1>2, <2>1, StretchIs
  <2>3. SubSeq(s, 1, 4) = t
    BY <2>1, <2>2
  <2> QED
    BY <2>3 DEF t
<1>4. ~Written(s)
  BY <1>1, <1>3 DEF Written
<1> QED
  BY <1>2, <1>4 DEF EmptySlot, EVENT_RECORD_SIZE, x

\* The slots of a page, joined between header and checksum, are found again
\* (decode_events' walk by EVENT_RECORD_SIZE from offset 5).
LEMMA SlotsAreFound ==
  ASSUME NEW slots \in Seq(Seq(Nat)),
         \A k \in 1..Len(slots) : Len(slots[k]) = EVENT_RECORD_SIZE,
         NEW head \in Seq(Nat), Len(head) = 5
  PROVE  LET raw == head \o FlattenSeq(slots) \o <<85>>
         IN PageRecords(raw, EVENT_RECORD_SIZE) = slots /\ Len(raw) = 6 + 14 * Len(slots)
<1> DEFINE n == Len(slots)
           flat == FlattenSeq(slots)
           raw == head \o flat \o <<85>>
           start == [k \in 1..(n + 1) |-> 14 * (k - 1)]
<1>1. n \in Nat /\ \A k \in 1..n : slots[k] \in Seq(Nat) /\ Len(slots[k]) = 14
  BY DEF EVENT_RECORD_SIZE
<1>2. start \in [1..(n + 1) -> Nat] /\ start[1] = 0 /\ start[n + 1] = 14 * n
      /\ \A k \in 1..n : start[k] = 14 * (k - 1) /\ start[k + 1] = start[k] + Len(slots[k])
  <2> HIDE DEF n
  <2>1. \A k \in 1..(n + 1) : start[k] = 14 * (k - 1) /\ 14 * (k - 1) \in Nat
    BY <1>1
  <2>2. start \in [1..(n + 1) -> Nat]
    BY <2>1
  <2>3. 1 \in 1..(n + 1) /\ n + 1 \in 1..(n + 1) /\ \A k \in 1..n : k \in 1..(n + 1) /\ k + 1 \in 1..(n + 1)
    BY <1>1
  <2> HIDE DEF start
  <2>4. start[1] = 14 * (1 - 1) /\ start[n + 1] = 14 * ((n + 1) - 1)
    BY <2>1, <2>3
  <2>5. start[1] = 0 /\ start[n + 1] = 14 * n
    BY <1>1, <2>4
  <2>6. ASSUME NEW k \in 1..n
        PROVE  start[k] = 14 * (k - 1) /\ start[k + 1] = start[k] + Len(slots[k])
    <3>1. start[k] = 14 * (k - 1) /\ start[k + 1] = 14 * ((k + 1) - 1) /\ Len(slots[k]) = 14
      BY <1>1, <2>1, <2>3
    <3> QED
      BY <1>1, <3>1
  <2> QED
    BY <2>2, <2>5, <2>6
<1>3. /\ flat \in Seq(Nat) /\ Len(flat) = 14 * n
      /\ \A k \in 1..n : \A b \in 1..14 : flat[14 * (k - 1) + b] = slots[k][b]
  <2> HIDE DEF start
  <2>1. /\ flat \in Seq(Nat) /\ Len(flat) = start[n + 1]
        /\ \A k \in 1..n : \A b \in 1..Len(slots[k]) : flat[start[k] + b] = slots[k][b]
    BY <1>2, FlattenIs
  <2> HIDE DEF flat, n
  <2>2. Len(flat) = 14 * n
    BY <1>2, <2>1
  <2>3. ASSUME NEW k \in 1..n, NEW b \in 1..14
        PROVE  flat[14 * (k - 1) + b] = slots[k][b]
    <3>1. start[k] = 14 * (k - 1) /\ Len(slots[k]) = 14
      BY <1>1, <1>2
    <3>2. b \in 1..Len(slots[k])
      BY <3>1
    <3>3. flat[start[k] + b] = slots[k][b]
      BY <2>1, <3>2
    <3> QED
      BY <3>1, <3>3
  <2> QED
    BY <2>1, <2>2, <2>3
<1>4. <<85>> \in Seq(Nat) /\ Len(<<85>>) = 1
  OBVIOUS
<1> DEFINE tail == <<85>>
<1>5. raw = head \o flat \o tail
  OBVIOUS
<1> HIDE DEF start, flat, raw, n
<1>6. tail \in Seq(Nat) /\ Len(tail) = 1
  BY <1>4
<1> HIDE DEF tail
<1>7. Parts(Nat, raw, head, flat, tail)
  BY <1>3, <1>5, <1>6, ThreeParts
<1>8. raw \in Seq(Nat) /\ Len(raw) = 6 + 14 * n /\ \A i \in 1..(14 * n) : raw[5 + i] = flat[i]
  BY <1>1, <1>3, <1>6, <1>7 DEF Parts
<1>9. ASSUME NEW k \in 1..n PROVE SubSeq(raw, 6 + (k - 1) * 14, 5 + k * 14) = slots[k]
  <2> DEFINE from == 5 + 14 * (k - 1)
  <2>1. from \in Nat /\ from + 14 <= Len(raw) /\ from + 1 = 6 + (k - 1) * 14 /\ from + 14 = 5 + k * 14
    BY <1>1, <1>8
  <2>2. ASSUME NEW b \in 1..14 PROVE raw[from + b] = slots[k][b]
    <3>1. 14 * (k - 1) + b \in 1..(14 * n) /\ from + b = 5 + (14 * (k - 1) + b)
      BY <1>1
    <3> HIDE DEF from
    <3> QED
      BY <1>3, <1>8, <3>1
  <2> HIDE DEF from
  <2>3. SubSeq(raw, from + 1, from + Len(slots[k])) = slots[k]
    <3>1. slots[k] \in Seq(Nat) /\ Len(slots[k]) = 14
      BY <1>1
    <3>2. from + Len(slots[k]) <= Len(raw) /\ \A i \in 1..Len(slots[k]) : raw[from + i] = slots[k][i]
      BY <2>1, <2>2, <3>1
    <3> QED
      BY <1>8, <2>1, <3>1, <3>2, StretchIs
  <2>4. Len(slots[k]) = 14
    BY <1>1
  <2> QED
    BY <2>1, <2>3, <2>4
<1>10. (Len(raw) - 6) \div 14 = n
  BY <1>1, <1>8
<1>11. PageRecords(raw, 14) = [k \in 1..n |-> slots[k]]
  BY <1>9, <1>10 DEF PageRecords
<1>12. slots = [k \in 1..n |-> slots[k]]
  BY DEF n
<1> QED
  BY <1>8, <1>11, <1>12 DEF EVENT_RECORD_SIZE, raw, n, flat, tail

\* The events that the ring still has beyond a serial.
Kept(after) == {i \in DOMAIN log : Serial(i) >= Oldest /\ Serial(i) > after}

\* The records from event first on, m of them.
Run(first, m) == [j \in 1..m |-> TheRecord(first + j - 1)]

\* A page holds the events from the first one beyond the cursor on, as many
\* as there are and it has room for.
IsPage(page, after, perPage) ==
  IF Kept(after) = {} THEN page = <<>>
  ELSE \E first \in Kept(after), m \in 1..perPage :
         /\ \A i \in Kept(after) : first <= i
         /\ first + m - 1 <= Len(log)
         /\ m = perPage \/ first + m - 1 = Len(log)
         /\ page = Run(first, m)

\* What is kept goes to the end of the log.
LEMMA KeptToTheEnd ==
  ASSUME LogTyped, NEW after \in Nat, NEW i \in Kept(after)
  PROVE  /\ Kept(after) \subseteq 1..Len(log) /\ i \in 1..Len(log) /\ Len(log) \in Nat
         /\ i..Len(log) \subseteq Kept(after)
<1>1. Len(log) \in Nat /\ DOMAIN log = 1..Len(log)
  BY DEF LogTyped
<1>2. Kept(after) \subseteq 1..Len(log) /\ i \in 1..Len(log) /\ Serial(i) >= Oldest /\ Serial(i) > after
  BY <1>1 DEF Kept
<1>3. FirstSerial \in Nat
  BY EventLogAssumption
<1>4. Oldest \in Int
  BY <1>1, <1>3, EventLogAssumption DEF Oldest, Serial
<1>5. ASSUME NEW j \in i..Len(log) PROVE j \in Kept(after)
  <2>1. j \in 1..Len(log) /\ Serial(i) \in Int /\ Serial(j) \in Int /\ Serial(i) <= Serial(j)
    BY <1>1, <1>2, <1>3 DEF Serial
  <2> QED
    BY <1>1, <1>2, <1>4, <2>1 DEF Kept
<1> QED
  BY <1>1, <1>2, <1>5

\* A page is decoded into the events that it was made of (decode_events).
LEMMA PageIsRead ==
  ASSUME LogTyped, NEW after \in Nat, NEW perPage \in 1..255
  PROVE  IsPage(Decode(Cmd.READ_EVENTS, PageFrame(after, perPage)), after, perPage)
<1> DEFINE kept == Kept(after)
           first == CHOOSE i \in kept : \A j \in kept : i <= j
           slot(k) == IF kept # {} /\ first + k - 1 \in kept THEN LogBytes(first + k - 1)
                      ELSE EmptySlot(k)
           slots == [k \in 1..perPage |-> slot(k)]
           head == <<123, 7 + 14 * perPage, 1, Cmd.READ_EVENTS, perPage>>
           raw == PageFrame(after, perPage)
           last == Len(log)
<1>1. raw = head \o FlattenSeq(slots) \o <<85>>
  BY DEF PageFrame, EmptySlot, EVENT_RECORD_SIZE, Kept
<1>2. kept \subseteq 1..last /\ last \in Nat /\ DOMAIN log = 1..last
  BY DEF LogTyped, Kept
<1>3. kept # {} => first \in kept /\ \A j \in kept : first <= j
  <2> HIDE DEF kept
  <2> SUFFICES ASSUME kept # {} PROVE \E i \in kept : \A j \in kept : i <= j
    OBVIOUS
  <2>1. kept \subseteq Nat
    BY <1>2
  <2> QED
    BY <2>1, LeastNumber
<1>4. kept # {} => kept = first..last
  <2> SUFFICES ASSUME kept # {} PROVE kept = first..last
    OBVIOUS
  <2>1. first \in kept /\ \A j \in kept : first <= j
    BY <1>3
  <2> HIDE DEF first
  <2>2. first..last \subseteq kept
    BY <2>1, KeptToTheEnd
  <2> HIDE DEF kept
  <2>3. kept \subseteq first..last
    BY <1>2, <2>1
  <2> QED
    BY <2>2, <2>3
<1> DEFINE m == IF kept = {} THEN 0
                ELSE IF last - first + 1 <= perPage THEN last - first + 1 ELSE perPage
<1> HIDE DEF kept, first, raw, head
<1>5. /\ m \in 0..perPage
      /\ kept # {} => /\ first \in 1..last /\ m \in 1..perPage /\ first + m - 1 <= last
                      /\ m = perPage \/ first + m - 1 = last
  <2>1. kept # {} => first \in 1..last
    BY <1>2, <1>3
  <2> HIDE DEF last
  <2>2. CASE kept = {}
    BY <2>2
  <2>3. CASE kept # {}
    <3>1. first \in 1..last /\ last \in Nat /\ perPage \in 1..255
      BY <1>2, <2>1, <2>3
    <3>2. m = IF last - first + 1 <= perPage THEN last - first + 1 ELSE perPage
      BY <2>3
    <3> HIDE DEF m
    <3> QED
      BY <3>1, <3>2
  <2> QED
    BY <2>2, <2>3
<1>6. ASSUME NEW k \in 1..perPage
      PROVE  (kept # {} /\ first + k - 1 \in kept) <=> k <= m
  <2>1. CASE kept = {}
    BY <2>1
  <2>2. CASE kept # {}
    <3>1. first \in 1..last /\ kept = first..last
      BY <1>4, <1>5, <2>2
    <3>2. first + k - 1 \in kept <=> k <= last - first + 1
      <4> HIDE DEF last, m
      <4> QED
        BY <1>2, <3>1
    <3> HIDE DEF last
    <3> QED
      BY <1>2, <2>2, <3>1, <3>2
  <2> QED
    BY <2>1, <2>2
<1> HIDE DEF m
<1>7. ASSUME NEW k \in 1..perPage
      PROVE  /\ slot(k) \in Seq(Nat) /\ Len(slot(k)) = EVENT_RECORD_SIZE
             /\ Written(slot(k)) <=> k <= m
             /\ k <= m => EventRecord(slot(k)) = TheRecord(first + k - 1)
  <2>1. CASE k <= m
    <3>1. first + k - 1 \in 1..last
      BY <1>2, <1>6, <2>1
    <3>2. slot(k) = LogBytes(first + k - 1)
      BY <1>6, <2>1
    <3> HIDE DEF slot, last
    <3>3. /\ LogBytes(first + k - 1) \in Seq(Byte)
          /\ Len(LogBytes(first + k - 1)) = EVENT_RECORD_SIZE /\ Written(LogBytes(first + k - 1))
          /\ EventRecord(LogBytes(first + k - 1)) = TheRecord(first + k - 1)
      BY <3>1, RecordIsRead DEF last
    <3> QED
      BY <2>1, <3>2, <3>3, BytesAreNumbers
  <2>2. CASE ~(k <= m)
    <3>1. slot(k) = EmptySlot(k)
      BY <1>6, <2>2
    <3> HIDE DEF slot
    <3> QED
      BY <2>2, <3>1, EmptyIsEmpty, BytesAreNumbers
  <2> QED
    BY <2>1, <2>2
<1> HIDE DEF slot
<1>8. /\ slots \in Seq(Seq(Nat)) /\ Len(slots) = perPage
      /\ \A k \in 1..Len(slots) : slots[k] = slot(k) /\ Len(slots[k]) = EVENT_RECORD_SIZE
  BY <1>7
<1>9. head \in Seq(Nat) /\ Len(head) = 5
  BY DEF head, Cmd
<1> HIDE DEF slots
<1>10. PageRecords(raw, EVENT_RECORD_SIZE) = slots /\ Len(raw) = 6 + 14 * perPage
  BY <1>1, <1>8, <1>9, SlotsAreFound
<1>11. DecodeEvents(raw) = [j \in 1..m |-> EventRecord(slots[j])]
  <2>1. Len(slots) \in Nat /\ m \in 0..Len(slots) /\ slots = PageRecords(raw, EVENT_RECORD_SIZE)
    BY <1>5, <1>8, <1>10
  <2>2. \A i \in 1..Len(slots) : Written(slots[i]) <=> i <= m
    BY <1>7, <1>8
  <2> QED
    BY <2>1, <2>2, WrittenAreRead
<1>12. DecodeEvents(raw) = Run(first, m)
  <2>1. \A j \in 1..m : EventRecord(slots[j]) = TheRecord(first + j - 1)
    BY <1>5, <1>7, <1>8
  <2> QED
    BY <1>11, <2>1 DEF Run
<1>13. Decode(Cmd.READ_EVENTS, raw) = DecodeEvents(raw)
  <2>1. Len(raw) > 10
    BY <1>10
  <2> QED
    BY <2>1 DEF Decode, Cmd, StatusCommands
<1>14. CASE kept = {}
  <2>1. m = 0
    BY <1>14 DEF m
  <2>2. Run(first, 0) = <<>>
    BY DEF Run
  <2> QED
    BY <1>12, <1>13, <1>14, <2>1, <2>2 DEF IsPage, raw, kept
<1>15. CASE kept # {}
  <2>1. first \in kept /\ (\A j \in kept : first <= j) /\ m \in 1..perPage
        /\ first + m - 1 <= last /\ (m = perPage \/ first + m - 1 = last)
    BY <1>3, <1>5, <1>15
  <2> QED
    BY <1>12, <1>13, <1>15, <2>1 DEF IsPage, raw, kept
<1> QED
  BY <1>14, <1>15

-----------------------------------------------------------------------------
(* The download. *)

\* Which event of the log a record tells.
EventOf(r) == NumberOfBytes(r.serial) - FirstSerial + 1

\* What the caller holds are records of the log, in its order, and the cursor
\* is the last one's serial.
HeldIsLog ==
  /\ held \in Seq({TheRecord(n) : n \in 1..Len(log)})
  /\ \A i, j \in 1..Len(held) : i < j => EventOf(held[i]) < EventOf(held[j])
  /\ cursor = IF held = <<>> THEN 0 ELSE Serial(EventOf(held[Len(held)]))

\* An event that was not lost to the caller is held, or still in the ring.
NothingMissed ==
  \A n \in 1..Len(log) :
    \/ Serial(n) \in unread
    \/ IF Serial(n) <= cursor THEN \E i \in 1..Len(held) : EventOf(held[i]) = n
       ELSE Serial(n) >= Oldest

\* A page goes on after the cursor, and what it leaves out was lost.
Continues(page) ==
  \/ page = <<>>
  \/ \E first, m \in Nat \ {0} :
       /\ first + m - 1 <= Len(log) /\ Serial(first) > cursor /\ page = Run(first, m)
       /\ \A n \in 1..(first - 1) : Serial(n) > cursor => Serial(n) \in unread

\* What is on the wire.
WireIs ==
  \/ wire = None
  \/ wire = BuildEventsRead(cursor, PerPage)
  \/ DOMAIN wire = {"raw"} /\ Continues(Decode(Cmd.READ_EVENTS, wire.raw))

\* What the log is in any case.
DownloadInv == LogTyped /\ HeldIsLog /\ NothingMissed /\ WireIs

\* A record of the log tells its event.
LEMMA RecordTells ==
  ASSUME LogTyped, NEW n \in 1..Len(log)
  PROVE  EventOf(TheRecord(n)) = n /\ NumberOfBytes(TheRecord(n).serial) = Serial(n)
<1>1. Serial(n) \in Nat /\ FitsFourBytes(Serial(n)) /\ n \in Nat
  <2>1. IsEvent(n)
    BY EntryFacts
  <2> QED
    BY <2>1 DEF IsEvent
<1>2. NumberOfBytes(SerialBytes(Serial(n))) = Serial(n)
  BY <1>1, SerialIsRead
<1>3. TheRecord(n).serial = SerialBytes(Serial(n))
  BY DEF TheRecord
<1>4. FirstSerial \in Nat
  BY EventLogAssumption
<1> QED
  BY <1>1, <1>2, <1>3, <1>4 DEF EventOf, Serial

\* What is known of a held record.
LEMMA HeldTells ==
  ASSUME LogTyped, HeldIsLog, NEW i \in 1..Len(held)
  PROVE  /\ Len(held) \in Nat /\ EventOf(held[i]) \in 1..Len(log)
         /\ held[i] = TheRecord(EventOf(held[i]))
         /\ NumberOfBytes(held[i].serial) = Serial(EventOf(held[i]))
<1>1. Len(held) \in Nat /\ held[i] \in {TheRecord(n) : n \in 1..Len(log)}
  BY DEF HeldIsLog
<1>2. PICK n \in 1..Len(log) : held[i] = TheRecord(n)
  BY <1>1
<1>3. EventOf(held[i]) = n /\ NumberOfBytes(held[i].serial) = Serial(n)
  BY <1>2, RecordTells
<1> QED
  BY <1>1, <1>2, <1>3

\* The cursor fits into the request.
LEMMA CursorFits ==
  ASSUME LogTyped, HeldIsLog
  PROVE  cursor \in Nat /\ FitsFourBytes(cursor)
<1>1. CASE held = <<>>
  <2>1. cursor = 0
    BY <1>1 DEF HeldIsLog
  <2>2. 2^24 = 16777216
    BY SMT
  <2>3. 0 \div 16777216 <= 255
    BY SMT
  <2> QED
    BY <2>1, <2>2, <2>3, SMT DEF FitsFourBytes
<1>2. CASE held # <<>>
  <2>1. Len(held) \in 1..Len(held)
    BY <1>2 DEF HeldIsLog
  <2>2. EventOf(held[Len(held)]) \in 1..Len(log)
    BY <2>1, HeldTells
  <2>3. IsEvent(EventOf(held[Len(held)]))
    BY <2>2, EntryFacts
  <2>4. cursor = Serial(EventOf(held[Len(held)]))
    BY <1>2 DEF HeldIsLog
  <2> QED
    BY <2>3, <2>4 DEF IsEvent
<1> QED
  BY <1>1, <1>2

\* The log only grows, by what may happen next.
LEMMA LogGrows ==
  ASSUME LogTyped, Happen
  PROVE  /\ LogTyped' /\ Len(log) \in Nat /\ Len(log') = Len(log) + 1
         /\ \A n \in 1..Len(log) : log'[n] = log[n]
<1>1. log \in Seq(Entries) /\ Len(log) \in Nat /\ Len(log) < Len(Happenings)
      /\ Len(Happenings) \in Nat /\ DOMAIN Happenings = 1..Len(Happenings)
  BY HappeningsAssumption DEF LogTyped, Happen
<1>2. PICK h \in Happenings[Len(log) + 1] : log' = Append(log, [what |-> h, fence |-> FenceByte])
  BY DEF Happen
<1>3. FenceByte \in {1, 2, 129, 130}
  BY DEF FenceByte
<1> DEFINE e == [what |-> h, fence |-> FenceByte]
<1>4. e \in Entries /\ e.what = h
  <2>1. Len(log) + 1 \in DOMAIN Happenings
    BY <1>1
  <2>2. h \in UNION {Happenings[i] : i \in DOMAIN Happenings}
    BY <1>2, <2>1
  <2> QED
    BY <1>3, <2>2 DEF Entries
<1> HIDE DEF e
<1>5. log' = Append(log, e)
  BY <1>2 DEF e
<1>6. log' \in Seq(Entries) /\ Len(log') = Len(log) + 1 /\ log'[Len(log) + 1] = e
      /\ \A n \in 1..Len(log) : log'[n] = log[n]
  BY <1>1, <1>4, <1>5
<1>7. \A n \in 1..Len(log') : log'[n].what \in Happenings[n]
  <2> SUFFICES ASSUME NEW n \in 1..Len(log') PROVE log'[n].what \in Happenings[n]
    OBVIOUS
  <2>1. CASE n = Len(log) + 1
    BY <1>2, <1>4, <1>6, <2>1
  <2>2. CASE n # Len(log) + 1
    <3>1. n \in 1..Len(log)
      BY <1>1, <1>6, <2>2
    <3> QED
      BY <1>6, <3>1 DEF LogTyped
  <2> QED
    BY <2>1, <2>2
<1> QED
  BY <1>1, <1>6, <1>7 DEF LogTyped

\* What was written stays written.
LEMMA RecordsStay ==
  ASSUME LogTyped, Happen
  PROVE  /\ \A n \in 1..Len(log) : TheRecord(n)' = TheRecord(n)
         /\ \A first, m \in Nat \ {0} : first + m - 1 <= Len(log) => Run(first, m)' = Run(first, m)
<1>1. Len(log) \in Nat /\ \A n \in 1..Len(log) : log'[n] = log[n]
  BY LogGrows
<1>2. ASSUME NEW n \in 1..Len(log) PROVE TheRecord(n)' = TheRecord(n)
  BY <1>1 DEF TheRecord, Serial
<1>3. ASSUME NEW first \in Nat \ {0}, NEW m \in Nat \ {0}, first + m - 1 <= Len(log)
      PROVE  Run(first, m)' = Run(first, m)
  <2>1. \A j \in 1..m : first + j - 1 \in 1..Len(log)
    BY <1>1, <1>3
  <2>2. \A j \in 1..m : TheRecord(first + j - 1)' = TheRecord(first + j - 1)
    BY <1>2, <2>1
  <2> QED
    BY <2>2 DEF Run
<1> QED
  BY <1>2, <1>3

\* An event pushes out at most the oldest record.
LEMMA RingTurns ==
  ASSUME LogTyped, Happen
  PROVE  /\ Oldest \in Nat /\ Oldest' \in Nat
         /\ Oldest' = IF Len(log) >= Capacity THEN Oldest + 1 ELSE Oldest
         /\ Serial(Len(log) + 1) >= Oldest'
<1>1. Len(log) \in Nat /\ Len(log') = Len(log) + 1
  BY LogGrows
<1>2. Capacity \in Nat \ {0} /\ FirstSerial \in Nat \ {0}
  BY EventLogAssumption
<1>3. Oldest = FirstSerial + (IF Len(log) > Capacity THEN Len(log) - Capacity + 1 ELSE 1) - 1
  BY DEF Oldest, Serial
<1>4. Oldest' = FirstSerial + (IF Len(log') > Capacity THEN Len(log') - Capacity + 1 ELSE 1) - 1
  BY DEF Oldest, Serial
<1> QED
  BY <1>1, <1>2, <1>3, <1>4 DEF Serial

\* An event keeps the invariant.
LEMMA HappenKeeps ==
  ASSUME DownloadInv, Happen
  PROVE  DownloadInv'
<1>1. LogTyped /\ LogTyped' /\ Len(log) \in Nat /\ Len(log') = Len(log) + 1 /\ HeldIsLog
  BY LogGrows DEF DownloadInv
<1>2. held' = held /\ cursor' = cursor /\ wire' = wire /\ unread \subseteq unread'
  BY DEF Happen
<1>3. HeldIsLog'
  <2>1. {TheRecord(n) : n \in 1..Len(log)} \subseteq {TheRecord(n)' : n \in 1..Len(log')}
    <3>1. \A n \in 1..Len(log) : TheRecord(n)' = TheRecord(n) /\ n \in 1..Len(log')
      BY <1>1, RecordsStay
    <3> QED
      BY <3>1
  <2> DEFINE R == {TheRecord(n) : n \in 1..Len(log)}
             Q == {TheRecord(n)' : n \in 1..Len(log')}
  <2>2. held \in Seq(R) /\ R \subseteq Q
    BY <1>1, <2>1 DEF HeldIsLog
  <2> HIDE DEF R, Q
  <2>3. held \in Seq(Q)
    BY <2>2, LargerSeq
  <2>4. held' \in Seq(Q)
    BY <1>2, <2>3
  <2> QED
    BY <1>1, <1>2, <2>4 DEF HeldIsLog, Q, EventOf, Serial
<1>4. NothingMissed'
  <2> SUFFICES ASSUME NEW n \in 1..Len(log')
               PROVE  \/ Serial(n) \in unread'
                      \/ IF Serial(n) <= cursor THEN \E i \in 1..Len(held) : EventOf(held[i]) = n
                         ELSE Serial(n) >= Oldest'
    BY <1>2 DEF NothingMissed, EventOf, Serial
  <2>1. /\ Oldest \in Nat /\ Oldest' = (IF Len(log) >= Capacity THEN Oldest + 1 ELSE Oldest)
        /\ Serial(Len(log) + 1) >= Oldest' /\ cursor \in Nat /\ Serial(n) \in Nat
    BY <1>1, RingTurns, CursorFits, EventLogAssumption DEF Serial
  <2>2. CASE n = Len(log) + 1
    <3>1. CASE Serial(n) <= cursor
      <4>1. held # <<>> /\ EventOf(held[Len(held)]) \in 1..Len(log)
            /\ cursor = Serial(EventOf(held[Len(held)]))
        <5>1. held # <<>>
          BY <1>1, <2>1, <3>1, EventLogAssumption DEF HeldIsLog, Serial
        <5>2. Len(held) \in 1..Len(held)
          BY <1>1, <5>1 DEF HeldIsLog
        <5> QED
          BY <1>1, <5>1, <5>2, HeldTells DEF HeldIsLog
      <4> QED
        BY <1>1, <2>2, <3>1, <4>1, EventLogAssumption DEF Serial
    <3>2. CASE ~(Serial(n) <= cursor)
      BY <2>1, <2>2, <3>2
    <3> QED
      BY <3>1, <3>2
  <2>3. CASE n # Len(log) + 1
    <3>1. n \in 1..Len(log)
      BY <1>1, <2>3
    <3>2. \/ Serial(n) \in unread
          \/ IF Serial(n) <= cursor THEN \E i \in 1..Len(held) : EventOf(held[i]) = n
             ELSE Serial(n) >= Oldest
      BY <3>1 DEF DownloadInv, NothingMissed
    <3>3. CASE Serial(n) > cursor /\ Serial(n) = Oldest /\ Len(log) >= Capacity
      BY <3>3 DEF Happen
    <3>4. CASE ~(Serial(n) > cursor /\ Serial(n) = Oldest /\ Len(log) >= Capacity)
      BY <1>2, <2>1, <3>2, <3>4
    <3> QED
      BY <3>3, <3>4
  <2> QED
    BY <2>2, <2>3
<1>5. WireIs'
  <2>1. CASE wire = None
    BY <1>2, <2>1 DEF WireIs
  <2>2. CASE wire = BuildEventsRead(cursor, PerPage)
    BY <1>2, <2>2 DEF WireIs
  <2>3. CASE DOMAIN wire = {"raw"} /\ Continues(Decode(Cmd.READ_EVENTS, wire.raw))
    <3> DEFINE page == Decode(Cmd.READ_EVENTS, wire.raw)
    <3> HIDE DEF page
    <3>1. Continues(page)
      BY <2>3 DEF page
    <3>2. CASE page = <<>>
      <4>1. Continues(page)'
        BY <1>2, <3>2 DEF Continues, page
      <4> QED
        BY <1>2, <2>3, <4>1 DEF WireIs, page
    <3>3. CASE page # <<>>
      <4>1. PICK first \in Nat \ {0}, m \in Nat \ {0} :
              /\ first + m - 1 <= Len(log) /\ Serial(first) > cursor /\ page = Run(first, m)
              /\ \A n \in 1..(first - 1) : Serial(n) > cursor => Serial(n) \in unread
        BY <3>1, <3>3 DEF Continues
      <4>2. /\ first + m - 1 <= Len(log') /\ page = Run(first, m)'
            /\ \A n \in 1..(first - 1) : Serial(n) > cursor => Serial(n) \in unread'
        BY <1>1, <1>2, <4>1, RecordsStay
      <4>3. page' = page
        BY <1>2 DEF page
      <4>4. Continues(page)'
        BY <1>2, <4>1, <4>2, <4>3 DEF Continues, Serial
      <4> QED
        BY <1>2, <2>3, <4>4 DEF WireIs, page
    <3> QED
      BY <3>2, <3>3
  <2> QED
    BY <2>1, <2>2, <2>3 DEF DownloadInv, WireIs
<1> QED
  BY <1>1, <1>3, <1>4, <1>5 DEF DownloadInv

-----------------------------------------------------------------------------
(* Numbers in decimal digits. *)

\* v[i] is what the first i digits of a text are worth.
Spells(v, text) ==
  v[0] = 0 /\ \A i \in 1..Len(text) : v[i] = v[i - 1] * 10 + text[i] - 48

\* Such values there are, and a text of digits is the last of them.
LEMMA NumberIsSpelt ==
  ASSUME NEW n \in Nat \ {0}, NEW text, Len(text) = n, DOMAIN text = 1..n, text # <<>>,
         \A k \in 1..n : text[k] \in 48..57
  PROVE  \E v : Spells(v, text) /\ NumberOf(text, None) = v[n]
<1> DEFINE step == [i \in 1..n |-> [v \in Int |-> v * 10 + text[i] - 48]]
           Value(f) == f = [i \in 0..Len(text) |-> IF i = 0 THEN 0 ELSE f[i - 1] * 10 + text[i] - 48]
           h == CHOOSE f : Value(f)
<1>2. NumberOf(text, None) = h[n]
  BY DEF NumberOf
<1>3. step \in [1..n -> [Int -> Int]] /\ \A i \in 1..n, v \in Int : step[i][v] = v * 10 + text[i] - 48
  <2>1. \A i \in 1..n, v \in Int : v * 10 + text[i] - 48 \in Int
    OBVIOUS
  <2> QED
    BY <2>1
<1> HIDE DEF step, h
<1>4. PICK g \in [0..n -> Int] : Rounds(g, n, 0, step)
  <2>1. n \in Nat /\ 0 \in Int
    OBVIOUS
  <2> QED
    BY <1>3, <2>1, LoopExists
<1>5. Value(g)
  <2>1. ASSUME NEW i \in 0..n PROVE g[i] = IF i = 0 THEN 0 ELSE g[i - 1] * 10 + text[i] - 48
    <3>1. CASE i = 0
      BY <1>4, <3>1 DEF Rounds
    <3>2. CASE i # 0
      <4>1. i \in 1..n /\ i - 1 \in 0..n
        BY <3>2
      <4> QED
        BY <1>3, <1>4, <3>2, <4>1 DEF Rounds
    <3> QED
      BY <3>1, <3>2
  <2> QED
    BY <2>1
<1>6. Value(h)
  BY <1>5 DEF h
<1>7. \A i \in 0..n : h[i] = IF i = 0 THEN 0 ELSE h[i - 1] * 10 + text[i] - 48
  BY <1>6
<1>8. Spells(h, text)
  <2>1. 0 \in 0..n /\ \A i \in 1..n : i \in 0..n /\ i # 0
    OBVIOUS
  <2> QED
    BY <1>7, <2>1 DEF Spells
<1> QED
  BY <1>2, <1>8

\* A text of four digits is their number (contact_id of a record, the code of
\* an event frame).
LEMMA NumberOfFour ==
  ASSUME NEW d, \A k \in 1..4 : d[k] \in 0..9
  PROVE  NumberOf([k \in 1..4 |-> 48 + d[k]], None)
           = ((d[1] * 10 + d[2]) * 10 + d[3]) * 10 + d[4]
<1> DEFINE text == [k \in 1..4 |-> 48 + d[k]]
<1>1. Len(text) = 4 /\ DOMAIN text = 1..4 /\ text # <<>> /\ \A k \in 1..4 : text[k] = 48 + d[k]
  OBVIOUS
<1> HIDE DEF text
<1>2. \A k \in 1..4 : text[k] \in 48..57
  BY <1>1
<1>3. PICK v : Spells(v, text) /\ NumberOf(text, None) = v[4]
  <2> DEFINE n == 4
  <2>1. n \in Nat \ {0} /\ Len(text) = n /\ DOMAIN text = 1..n /\ \A k \in 1..n : text[k] \in 48..57
    BY <1>1, <1>2
  <2> HIDE DEF n
  <2>2. \E v : Spells(v, text) /\ NumberOf(text, None) = v[n]
    BY <1>1, <2>1, NumberIsSpelt
  <2> QED
    BY <2>2 DEF n
<1>7. /\ v[0] = 0 /\ v[1] = v[0] * 10 + text[1] - 48 /\ v[2] = v[1] * 10 + text[2] - 48
      /\ v[3] = v[2] * 10 + text[3] - 48 /\ v[4] = v[3] * 10 + text[4] - 48
  BY <1>1, <1>3 DEF Spells
<1>8. /\ text[1] = 48 + d[1] /\ text[2] = 48 + d[2] /\ text[3] = 48 + d[3] /\ text[4] = 48 + d[4]
      /\ d[1] \in 0..9 /\ d[2] \in 0..9 /\ d[3] \in 0..9 /\ d[4] \in 0..9
  BY <1>1
<1> QED
  BY <1>3, <1>7, <1>8 DEF text

\* A record's code is the event's (contact_id of decode_events).
LEMMA CodeIsRead ==
  ASSUME LogTyped, NEW n \in 1..Len(log)
  PROVE  CodeOfRecord(TheRecord(n)) = log[n].what.code
<1> DEFINE d == Digits4(log[n].what.code)
<1>1. log[n].what.code \in FourDigit
  <2>1. IsEvent(n)
    BY EntryFacts
  <2> QED
    BY <2>1 DEF IsEvent
<1>2. /\ \A k \in 1..4 : d[k] \in 0..9
      /\ log[n].what.code = ((d[1] * 10 + d[2]) * 10 + d[3]) * 10 + d[4]
  BY <1>1, FourDigits
<1>3. CodeOfRecord(TheRecord(n)) = NumberOf([k \in 1..4 |-> 48 + d[k]], None)
  BY DEF CodeOfRecord, TheRecord
<1> HIDE DEF d
<1> QED
  BY <1>2, <1>3, NumberOfFour

\* A page that the panel sends goes on after the cursor (build_events_read's
\* four bytes and decode_events).
LEMMA PanelPagesKeeps ==
  ASSUME DownloadInv, PanelPages
  PROVE  DownloadInv'
<1>1. LogTyped /\ HeldIsLog /\ NothingMissed /\ WireIs
  BY DEF DownloadInv
<1>2. log' = log /\ unread' = unread /\ held' = held /\ cursor' = cursor
      /\ wire # None /\ DOMAIN wire = {"cmd", "payload"}
      /\ wire' = [raw |-> PageFrame(NumberOfBytes(Tail(wire.payload)), wire.payload[1])]
  BY DEF PanelPages
<1>3. wire = BuildEventsRead(cursor, PerPage)
  <2>1. {"cmd", "payload"} # {"raw"}
    OBVIOUS
  <2> QED
    BY <1>1, <1>2, <2>1 DEF WireIs
<1>4. cursor \in Nat /\ FitsFourBytes(cursor) /\ PerPage \in 1..255
  BY <1>1, CursorFits, EventLogAssumption
<1>5. wire.payload[1] = PerPage /\ NumberOfBytes(Tail(wire.payload)) = cursor
  <2> DEFINE s == SerialBytes(cursor)
             p == wire.payload
  <2>1. p = <<PerPage, s[1], s[2], s[3], s[4]>> /\ s = <<s[1], s[2], s[3], s[4]>>
    BY <1>3 DEF BuildEventsRead, BuildFrame, SerialBytes
  <2>2. NumberOfBytes(s) = cursor
    BY <1>4, SerialIsRead
  <2> HIDE DEF s, p
  <2>3. p[1] = PerPage /\ Tail(p) = s
    BY <2>1
  <2> QED
    BY <2>2, <2>3 DEF p
<1> DEFINE raw == PageFrame(cursor, PerPage)
           page == Decode(Cmd.READ_EVENTS, raw)
<1>6. wire' = [raw |-> raw]
  BY <1>2, <1>5
<1>7. IsPage(page, cursor, PerPage)
  BY <1>1, <1>4, PageIsRead
<1> HIDE DEF page
<1>8. Continues(page)
  <2>1. CASE Kept(cursor) = {}
    BY <1>7, <2>1 DEF IsPage, Continues
  <2>2. CASE Kept(cursor) # {}
    <3>1. PICK first \in Kept(cursor), m \in 1..PerPage :
            /\ \A i \in Kept(cursor) : first <= i
            /\ first + m - 1 <= Len(log) /\ page = Run(first, m)
      BY <1>7, <2>2 DEF IsPage
    <3>2. first \in 1..Len(log) /\ Len(log) \in Nat /\ Serial(first) > cursor
      BY <1>1, <1>4, <3>1, KeptToTheEnd DEF Kept
    <3>3. ASSUME NEW n \in 1..(first - 1), Serial(n) > cursor PROVE Serial(n) \in unread
      <4>1. n \in 1..Len(log) /\ ~(first <= n)
        BY <3>2
      <4>2. n \notin Kept(cursor)
        BY <3>1, <4>1
      <4>3. ~(Serial(n) >= Oldest)
        BY <1>1, <3>3, <4>1, <4>2 DEF Kept, LogTyped
      <4>4. Serial(n) \in Nat
        BY <4>1, EventLogAssumption DEF Serial
      <4> QED
        BY <1>1, <1>4, <3>3, <4>1, <4>3, <4>4 DEF NothingMissed
    <3>4. first \in Nat \ {0} /\ m \in Nat \ {0}
      BY <1>4, <3>1, <3>2
    <3> QED
      BY <3>1, <3>2, <3>3, <3>4 DEF Continues
  <2> QED
    BY <2>1, <2>2
<1> HIDE DEF raw
<1>9. WireIs'
  <2>1. Decode(Cmd.READ_EVENTS, wire'.raw) = page /\ DOMAIN wire' = {"raw"}
    BY <1>6 DEF page
  <2>2. Continues(Decode(Cmd.READ_EVENTS, wire.raw))'
    BY <1>2, <1>8, <2>1 DEF Continues, Run, TheRecord, Serial
  <2> QED
    BY <2>1, <2>2 DEF WireIs
<1>10. LogTyped' /\ HeldIsLog' /\ NothingMissed'
  BY <1>1, <1>2 DEF LogTyped, HeldIsLog, NothingMissed, TheRecord, EventOf, Serial, Oldest
<1> QED
  BY <1>9, <1>10 DEF DownloadInv

\* The caller appends a page and goes on from its last record.
LEMMA TakePageKeeps ==
  ASSUME DownloadInv, TakePage
  PROVE  DownloadInv'
<1>1. LogTyped /\ HeldIsLog /\ NothingMissed /\ WireIs
  BY DEF DownloadInv
<1> DEFINE page == Decode(Cmd.READ_EVENTS, wire.raw)
<1>2. /\ log' = log /\ unread' = unread /\ wire' = None /\ wire # None /\ DOMAIN wire = {"raw"}
      /\ held' = held \o page
      /\ cursor' = IF page = <<>> THEN cursor ELSE NumberOfBytes(page[Len(page)].serial)
  BY DEF TakePage
<1>3. Continues(page)
  <2>1. \A x, y : DOMAIN BuildEventsRead(x, y) = {"cmd", "payload"}
    BY DEF BuildEventsRead, BuildFrame
  <2>2. {"cmd", "payload"} # {"raw"}
    OBVIOUS
  <2> QED
    BY <1>1, <1>2, <2>1, <2>2 DEF WireIs
<1> HIDE DEF page
<1>4. LogTyped' /\ WireIs'
  BY <1>1, <1>2 DEF LogTyped, WireIs
<1> DEFINE R == {TheRecord(n) : n \in 1..Len(log)}
<1>5. held \in Seq(R) /\ Len(log) \in Nat /\ Len(held) \in Nat
  BY <1>1 DEF HeldIsLog, LogTyped
<1>6. CASE page = <<>>
  <2>1. held' = held /\ cursor' = cursor
    BY <1>2, <1>5, <1>6
  <2>2. HeldIsLog' /\ NothingMissed'
    BY <1>1, <1>2, <2>1 DEF HeldIsLog, NothingMissed, TheRecord, EventOf, Serial, Oldest
  <2> QED
    BY <1>4, <2>2 DEF DownloadInv
<1>7. CASE page # <<>>
  <2>1. PICK first \in Nat \ {0}, m \in Nat \ {0} :
          /\ first + m - 1 <= Len(log) /\ Serial(first) > cursor /\ page = Run(first, m)
          /\ \A n \in 1..(first - 1) : Serial(n) > cursor => Serial(n) \in unread
    BY <1>3, <1>7 DEF Continues
  <2>2. /\ page \in Seq(R) /\ Len(page) = m
        /\ \A j \in 1..m : /\ page[j] = TheRecord(first + j - 1) /\ first + j - 1 \in 1..Len(log)
                           /\ EventOf(page[j]) = first + j - 1
                           /\ NumberOfBytes(page[j].serial) = Serial(first + j - 1)
    <3>1. \A j \in 1..m : first + j - 1 \in 1..Len(log)
      BY <1>5, <2>1
    <3>2. Len(page) = m /\ \A j \in 1..m : page[j] = TheRecord(first + j - 1)
      BY <2>1 DEF Run
    <3>3. \A j \in 1..m : TheRecord(first + j - 1) \in R
      BY <3>1
    <3>4. \A j \in 1..m : EventOf(page[j]) = first + j - 1
                          /\ NumberOfBytes(page[j].serial) = Serial(first + j - 1)
      BY <1>1, <3>1, <3>2, RecordTells
    <3> HIDE DEF R
    <3>5. page \in Seq(R)
      BY <2>1, <3>2, <3>3 DEF Run
    <3> QED
      BY <3>1, <3>2, <3>4, <3>5
  <2> HIDE DEF R
  <2>3. held \o page \in Seq(R) /\ Len(held \o page) = Len(held) + m
    BY <1>5, <2>2, ConcatProperties
  <2>4. \A i \in 1..Len(held) : held'[i] = held[i]
    BY <1>2, <1>5, <2>2
  <2>5. \A j \in 1..m : held'[Len(held) + j] = page[j]
    BY <1>2, <1>5, <2>2
  <2>6. held' \in Seq(R) /\ Len(held') = Len(held) + m
    BY <1>2, <2>3
  <2>7. cursor' = Serial(first + m - 1) /\ EventOf(held'[Len(held')]) = first + m - 1
    <3>1. m \in 1..m /\ page[Len(page)] = page[m]
      BY <2>2
    <3>2. cursor' = NumberOfBytes(page[m].serial)
      BY <1>2, <1>7, <3>1
    <3>3. held'[Len(held')] = page[m]
      BY <2>5, <2>6, <3>1
    <3> QED
      BY <2>2, <3>1, <3>2, <3>3
  <2>8. \A i \in 1..Len(held) : EventOf(held[i]) \in 1..(first - 1)
    <3> SUFFICES ASSUME NEW i \in 1..Len(held) PROVE EventOf(held[i]) \in 1..(first - 1)
      OBVIOUS
    <3>1. /\ EventOf(held[i]) \in 1..Len(log) /\ Len(held) \in 1..Len(held)
          /\ EventOf(held[Len(held)]) \in 1..Len(log)
      BY <1>1, <1>5, HeldTells
    <3>2. EventOf(held[i]) <= EventOf(held[Len(held)])
      <4>1. CASE i = Len(held)
        BY <3>1, <4>1
      <4>2. CASE i # Len(held)
        <5>1. i < Len(held)
          BY <1>5, <4>2
        <5>2. EventOf(held[i]) < EventOf(held[Len(held)])
          BY <1>1, <3>1, <5>1 DEF HeldIsLog
        <5> QED
          BY <3>1, <5>2
      <4> QED
        BY <4>1, <4>2
    <3>3. cursor = Serial(EventOf(held[Len(held)]))
      <4>1. held # <<>>
        BY <1>5
      <4> QED
        BY <1>1, <4>1 DEF HeldIsLog
    <3> QED
      BY <1>5, <2>1, <3>1, <3>2, <3>3, EventLogAssumption DEF Serial
  <2>9. ASSUME NEW i \in 1..Len(held'), NEW j \in 1..Len(held'), i < j
        PROVE  EventOf(held'[i]) < EventOf(held'[j])
    <3>1. CASE j \in 1..Len(held)
      <4>1. i \in 1..Len(held)
        BY <1>5, <2>9, <3>1
      <4> QED
        BY <1>1, <2>4, <2>9, <3>1, <4>1 DEF HeldIsLog
    <3>2. CASE j \notin 1..Len(held)
      <4>1. j - Len(held) \in 1..m /\ j = Len(held) + (j - Len(held))
        BY <1>5, <2>6, <3>2
      <4>2. EventOf(held'[j]) = first + (j - Len(held)) - 1
        BY <2>2, <2>5, <4>1
      <4>3. CASE i \in 1..Len(held)
        <5>1. EventOf(held'[i]) \in 1..(first - 1)
          BY <2>4, <2>8, <4>3
        <5> QED
          BY <1>5, <4>1, <4>2, <5>1
      <4>4. CASE i \notin 1..Len(held)
        <5>1. i - Len(held) \in 1..m /\ i = Len(held) + (i - Len(held))
          BY <1>5, <2>6, <4>4
        <5>2. EventOf(held'[i]) = first + (i - Len(held)) - 1
          BY <2>2, <2>5, <5>1
        <5> QED
          BY <1>5, <2>9, <4>1, <4>2, <5>1, <5>2
      <4> QED
        BY <4>3, <4>4
    <3> QED
      BY <3>1, <3>2
  <2>10. HeldIsLog'
    <3>1. held' # <<>>
      BY <1>5, <2>1, <2>6
    <3>2. R = {TheRecord(n)' : n \in 1..Len(log')}
      BY <1>2 DEF R, TheRecord, Serial
    <3> QED
      BY <2>6, <2>7, <2>9, <3>1, <3>2 DEF HeldIsLog, EventOf, Serial
  <2>11. NothingMissed'
    <3> SUFFICES ASSUME NEW n \in 1..Len(log)
                 PROVE  \/ Serial(n) \in unread
                        \/ IF Serial(n) <= cursor' THEN \E i \in 1..Len(held') : EventOf(held'[i]) = n
                           ELSE Serial(n) >= Oldest
      BY <1>2 DEF NothingMissed, EventOf, Serial, Oldest
    <3>1. /\ Serial(n) \in Nat /\ cursor \in Nat /\ cursor' \in Nat /\ first \in 1..Len(log)
          /\ Serial(n) <= cursor' <=> n <= first + m - 1
          /\ Serial(n) >= Serial(first) <=> n >= first
      BY <1>1, <1>5, <2>1, <2>7, CursorFits, EventLogAssumption DEF Serial
    <3>2. CASE n \in first..(first + m - 1)
      <4>1. n - first + 1 \in 1..m /\ first + (n - first + 1) - 1 = n
        BY <2>1, <3>2
      <4>2. EventOf(held'[Len(held) + (n - first + 1)]) = n
        BY <2>2, <2>5, <4>1
      <4>3. Len(held) + (n - first + 1) \in 1..Len(held')
        BY <1>5, <2>6, <4>1
      <4>4. \E i \in 1..Len(held') : EventOf(held'[i]) = n
        BY <4>2, <4>3
      <4>5. n <= first + m - 1
        BY <2>1, <3>2
      <4> QED
        BY <3>1, <4>4, <4>5
    <3>3. CASE n < first /\ Serial(n) > cursor
      <4>1. n \in 1..(first - 1)
        BY <3>1, <3>3
      <4> QED
        BY <2>1, <3>3, <4>1
    <3>4. CASE n < first /\ ~(Serial(n) > cursor)
      <4>1. Serial(n) \in unread \/ \E i \in 1..Len(held) : EventOf(held[i]) = n
        BY <1>1, <3>1, <3>4 DEF NothingMissed
      <4>2. \A i \in 1..Len(held) : i \in 1..Len(held')
        BY <1>5, <2>1, <2>6
      <4>3. n <= first + m - 1
        BY <2>1, <3>4
      <4> QED
        BY <2>4, <3>1, <4>1, <4>2, <4>3
    <3>5. CASE n > first + m - 1
      <4>1. ~(Serial(n) <= cursor') /\ ~(Serial(n) <= cursor)
        BY <1>5, <2>1, <3>1, <3>5, EventLogAssumption DEF Serial
      <4> QED
        BY <1>1, <4>1 DEF NothingMissed
    <3> QED
      BY <2>1, <3>2, <3>3, <3>4, <3>5
  <2> QED
    BY <1>4, <2>10, <2>11 DEF DownloadInv
<1> QED
  BY <1>6, <1>7

\* The other steps of the caller keep what there is.
LEMMA AskOrLoseKeeps ==
  ASSUME DownloadInv, AskPage \/ LosePage \/ UNCHANGED vars
  PROVE  DownloadInv'
<1>1. LogTyped /\ HeldIsLog /\ NothingMissed /\ WireIs
  BY DEF DownloadInv
<1>2. log' = log /\ unread' = unread /\ held' = held /\ cursor' = cursor
      /\ (wire' = wire \/ wire' = None \/ wire' = BuildEventsRead(cursor, PerPage))
  BY DEF AskPage, LosePage, vars
<1>3. LogTyped' /\ HeldIsLog' /\ NothingMissed'
  BY <1>1, <1>2 DEF LogTyped, HeldIsLog, NothingMissed, TheRecord, EventOf, Serial, Oldest
<1>4. WireIs'
  <2>1. CASE wire' = wire
    BY <1>1, <1>2, <2>1 DEF WireIs, Continues, Run, TheRecord, Serial
  <2>2. CASE wire' = None \/ wire' = BuildEventsRead(cursor, PerPage)
    BY <1>2, <2>2 DEF WireIs
  <2> QED
    BY <1>2, <2>1, <2>2
<1> QED
  BY <1>3, <1>4 DEF DownloadInv

\* It is an invariant.
LEMMA DownloadInvariant == Spec => []DownloadInv
<1>1. Init => DownloadInv
  <2> SUFFICES ASSUME Init PROVE DownloadInv
    OBVIOUS
  <2>1. LogTyped
    BY HappeningsAssumption DEF Init, LogTyped
  <2>2. HeldIsLog
    BY DEF Init, HeldIsLog
  <2>3. NothingMissed /\ WireIs
    BY DEF Init, NothingMissed, WireIs
  <2> QED
    BY <2>1, <2>2, <2>3 DEF DownloadInv
<1>2. DownloadInv /\ [Next]_vars => DownloadInv'
  BY HappenKeeps, PanelPagesKeeps, TakePageKeeps, AskOrLoseKeeps DEF Next
<1> QED
  BY <1>1, <1>2, PTL DEF Spec

\* The caller's download is the log in its order, without a record twice, and
\* what is missing below the cursor was overwritten before it was asked for.
THEOREM DownloadIsRight == Spec => []DownloadIsTheLog
<1>1. ASSUME DownloadInv PROVE DownloadIsTheLog
  <2>1. LogTyped /\ HeldIsLog /\ NothingMissed
    BY <1>1 DEF DownloadInv
  <2>2. Len(held) \in Nat /\ Len(log) \in Nat /\ DOMAIN held = 1..Len(held)
        /\ DOMAIN log = 1..Len(log)
    BY <2>1 DEF HeldIsLog, LogTyped
  <2>3. ASSUME NEW i \in 1..(Len(held) - 1)
        PROVE  NumberOfBytes(held[i].serial) < NumberOfBytes(held[i + 1].serial)
    <3>1. i \in 1..Len(held) /\ i + 1 \in 1..Len(held) /\ i < i + 1
      BY <2>2
    <3>2. EventOf(held[i]) < EventOf(held[i + 1])
      BY <2>1, <3>1 DEF HeldIsLog
    <3>3. /\ EventOf(held[i]) \in 1..Len(log) /\ EventOf(held[i + 1]) \in 1..Len(log)
          /\ NumberOfBytes(held[i].serial) = Serial(EventOf(held[i]))
          /\ NumberOfBytes(held[i + 1].serial) = Serial(EventOf(held[i + 1]))
      BY <2>1, <3>1, HeldTells
    <3> QED
      BY <2>2, <3>2, <3>3, EventLogAssumption DEF Serial
  <2>4. ASSUME NEW i \in 1..Len(held)
        PROVE  LET n == NumberOfBytes(held[i].serial) - FirstSerial + 1
               IN /\ n \in 1..Len(log) /\ held[i].timestamp = Clock(n)
                  /\ CodeOfRecord(held[i]) = log[n].what.code
    <3> DEFINE n == EventOf(held[i])
    <3>1. n \in 1..Len(log) /\ held[i] = TheRecord(n)
      BY <2>1, HeldTells
    <3> HIDE DEF n
    <3>2. CodeOfRecord(TheRecord(n)) = log[n].what.code /\ TheRecord(n).timestamp = Clock(n)
      BY <2>1, <3>1, CodeIsRead DEF TheRecord
    <3> QED
      BY <3>1, <3>2 DEF n, EventOf
  <2>5. (FirstSerial..cursor) \ HeldSerials \subseteq unread
    <3> SUFFICES ASSUME NEW s \in FirstSerial..cursor, s \notin HeldSerials PROVE s \in unread
      OBVIOUS
    <3>1. held # <<>>
      BY <2>1, EventLogAssumption DEF HeldIsLog
    <3>2. Len(held) \in 1..Len(held)
      BY <2>1, <3>1 DEF HeldIsLog
    <3>3. EventOf(held[Len(held)]) \in 1..Len(log) /\ cursor = Serial(EventOf(held[Len(held)]))
      BY <2>1, <3>1, <3>2, HeldTells DEF HeldIsLog
    <3> DEFINE n == s - FirstSerial + 1
    <3>4. n \in 1..Len(log) /\ Serial(n) = s /\ Serial(n) <= cursor
      BY <2>2, <3>3, EventLogAssumption DEF Serial
    <3> HIDE DEF n
    <3>5. ASSUME NEW i \in 1..Len(held), EventOf(held[i]) = n PROVE FALSE
      <4>1. NumberOfBytes(held[i].serial) = s
        BY <2>1, <3>4, <3>5, HeldTells
      <4> QED
        BY <2>2, <4>1 DEF HeldSerials
    <3> QED
      BY <2>1, <3>4, <3>5 DEF NothingMissed
  <2> QED
    BY <2>2, <2>3, <2>4, <2>5 DEF DownloadIsTheLog
<1> QED
  BY <1>1, DownloadInvariant, PTL

-----------------------------------------------------------------------------
(* What the codes say. *)

\* The codes 2000 above.
LEMMA RestoredIs ==
  ASSUME NEW S, S \subseteq Int, NEW c
  PROVE  c \in Restored(S) <=> c \in Int /\ c - 2000 \in S
BY DEF Restored

\* The kinds of contact_id's table by their codes.
LEMMA KindTable ==
  ASSUME NEW c \in Nat
  PROVE  /\ DOMAIN Kinds = {"alarm", "alarm_restore", "arm", "disarm", "bypass", "trouble", "tamper",
                            "trouble_restore", "panic", "medical", "fire", "test", "system"}
         /\ c \in Kinds["alarm"] <=> c \in {1130, 1134}
         /\ c \in Kinds["alarm_restore"] <=> c - 2000 \in {1130, 1134}
         /\ c \in Kinds["arm"] <=> c \in {3401, 3403, 3404, 3407, 3408, 3409, 3441, 3464}
         /\ c \in Kinds["disarm"] <=> c \in {1401, 1403, 1407, 1409}
         /\ c \in Kinds["bypass"] <=> c \in {1570, 1573}
         /\ c \in Kinds["trouble"] <=> c \in PairedTroubles \/ c = 1311
         /\ c \in Kinds["tamper"] <=> c \in Tampers
         /\ c \in Kinds["trouble_restore"] <=> c - 2000 \in PairedTroubles \/ c - 2000 \in Tampers
         /\ c \in Kinds["panic"] <=> c \in {1120, 1121, 1122, 1123}
         /\ c \in Kinds["medical"] <=> c = 1100
         /\ c \in Kinds["fire"] <=> c = 1110
         /\ c \in Kinds["test"] <=> c \in {1602, 1611, 1612}
         /\ c \in Kinds["system"] <=> c \in {1305, 1306, 1410, 1412, 1417, 1419, 1421, 1422, 3422,
                                             1429, 1430, 1627, 1628}
<1>1. {1130, 1134} \subseteq Int /\ PairedTroubles \cup Tampers \subseteq Int
  BY DEF PairedTroubles, Tampers
<1>2. c \in Restored({1130, 1134}) <=> c - 2000 \in {1130, 1134}
  BY <1>1, RestoredIs
<1>3. c \in Restored(PairedTroubles \cup Tampers) <=> c - 2000 \in PairedTroubles \/ c - 2000 \in Tampers
  BY <1>1, RestoredIs
<1> QED
  BY <1>2, <1>3 DEF Kinds

\* No code is of two kinds.
LEMMA KindsDiffer ==
  ASSUME NEW k \in DOMAIN Kinds, NEW j \in DOMAIN Kinds, NEW c \in Nat, c \in Kinds[k], c \in Kinds[j]
  PROVE  j = k
<1>1. /\ DOMAIN Kinds = {"alarm", "alarm_restore", "arm", "disarm", "bypass", "trouble", "tamper",
                         "trouble_restore", "panic", "medical", "fire", "test", "system"}
  BY KindTable
<1> QED
  BY <1>1, KindTable, SMTT(60) DEF PairedTroubles, Tampers

\* A code of the table has its kind, and a code beyond it none.
LEMMA KindIs ==
  ASSUME NEW c \in Nat
  PROVE  /\ \A k \in DOMAIN Kinds : c \in Kinds[k] => KindOf(c) = k /\ c \in Codes
         /\ c \notin Codes => KindOf(c) = "unknown"
<1>1. ASSUME NEW k \in DOMAIN Kinds, c \in Kinds[k] PROVE KindOf(c) = k /\ c \in Codes
  <2>1. c \in Codes
    BY <1>1 DEF Codes
  <2>2. \A j \in DOMAIN Kinds : c \in Kinds[j] => j = k
    BY <1>1, KindsDiffer
  <2>3. (CHOOSE j \in DOMAIN Kinds : c \in Kinds[j]) = k
    BY <1>1, <2>2
  <2> QED
    BY <2>1, <2>3 DEF KindOf
<1> QED
  BY <1>1 DEF KindOf

\* The codes that are about a zone and those about a user.
LEMMA SubjectTable ==
  ASSUME NEW c \in Nat
  PROVE  /\ c \in ZoneCodes <=>
              \/ c \in {1130, 1134, 1137, 1139, 1370, 1381, 1383, 1384, 1570, 1573}
              \/ c - 2000 \in {1130, 1134, 1137, 1139, 1370, 1381, 1383, 1384}
         /\ c \in UserCodes <=>
              c \in {1120, 1121, 1122, 1123, 1100, 1110, 3401, 3403, 3404, 3407, 3408, 3409, 3441,
                     3464, 1401, 1403, 1407, 1409, 1306, 1410, 1412, 1419, 1421, 1422, 3422, 1429,
                     1430, 1627, 1628, 1611, 1612}
<1> DEFINE wired == {1130, 1134, 1137, 1139, 1370, 1381, 1383, 1384}
<1>1. wired \subseteq Int
  OBVIOUS
<1>2. c \in Restored(wired) <=> c - 2000 \in wired
  BY <1>1, RestoredIs
<1>3. c \in Kinds["bypass"] <=> c \in {1570, 1573}
  BY KindTable
<1>4. c \in ZoneCodes <=> c \in wired \/ c \in Restored(wired) \/ c \in Kinds["bypass"]
  BY DEF ZoneCodes
<1>5. c \in UserCodes <=> /\ \/ c \in Kinds["panic"] \/ c \in Kinds["medical"] \/ c \in Kinds["fire"]
                             \/ c \in Kinds["arm"] \/ c \in Kinds["disarm"] \/ c \in Kinds["system"]
                             \/ c \in Kinds["test"]
                          /\ c \notin {1305, 1417, 1602}
  BY DEF UserCodes
<1>6. c \in ZoneCodes <=> c \in wired \/ c - 2000 \in wired \/ c \in {1570, 1573}
  BY <1>2, <1>3, <1>4
<1>7. /\ c \in Kinds["panic"] <=> c \in {1120, 1121, 1122, 1123}
      /\ c \in Kinds["medical"] <=> c = 1100
      /\ c \in Kinds["fire"] <=> c = 1110
      /\ c \in Kinds["arm"] <=> c \in {3401, 3403, 3404, 3407, 3408, 3409, 3441, 3464}
      /\ c \in Kinds["disarm"] <=> c \in {1401, 1403, 1407, 1409}
      /\ c \in Kinds["system"] <=> c \in {1305, 1306, 1410, 1412, 1417, 1419, 1421, 1422, 3422,
                                          1429, 1430, 1627, 1628}
      /\ c \in Kinds["test"] <=> c \in {1602, 1611, 1612}
  BY KindTable
<1>8. c \in UserCodes <=>
        c \in {1120, 1121, 1122, 1123, 1100, 1110, 3401, 3403, 3404, 3407, 3408, 3409, 3441,
               3464, 1401, 1403, 1407, 1409, 1306, 1410, 1412, 1419, 1421, 1422, 3422, 1429,
               1430, 1627, 1628, 1611, 1612}
  BY <1>5, <1>7
<1> QED
  BY <1>6, <1>8

\* The code of a wireless sensor's trouble, and of its end, tells which it is.
LEMMA AlertIs ==
  ASSUME NEW c \in Nat
  PROVE  /\ \A t \in DOMAIN ZONE_ALERTS, b \in BOOLEAN :
              c = ZONE_ALERTS[t] + (IF b THEN 0 ELSE 2000)
                => ZoneAlert(c) = {[alert |-> t, sets |-> b]}
         /\ (\A t \in DOMAIN ZONE_ALERTS : c # ZONE_ALERTS[t] /\ c # ZONE_ALERTS[t] + 2000)
              => ZoneAlert(c) = {}
<1>1. ASSUME NEW t \in DOMAIN ZONE_ALERTS, NEW b \in BOOLEAN,
             c = ZONE_ALERTS[t] + (IF b THEN 0 ELSE 2000)
      PROVE  ZoneAlert(c) = {[alert |-> t, sets |-> b]}
  <2>1. ASSUME NEW a \in [alert : DOMAIN ZONE_ALERTS, sets : BOOLEAN],
               c = ZONE_ALERTS[a.alert] + (IF a.sets THEN 0 ELSE 2000)
        PROVE  a.alert = t /\ a.sets = b
    BY <1>1, <2>1 DEF ZONE_ALERTS
  <2>2. \A a \in [alert : DOMAIN ZONE_ALERTS, sets : BOOLEAN] :
          a.alert = t /\ a.sets = b => a = [alert |-> t, sets |-> b]
    OBVIOUS
  <2>3. [alert |-> t, sets |-> b] \in [alert : DOMAIN ZONE_ALERTS, sets : BOOLEAN]
    OBVIOUS
  <2>4. [alert |-> t, sets |-> b] \in ZoneAlert(c)
    BY <1>1, <2>3 DEF ZoneAlert
  <2>5. \A a \in ZoneAlert(c) : a = [alert |-> t, sets |-> b]
    BY <2>1, <2>2 DEF ZoneAlert
  <2> QED
    BY <2>4, <2>5
<1>2. ASSUME \A t \in DOMAIN ZONE_ALERTS : c # ZONE_ALERTS[t] /\ c # ZONE_ALERTS[t] + 2000
      PROVE  ZoneAlert(c) = {}
  <2>1. ASSUME NEW a \in [alert : DOMAIN ZONE_ALERTS, sets : BOOLEAN]
        PROVE  c # ZONE_ALERTS[a.alert] + (IF a.sets THEN 0 ELSE 2000)
    BY <1>2 DEF ZONE_ALERTS
  <2> QED
    BY <2>1 DEF ZoneAlert
<1> QED
  BY <1>1, <1>2

\* The troubles that a caller keeps by their code, and whose one is.
KeptTroubles == ZoneTroubles \cup PanelTroubles \cup LastingTroubles
Where(h) == IF h.who = "zone" THEN h.subject ELSE 0

\* What contact_id's tables make of a happening's code (classify,
\* subject_of, ZONE_ALERTS) is what the panel meant, but for the auto-arming
\* that was put off, which they take for an arming.
IsTold(h) ==
  LET kind == KindOf(h.code)
      alert == ZoneAlert(h.code)
  IN \/ /\ h.thing = <<"armed", h.partition>> /\ alert = {} /\ h.who = "user"
        /\ kind = IF h.becomes THEN "arm" ELSE "disarm"
     \/ /\ h.thing = IF h.partition = 99 THEN <<"fence_alarm", 99>> ELSE <<"alarm", h.subject>>
        /\ alert = {} /\ h.who = "zone" /\ kind = IF h.becomes THEN "alarm" ELSE "alarm_restore"
     \/ \E t \in DOMAIN SensorTroubles :
          /\ h.thing = <<t, h.subject>> /\ alert = {[alert |-> t, sets |-> h.becomes]}
          /\ h.who = "zone" /\ kind \in {"trouble", "tamper", "trouble_restore"}
     \/ \E c \in KeptTroubles :
          /\ h.thing = <<"trouble", c, Where(h)>> /\ alert = {}
          /\ IF h.becomes THEN h.code = c /\ kind \in {"trouble", "tamper"}
             ELSE h.code = c + 2000 /\ kind = "trouble_restore" /\ c \notin LastingTroubles
     \/ /\ h.thing = None /\ alert = {} /\ h.code = PutOff /\ kind = "arm"
     \/ /\ h.thing = None /\ alert = {} /\ h.code # PutOff
        /\ kind \in {"panic", "medical", "fire", "test", "system", "bypass", "unknown"}

\* So it is for every happening.
LEMMA HappeningIsTold ==
  ASSUME NEW h, Means(h), h.code \in FourDigit, h.becomes \in BOOLEAN
  PROVE  IsTold(h) /\ SubjectOf(h.code) = h.who
<1> DEFINE c == h.code
<1>1. c \in Nat
  <2>1. \A x \in FourDigit : x \in Nat
    BY DEF FourDigit
  <2> QED
    BY <2>1
<1>2. /\ DOMAIN ZONE_ALERTS = DOMAIN SensorTroubles /\ ZONE_ALERTS = SensorTroubles
      /\ DOMAIN SensorTroubles = {"low_battery", "supervision", "tamper"}
      /\ SensorTroubles["low_battery"] = 1384 /\ SensorTroubles["supervision"] = 1381
      /\ SensorTroubles["tamper"] = 1383
  BY DEF ZONE_ALERTS, SensorTroubles
<1>3. c \notin {1384, 1381, 1383, 3384, 3381, 3383} => ZoneAlert(c) = {}
  BY <1>1, <1>2, AlertIs
<1>4. SubjectOf(c) = IF c \in ZoneCodes THEN "zone" ELSE IF c \in UserCodes THEN "user" ELSE "none"
  BY DEF SubjectOf
<1>5. CASE /\ c \in (IF h.becomes THEN Armings ELSE Disarmings)
           /\ h.who = "user" /\ h.thing = <<"armed", h.partition>>
  <2>1. c \in (IF h.becomes THEN Kinds["arm"] ELSE Kinds["disarm"])
    BY <1>1, <1>5, KindTable DEF Armings, Disarmings
  <2>2. KindOf(c) = IF h.becomes THEN "arm" ELSE "disarm"
    BY <1>1, <2>1, KindIs, KindTable
  <2>3. SubjectOf(c) = "user" /\ ZoneAlert(c) = {}
    BY <1>1, <1>3, <1>4, <1>5, SubjectTable DEF Armings, Disarmings
  <2> QED
    BY <1>5, <2>2, <2>3 DEF IsTold
<1>6. CASE /\ \E z \in ZoneAlarms : Announces(h, z)
           /\ h.who = "zone"
           /\ h.thing = IF h.partition = 99 THEN <<"fence_alarm", 99>> ELSE <<"alarm", h.subject>>
  <2>0. c \in (IF h.becomes THEN {1130, 1134} ELSE {3130, 3134})
    BY <1>6 DEF ZoneAlarms, Announces
  <2>1. c \in (IF h.becomes THEN Kinds["alarm"] ELSE Kinds["alarm_restore"])
    BY <1>1, <2>0, KindTable
  <2>2. KindOf(c) = IF h.becomes THEN "alarm" ELSE "alarm_restore"
    BY <1>1, <2>1, KindIs, KindTable
  <2>3. SubjectOf(c) = "zone" /\ ZoneAlert(c) = {}
    BY <1>1, <1>3, <1>4, <2>0, SubjectTable
  <2> QED
    BY <1>6, <2>2, <2>3 DEF IsTold
<1>7. CASE \E t \in DOMAIN SensorTroubles :
             Announces(h, SensorTroubles[t]) /\ h.who = "zone" /\ h.thing = <<t, h.subject>>
  <2>0. PICK t \in DOMAIN SensorTroubles :
             Announces(h, SensorTroubles[t]) /\ h.who = "zone" /\ h.thing = <<t, h.subject>>
    BY <1>7
  <2>1. c = SensorTroubles[t] + (IF h.becomes THEN 0 ELSE 2000)
    BY <1>2, <2>0 DEF Announces
  <2>2. ZoneAlert(c) = {[alert |-> t, sets |-> h.becomes]}
    BY <1>1, <1>2, <2>1, AlertIs
  <2>3. c \in Kinds["trouble"] \/ c \in Kinds["tamper"] \/ c \in Kinds["trouble_restore"]
    BY <1>1, <1>2, <2>1, KindTable DEF PairedTroubles, Tampers
  <2>4. KindOf(c) \in {"trouble", "tamper", "trouble_restore"}
    BY <1>1, <2>3, KindIs, KindTable
  <2>5. SubjectOf(c) = "zone"
    BY <1>1, <1>2, <1>4, <2>1, SubjectTable
  <2> QED
    BY <2>0, <2>2, <2>4, <2>5 DEF IsTold
<1>7a. CASE \E t \in ZoneTroubles :
              Announces(h, t) /\ h.who = "zone" /\ h.thing = <<"trouble", t, h.subject>>
  <2>0. PICK t \in ZoneTroubles :
              Announces(h, t) /\ h.who = "zone" /\ h.thing = <<"trouble", t, h.subject>>
    BY <1>7a
  <2>1. /\ t \in Nat /\ t \in {1137, 1139, 1370} /\ t \notin LastingTroubles /\ t \in KeptTroubles
        /\ c = IF h.becomes THEN t ELSE t + 2000
    BY <2>0 DEF ZoneTroubles, LastingTroubles, KeptTroubles, Announces
  <2>2. SubjectOf(c) = "zone" /\ ZoneAlert(c) = {}
    <3>1. c \in {1137, 1139, 1370} \/ c - 2000 \in {1137, 1139, 1370}
      BY <2>1
    <3>2. c \in ZoneCodes
      BY <1>1, <3>1, SubjectTable
    <3> QED
      BY <1>3, <1>4, <3>1, <3>2
  <2>3. IF h.becomes THEN KindOf(c) \in {"trouble", "tamper"} ELSE KindOf(c) = "trouble_restore"
    <3>1. CASE h.becomes
      <4>1. c \in Kinds["trouble"] \/ c \in Kinds["tamper"]
        BY <1>1, <2>1, <3>1, KindTable DEF PairedTroubles, Tampers
      <4> QED
        BY <1>1, <3>1, <4>1, KindIs, KindTable
    <3>2. CASE ~h.becomes
      <4>1. c \in Kinds["trouble_restore"]
        BY <1>1, <2>1, <3>2, KindTable DEF PairedTroubles, Tampers
      <4> QED
        BY <1>1, <3>2, <4>1, KindIs, KindTable
    <3> QED
      BY <3>1, <3>2
  <2>4. Where(h) = h.subject
    BY <2>0 DEF Where
  <2> QED
    BY <2>0, <2>1, <2>2, <2>3, <2>4 DEF IsTold
<1>8. CASE \E t \in PanelTroubles \cup LastingTroubles :
             /\ Announces(h, t) /\ h.who = "none" /\ h.thing = <<"trouble", t, 0>>
             /\ t \in LastingTroubles => h.becomes
  <2>0. PICK t \in PanelTroubles \cup LastingTroubles :
             /\ Announces(h, t) /\ h.who = "none" /\ h.thing = <<"trouble", t, 0>>
             /\ t \in LastingTroubles => h.becomes
    BY <1>8
  <2>1. /\ t \in Nat /\ (t \in PairedTroubles \/ t = 1311 \/ t \in Tampers)
        /\ t \in PanelTroubles => t \in PairedTroubles \/ t \in Tampers
        /\ t \notin {1130, 1134, 1137, 1139, 1370, 1381, 1383, 1384, 1570, 1573}
        /\ t < 1400 /\ t >= 1300
    BY <2>0 DEF PanelTroubles, LastingTroubles, PairedTroubles, Tampers
  <2>2. c = IF h.becomes THEN t ELSE t + 2000
    BY <2>0 DEF Announces
  <2>3. (~h.becomes => t \in PanelTroubles /\ t \notin LastingTroubles) /\ t \in KeptTroubles
    BY <2>0 DEF KeptTroubles
  <2>4. c \notin UserCodes /\ c \notin ZoneCodes
    <3>1. CASE h.becomes
      BY <1>1, <2>1, <2>2, <3>1, SubjectTable DEF PairedTroubles, Tampers
    <3>2. CASE ~h.becomes
      BY <1>1, <2>1, <2>2, <2>3, <3>2, SubjectTable DEF PanelTroubles
    <3> QED
      BY <3>1, <3>2
  <2>5. ZoneAlert(c) = {}
    BY <1>3, <2>1, <2>2
  <2>6. IF h.becomes THEN KindOf(c) \in {"trouble", "tamper"} ELSE KindOf(c) = "trouble_restore"
    <3>1. CASE h.becomes
      <4>1. c \in Kinds["trouble"] \/ c \in Kinds["tamper"]
        BY <1>1, <2>1, <2>2, <3>1, KindTable
      <4> QED
        BY <1>1, <3>1, <4>1, KindIs, KindTable
    <3>2. CASE ~h.becomes
      <4>1. c \in Kinds["trouble_restore"]
        BY <1>1, <2>1, <2>2, <2>3, <3>2, KindTable
      <4> QED
        BY <1>1, <3>2, <4>1, KindIs, KindTable
    <3> QED
      BY <3>1, <3>2
  <2> QED
    <3>1. Where(h) = 0
      BY <2>0 DEF Where
    <3> QED
      BY <1>4, <2>0, <2>2, <2>3, <2>4, <2>5, <2>6, <3>1 DEF IsTold
<1>9. CASE h.thing = None /\ \E w \in DOMAIN PassingCodes : h.who = w /\ c \in PassingCodes[w]
  <2>1. /\ h.who = "user" => c \in {1100, 1110, 1120, 1121, 1122, 1123, 1306, 1410, 1412, 1419, 1421,
                                    1422, 3422, 1429, 1430, 1611, 1612, 1627, 1628, 3464}
        /\ h.who = "zone" => c \in {1570, 1573}
        /\ h.who = "none" => c \in {1305, 1417, 1602}
        /\ h.who \in {"user", "zone", "none"}
    BY <1>9 DEF PassingCodes, PutOff
  <2>2. SubjectOf(c) = h.who
    BY <1>1, <1>4, <2>1, SubjectTable
  <2>3. ZoneAlert(c) = {}
    BY <1>3, <2>1
  <2>4. \/ c \in Kinds["panic"] \/ c \in Kinds["medical"] \/ c \in Kinds["fire"] \/ c \in Kinds["test"]
        \/ c \in Kinds["system"] \/ c \in Kinds["bypass"] \/ (c = 3464 /\ c \in Kinds["arm"])
    BY <1>1, <2>1, KindTable
  <2>5. \/ c # 3464 /\ KindOf(c) \in {"panic", "medical", "fire", "test", "system", "bypass"}
        \/ c = 3464 /\ KindOf(c) = "arm"
    <3>1. c = 3464 => c \in Kinds["arm"]
      BY <1>1, KindTable
    <3>2. CASE c = 3464
      BY <1>1, <3>1, <3>2, KindIs, KindTable
    <3>3. CASE c # 3464
      BY <1>1, <2>4, <3>3, KindIs, KindTable
    <3> QED
      BY <3>2, <3>3
  <2>6. h.thing = None
    BY <1>9
  <2>7. CASE c = 3464
    <3>1. c = PutOff /\ KindOf(c) = "arm"
      BY <2>5, <2>7 DEF PutOff
    <3>2. h.thing = None /\ ZoneAlert(c) = {} /\ h.code = PutOff /\ KindOf(c) = "arm"
      BY <2>3, <2>6, <3>1
    <3>3. IsTold(h)
      BY <3>2, Zenon DEF IsTold
    <3> QED
      BY <2>2, <3>3
  <2>8. CASE c # 3464
    <3>1. c # PutOff /\ KindOf(c) \in {"panic", "medical", "fire", "test", "system", "bypass", "unknown"}
      BY <2>5, <2>8 DEF PutOff
    <3>2. /\ h.thing = None /\ ZoneAlert(c) = {} /\ h.code # PutOff
          /\ KindOf(c) \in {"panic", "medical", "fire", "test", "system", "bypass", "unknown"}
      BY <2>3, <2>6, <3>1
    <3>3. IsTold(h)
      BY <3>2, Zenon DEF IsTold
    <3> QED
      BY <2>2, <3>3
  <2> QED
    BY <2>7, <2>8
<1>10. CASE h.thing = None /\ h.who = "none" /\ c \notin Codes
  <2>1. KindOf(c) = "unknown"
    BY <1>1, <1>10, KindIs
  <2>2. \A k \in DOMAIN Kinds : c \notin Kinds[k]
    BY <1>10 DEF Codes
  <2>3. c \notin ZoneCodes /\ c \notin UserCodes /\ c \notin {1384, 1381, 1383, 3384, 3381, 3383}
    BY <1>1, <2>2, KindTable, SubjectTable DEF PairedTroubles, Tampers
  <2>4. SubjectOf(c) = h.who
    BY <1>4, <1>10, <2>3
  <2>5. ZoneAlert(c) = {}
    BY <1>3, <2>3
  <2> QED
    <3>1. c # PutOff
      BY <1>1, <2>2, KindTable DEF PutOff
    <3> QED
      BY <1>10, <2>1, <2>4, <2>5, <3>1 DEF IsTold
<1> QED
  BY <1>5, <1>6, <1>7, <1>7a, <1>8, <1>9, <1>10 DEF Means

-----------------------------------------------------------------------------
(* What the caller makes of the events. *)

\* A happening as it is told to the caller.
Heard(h) ==
  [thing |-> IF h.code = PutOff THEN <<"armed", h.partition>> ELSE h.thing,
   becomes |-> IF h.code = PutOff THEN TRUE ELSE h.becomes]

\* What an event does to the things that are armed, in alarm or in trouble.
Told(known, h) ==
  IF h.thing = None THEN known
  ELSE IF h.becomes THEN known \cup {h.thing} ELSE known \ {h.thing}

\* All that may be, and all that a caller may hear of.
May == UNION {Happenings[i] : i \in DOMAIN Happenings}
KnownThings == ({h.thing : h \in May} \cup {Heard(h).thing : h \in May}) \ {None}

\* A trouble's restore is that of no other (ContactIdCode.restore).
LEMMA RestoreIsOnes ==
  ASSUME NEW c \in KeptTroubles, c \notin LastingTroubles, NEW d \in KeptTroubles
  PROVE  RestoreOf(d) = c + 2000 <=> d = c
<1>1. c \in Nat /\ d \in Nat
  BY DEF KeptTroubles, ZoneTroubles, PanelTroubles, LastingTroubles
<1>2. CASE d \notin LastingTroubles
  <2>1. d \in Kinds.alarm \cup PairedTroubles \cup Tampers \cup {1422}
    BY <1>2 DEF KeptTroubles, ZoneTroubles, PanelTroubles, PairedTroubles, Tampers
  <2>2. RestoreOf(d) = d + 2000
    <3>1. d \notin {3401, 3403, 3407, 3409} /\ d \notin {1429, 1627}
      BY <1>2 DEF KeptTroubles, ZoneTroubles, PanelTroubles
    <3> QED
      BY <2>1, <3>1 DEF RestoreOf
  <2> QED
    BY <1>1, <2>2
<1>3. CASE d \in LastingTroubles
  <2>1. d = 1311
    BY <1>3 DEF LastingTroubles
  <2>2. d \notin Kinds.alarm \cup PairedTroubles \cup Tampers \cup {1422}
    BY <2>1 DEF Kinds, PairedTroubles, Tampers
  <2>3. RestoreOf(d) = 0
    BY <2>1, <2>2 DEF RestoreOf
  <2>4. c # 1311
    BY DEF LastingTroubles
  <2> QED
    BY <1>1, <2>1, <2>3, <2>4
<1> QED
  BY <1>2, <1>3

\* An auto-arming that was put off changes nothing, and is told as an arming.
LEMMA PutOffIs ==
  ASSUME NEW h, Means(h), h.becomes \in BOOLEAN, h.code = PutOff
  PROVE  h.thing = None /\ KindOf(h.code) = "arm" /\ ZoneAlert(h.code) = {}
<1>1. h.code \in Nat /\ h.code = 3464
  BY DEF PutOff
<1>2. h.thing = None
  BY <1>1 DEF Means, Announces, Armings, Disarmings, ZoneAlarms, SensorTroubles, ZoneTroubles,
     PanelTroubles, LastingTroubles
<1>3. KindOf(h.code) = "arm"
  <2>1. h.code \in Kinds["arm"]
    BY <1>1, KindTable
  <2> QED
    BY <1>1, <2>1, KindIs, KindTable
<1>4. ZoneAlert(h.code) = {}
  <2>1. \A t \in DOMAIN ZONE_ALERTS : ZONE_ALERTS[t] \in {1384, 1381, 1383}
    BY DEF ZONE_ALERTS
  <2> QED
    BY <1>1, <2>1, AlertIs
<1> QED
  BY <1>2, <1>3, <1>4

\* What the caller may hear of.
LEMMA HeardIsKnown ==
  ASSUME NEW h \in May
  PROVE  /\ h.thing \in KnownThings \cup {None} /\ h.becomes \in BOOLEAN
         /\ Heard(h).thing \in KnownThings \cup {None} /\ Heard(h).becomes \in BOOLEAN
         /\ h.code # PutOff => Heard(h).thing = h.thing /\ Heard(h).becomes = h.becomes
         /\ h.code = PutOff => Heard(h).thing = <<"armed", h.partition>> /\ Heard(h).becomes
<1>1. h.becomes \in BOOLEAN
  BY HappeningsAssumption DEF May
<1>2. Heard(h).becomes \in BOOLEAN
  BY <1>1 DEF Heard
<1>3. h.thing \in KnownThings \cup {None} /\ Heard(h).thing \in KnownThings \cup {None}
  BY DEF KnownThings
<1>4. /\ h.code # PutOff => Heard(h).thing = h.thing /\ Heard(h).becomes = h.becomes
      /\ h.code = PutOff => Heard(h).thing = <<"armed", h.partition>> /\ Heard(h).becomes
  BY DEF Heard
<1> QED
  BY <1>1, <1>2, <1>3, <1>4

\* A trouble that a caller keeps is told by its code and its zone.
LEMMA ThingsAre ==
  ASSUME NEW t \in KnownThings
  PROVE  /\ t # None
         /\ t[1] = "trouble" => t[2] \in KeptTroubles /\ t = <<"trouble", t[2], t[3]>>
<1>0. PICK h \in May : (t = h.thing \/ t = Heard(h).thing) /\ t # None
  BY DEF KnownThings
<1>1. Means(h) /\ h.code \in FourDigit /\ h.becomes \in BOOLEAN
  BY HappeningsAssumption DEF May
<1>2. IsTold(h)
  BY <1>1, HappeningIsTold
<1>3. DOMAIN SensorTroubles = {"low_battery", "supervision", "tamper"}
  BY DEF SensorTroubles
<1>4. t = h.thing \/ t = <<"armed", h.partition>>
  BY <1>0, HeardIsKnown
<1> HIDE DEF KnownThings
<1>5. CASE t = <<"armed", h.partition>>
  BY <1>0, <1>5
<1>6. CASE t = h.thing
  BY <1>0, <1>2, <1>3, <1>6 DEF IsTold
<1> QED
  BY <1>4, <1>5, <1>6

\* The caller concludes from an event's record what the event did (classify,
\* ZONE_ALERTS, ContactIdCode.restore).
LEMMA ConcludeWhatHappened ==
  ASSUME LogTyped, NEW n \in 1..Len(log), NEW known \in SUBSET KnownThings,
         log[n].what.code # PutOff
  PROVE  /\ Conclude(known, TheRecord(n)) = Told(known, log[n].what)
         /\ Told(known, log[n].what) \in SUBSET KnownThings
<1> DEFINE h == log[n].what
           r == TheRecord(n)
           kind == Classify(h.code, h.partition)
           alert == ZoneAlert(h.code)
<1>1. /\ h.code \in FourDigit /\ h.partition \in 0..99 /\ h.subject \in 0..255 /\ h.becomes \in BOOLEAN
      /\ Means(h) /\ n \in DOMAIN Happenings /\ h \in Happenings[n]
  <2>1. IsEvent(n)
    BY EntryFacts
  <2> QED
    BY <2>1 DEF IsEvent
<1>2. CodeOfRecord(r) = h.code /\ r.partition = h.partition /\ r.subject = h.subject
  BY CodeIsRead DEF TheRecord
<1>3. IsTold(h) /\ SubjectOf(h.code) = h.who /\ h.code # PutOff
  BY <1>1, HappeningIsTold
<1>4. h.partition \in FourDigit /\ h.subject \in FourDigit /\ KeptTroubles \subseteq FourDigit
      /\ Where(h) \in 0..255
  <2>1. \A x \in 0..255 : x \in FourDigit
    BY DEF FourDigit
  <2>2. KeptTroubles \subseteq FourDigit
    BY DEF FourDigit, KeptTroubles, ZoneTroubles, PanelTroubles, LastingTroubles
  <2>3. h.partition \in 0..255
    BY <1>1
  <2>4. Where(h) \in 0..255
    <3> HIDE DEF h
    <3> QED
      BY <1>1 DEF Where
  <2> QED
    BY <1>1, <2>1, <2>2, <2>3, <2>4
<1>5. Told(known, h) \in SUBSET KnownThings
  <2>1. h \in May
    BY <1>1 DEF May
  <2>2. h.thing \in KnownThings \cup {None}
    BY <2>1, HeardIsKnown
  <2> HIDE DEF h, KnownThings
  <2> QED
    BY <2>2 DEF Told
<1>6. DOMAIN SensorTroubles = {"low_battery", "supervision", "tamper"}
  BY DEF SensorTroubles
<1> HIDE DEF h, r
<1>7. kind = IF h.partition = 99 /\ KindOf(h.code) \in {"arm", "disarm", "alarm", "alarm_restore"}
               THEN FENCE_KINDS[KindOf(h.code)] ELSE KindOf(h.code)
  BY DEF Classify, IsFence, FENCE_PARTITION_TEXT, FENCE_KINDS
<1>8. /\ FENCE_KINDS["arm"] = "fence_arm" /\ FENCE_KINDS["disarm"] = "fence_disarm"
      /\ FENCE_KINDS["alarm"] = "fence_alarm" /\ FENCE_KINDS["alarm_restore"] = "fence_alarm_restore"
  BY DEF FENCE_KINDS
<1> HIDE DEF kind, alert
<1>9. Conclude(known, r) =
        CASE kind \in {"arm", "disarm"} ->
               IF kind = "arm" THEN known \cup {<<"armed", h.partition>>}
               ELSE known \ {<<"armed", h.partition>>}
          [] kind \in {"fence_arm", "fence_disarm"} ->
               IF kind = "fence_arm" THEN known \cup {<<"armed", 99>>} ELSE known \ {<<"armed", 99>>}
          [] kind \in {"alarm", "alarm_restore"} ->
               IF kind = "alarm" THEN known \cup {<<"alarm", h.subject>>}
               ELSE known \ {<<"alarm", h.subject>>}
          [] kind \in {"fence_alarm", "fence_alarm_restore"} ->
               IF kind = "fence_alarm" THEN known \cup {<<"fence_alarm", 99>>}
               ELSE known \ {<<"fence_alarm", 99>>}
          [] alert # {} ->
               LET a == CHOOSE a \in alert : TRUE
               IN IF a.sets THEN known \cup {<<a.alert, h.subject>>}
                  ELSE known \ {<<a.alert, h.subject>>}
          [] alert = {} /\ kind \in {"trouble", "tamper"} ->
               known \cup {<<"trouble", h.code, Where(h)>>}
          [] alert = {} /\ kind = "trouble_restore" ->
               known \ {t \in known : t[1] = "trouble" /\ RestoreOf(t[2]) = h.code /\ t[3] = Where(h)}
          [] OTHER -> known
  BY <1>2, <1>3 DEF Conclude, Where, kind, alert
<1>10. CASE /\ h.thing = <<"armed", h.partition>> /\ alert = {} /\ h.who = "user"
            /\ KindOf(h.code) = IF h.becomes THEN "arm" ELSE "disarm"
  <2>1. h.thing # None
    BY <1>4, <1>10, NoneIsNoThing
  <2>2. CASE h.partition = 99 /\ h.becomes
    <3>1. kind = "fence_arm"
      BY <1>7, <1>8, <1>10, <2>2
    <3>2. Conclude(known, r) = known \cup {<<"armed", 99>>}
      BY <1>9, <1>10, <3>1
    <3>3. Told(known, h) = known \cup {<<"armed", 99>>}
      BY <1>10, <2>1, <2>2 DEF Told
    <3> QED
      BY <1>5, <3>2, <3>3 DEF h, r
  <2>3. CASE h.partition = 99 /\ ~h.becomes
    <3>1. kind = "fence_disarm"
      BY <1>7, <1>8, <1>10, <2>3
    <3>2. Conclude(known, r) = known \ {<<"armed", 99>>}
      BY <1>9, <1>10, <3>1
    <3>3. Told(known, h) = known \ {<<"armed", 99>>}
      BY <1>10, <2>1, <2>3 DEF Told
    <3> QED
      BY <1>5, <3>2, <3>3 DEF h, r
  <2>4. CASE h.partition # 99 /\ h.becomes
    <3>1. kind = "arm"
      BY <1>7, <1>8, <1>10, <2>4
    <3>2. Conclude(known, r) = known \cup {<<"armed", h.partition>>}
      BY <1>9, <1>10, <3>1
    <3>3. Told(known, h) = known \cup {<<"armed", h.partition>>}
      BY <1>10, <2>1, <2>4 DEF Told
    <3> QED
      BY <1>5, <3>2, <3>3 DEF h, r
  <2>5. CASE h.partition # 99 /\ ~h.becomes
    <3>1. kind = "disarm"
      BY <1>7, <1>8, <1>10, <2>5
    <3>2. Conclude(known, r) = known \ {<<"armed", h.partition>>}
      BY <1>9, <1>10, <3>1
    <3>3. Told(known, h) = known \ {<<"armed", h.partition>>}
      BY <1>10, <2>1, <2>5 DEF Told
    <3> QED
      BY <1>5, <3>2, <3>3 DEF h, r
  <2> QED
    BY <1>1, <2>2, <2>3, <2>4, <2>5
<1>11. CASE /\ h.thing = IF h.partition = 99 THEN <<"fence_alarm", 99>> ELSE <<"alarm", h.subject>>
            /\ alert = {} /\ h.who = "zone"
            /\ KindOf(h.code) = IF h.becomes THEN "alarm" ELSE "alarm_restore"
  <2>0. 99 \in FourDigit
    BY DEF FourDigit
  <2>1. h.thing # None
    BY <1>4, <1>11, <2>0, NoneIsNoThing
  <2>2. CASE h.partition = 99 /\ h.becomes
    <3>1. kind = "fence_alarm"
      BY <1>7, <1>8, <1>11, <2>2
    <3>2. Conclude(known, r) = known \cup {<<"fence_alarm", 99>>}
      BY <1>9, <1>11, <3>1
    <3>3. Told(known, h) = known \cup {<<"fence_alarm", 99>>}
      BY <1>11, <2>1, <2>2 DEF Told
    <3> QED
      BY <1>5, <3>2, <3>3 DEF h, r
  <2>3. CASE h.partition = 99 /\ ~h.becomes
    <3>1. kind = "fence_alarm_restore"
      BY <1>7, <1>8, <1>11, <2>3
    <3>2. Conclude(known, r) = known \ {<<"fence_alarm", 99>>}
      BY <1>9, <1>11, <3>1
    <3>3. Told(known, h) = known \ {<<"fence_alarm", 99>>}
      BY <1>11, <2>1, <2>3 DEF Told
    <3> QED
      BY <1>5, <3>2, <3>3 DEF h, r
  <2>4. CASE h.partition # 99 /\ h.becomes
    <3>1. kind = "alarm"
      BY <1>7, <1>8, <1>11, <2>4
    <3>2. Conclude(known, r) = known \cup {<<"alarm", h.subject>>}
      BY <1>9, <1>11, <3>1
    <3>3. Told(known, h) = known \cup {<<"alarm", h.subject>>}
      BY <1>11, <2>1, <2>4 DEF Told
    <3> QED
      BY <1>5, <3>2, <3>3 DEF h, r
  <2>5. CASE h.partition # 99 /\ ~h.becomes
    <3>1. kind = "alarm_restore"
      BY <1>7, <1>8, <1>11, <2>5
    <3>2. Conclude(known, r) = known \ {<<"alarm", h.subject>>}
      BY <1>9, <1>11, <3>1
    <3>3. Told(known, h) = known \ {<<"alarm", h.subject>>}
      BY <1>11, <2>1, <2>5 DEF Told
    <3> QED
      BY <1>5, <3>2, <3>3 DEF h, r
  <2> QED
    BY <1>1, <2>2, <2>3, <2>4, <2>5
<1>12. CASE \E t \in DOMAIN SensorTroubles :
              /\ h.thing = <<t, h.subject>> /\ alert = {[alert |-> t, sets |-> h.becomes]}
              /\ h.who = "zone" /\ KindOf(h.code) \in {"trouble", "tamper", "trouble_restore"}
  <2>1. PICK t \in DOMAIN SensorTroubles :
              /\ h.thing = <<t, h.subject>> /\ alert = {[alert |-> t, sets |-> h.becomes]}
              /\ KindOf(h.code) \in {"trouble", "tamper", "trouble_restore"}
    BY <1>12
  <2>2. h.thing # None
    BY <1>4, <2>1, NoneIsNoThing
  <2> DEFINE choice == CHOOSE a \in alert : TRUE
  <2>3. choice.alert = t /\ choice.sets = h.becomes /\ alert # {}
    <3>1. choice = [alert |-> t, sets |-> h.becomes] /\ alert # {}
      BY <2>1
    <3> HIDE DEF choice
    <3> QED
      BY <3>1
  <2>4. kind \in {"trouble", "tamper", "trouble_restore"}
    BY <1>7, <2>1
  <2>5. Conclude(known, r) = IF h.becomes THEN known \cup {<<t, h.subject>>}
                             ELSE known \ {<<t, h.subject>>}
    <3>1. Conclude(known, r) = IF choice.sets THEN known \cup {<<choice.alert, h.subject>>}
                               ELSE known \ {<<choice.alert, h.subject>>}
      BY <1>9, <2>3, <2>4
    <3> HIDE DEF choice
    <3> QED
      BY <2>3, <3>1
  <2> QED
    BY <1>5, <2>1, <2>2, <2>5 DEF Told, h, r
<1>13. CASE \E c \in KeptTroubles :
              /\ h.thing = <<"trouble", c, Where(h)>> /\ alert = {}
              /\ IF h.becomes THEN h.code = c /\ KindOf(h.code) \in {"trouble", "tamper"}
                 ELSE /\ h.code = c + 2000 /\ KindOf(h.code) = "trouble_restore"
                      /\ c \notin LastingTroubles
  <2> DEFINE z == Where(h)
  <2>1. PICK c \in KeptTroubles :
              /\ h.thing = <<"trouble", c, z>> /\ alert = {}
              /\ IF h.becomes THEN h.code = c /\ KindOf(h.code) \in {"trouble", "tamper"}
                 ELSE /\ h.code = c + 2000 /\ KindOf(h.code) = "trouble_restore"
                      /\ c \notin LastingTroubles
    BY <1>13
  <2> HIDE DEF z
  <2>2. h.thing # None
    BY <1>4, <2>1, NoneIsNoThing DEF z
  <2>3. CASE h.becomes
    <3>1. kind \in {"trouble", "tamper"}
      BY <1>7, <2>1, <2>3
    <3>2. Conclude(known, r) = known \cup {<<"trouble", h.code, z>>}
      BY <1>9, <2>1, <3>1 DEF z
    <3> QED
      BY <1>5, <2>1, <2>2, <2>3, <3>2 DEF Told, h, r
  <2>4. CASE ~h.becomes
    <3>1. kind = "trouble_restore" /\ c \notin LastingTroubles /\ h.code = c + 2000
      BY <1>7, <2>1, <2>4
    <3>2. Conclude(known, r)
            = known \ {t \in known : t[1] = "trouble" /\ RestoreOf(t[2]) = h.code /\ t[3] = z}
      BY <1>9, <2>1, <3>1 DEF z
    <3>3. ASSUME NEW t \in known
          PROVE  (t[1] = "trouble" /\ RestoreOf(t[2]) = h.code /\ t[3] = z) <=> t = <<"trouble", c, z>>
      <4>1. t[1] = "trouble" => t[2] \in KeptTroubles /\ t = <<"trouble", t[2], t[3]>>
        BY ThingsAre
      <4>2. ASSUME t[1] = "trouble", RestoreOf(t[2]) = h.code, t[3] = z PROVE t = <<"trouble", c, z>>
        <5>1. t[2] = c
          BY <3>1, <4>1, <4>2, RestoreIsOnes
        <5> QED
          BY <4>1, <4>2, <5>1
      <4>3. ASSUME t = <<"trouble", c, z>>
            PROVE  t[1] = "trouble" /\ RestoreOf(t[2]) = h.code /\ t[3] = z
        <5>1. RestoreOf(c) = h.code
          BY <3>1, RestoreIsOnes
        <5> QED
          BY <4>3, <5>1
      <4> QED
        BY <4>2, <4>3
    <3>4. Conclude(known, r) = known \ {<<"trouble", c, z>>}
      BY <3>2, <3>3
    <3> QED
      BY <1>5, <2>1, <2>2, <2>4, <3>4 DEF Told, h, r
  <2> QED
    BY <1>1, <2>3, <2>4
<1>14. CASE /\ h.thing = None /\ alert = {} /\ h.code # PutOff
            /\ KindOf(h.code) \in {"panic", "medical", "fire", "test", "system", "bypass", "unknown"}
  <2>1. kind \in {"panic", "medical", "fire", "test", "system", "bypass", "unknown"}
    BY <1>7, <1>14
  <2>2. Conclude(known, r) = known
    BY <1>9, <1>14, <2>1
  <2> QED
    BY <1>5, <1>14, <2>2 DEF Told, h, r
<1> QED
  BY <1>3, <1>10, <1>11, <1>12, <1>13, <1>14 DEF IsTold, alert

\* And from the record of an auto-arming that was put off it concludes an
\* arming, of the fence if the partition is 99.
LEMMA ConcludePutOff ==
  ASSUME LogTyped, NEW n \in 1..Len(log), NEW known \in SUBSET KnownThings,
         log[n].what.code = PutOff
  PROVE  Conclude(known, TheRecord(n)) = known \cup {<<"armed", log[n].what.partition>>}
<1> DEFINE h == log[n].what
           r == TheRecord(n)
<1>1. h.becomes \in BOOLEAN /\ Means(h)
  <2>1. IsEvent(n)
    BY EntryFacts
  <2> QED
    BY <2>1 DEF IsEvent
<1>2. CodeOfRecord(r) = h.code /\ r.partition = h.partition
  BY CodeIsRead DEF TheRecord
<1> HIDE DEF h, r
<1>3. KindOf(h.code) = "arm" /\ ZoneAlert(h.code) = {}
  BY <1>1, PutOffIs DEF h
<1> DEFINE kind == Classify(CodeOfRecord(r), r.partition)
           alert == ZoneAlert(CodeOfRecord(r))
<1>4. alert = {}
  BY <1>2, <1>3
<1>5. /\ kind = "arm" => Conclude(known, r) = known \cup {<<"armed", r.partition>>}
      /\ kind = "fence_arm" => Conclude(known, r) = known \cup {<<"armed", 99>>}
  <2>1. ASSUME kind = "arm" PROVE Conclude(known, r) = known \cup {<<"armed", r.partition>>}
    <3> HIDE DEF kind, alert
    <3> QED
      BY <1>4, <2>1 DEF Conclude, kind, alert
  <2>2. ASSUME kind = "fence_arm" PROVE Conclude(known, r) = known \cup {<<"armed", 99>>}
    <3> HIDE DEF kind, alert
    <3> QED
      BY <1>4, <2>2 DEF Conclude, kind, alert
  <2> QED
    BY <2>1, <2>2
<1>6. CASE h.partition = 99
  <2>1. Classify(h.code, h.partition) = "fence_arm"
    BY <1>3, <1>6 DEF Classify, IsFence, FENCE_PARTITION_TEXT, FENCE_KINDS
  <2>2. Classify(CodeOfRecord(r), r.partition) = "fence_arm"
    BY <1>2, <2>1
  <2>3. Conclude(known, r) = known \cup {<<"armed", 99>>}
    BY <1>5, <2>2
  <2> QED
    BY <1>6, <2>3 DEF h, r
<1>7. CASE h.partition # 99
  <2>1. Classify(h.code, h.partition) = "arm"
    BY <1>3, <1>7 DEF Classify, IsFence, FENCE_PARTITION_TEXT
  <2>2. Classify(CodeOfRecord(r), r.partition) = "arm"
    BY <1>2, <2>1
  <2>3. Conclude(known, r) = known \cup {<<"armed", h.partition>>}
    BY <1>2, <1>5, <2>2
  <2> QED
    BY <2>3 DEF h, r
<1> QED
  BY <1>6, <1>7

\* So what it concludes is what it heard.
LEMMA ConcludeIs ==
  ASSUME LogTyped, NEW n \in 1..Len(log), NEW known \in SUBSET KnownThings
  PROVE  /\ Conclude(known, TheRecord(n)) = Told(known, Heard(log[n].what))
         /\ Told(known, Heard(log[n].what)) \in SUBSET KnownThings
<1> DEFINE h == log[n].what
           g == Heard(h)
<1>1. h \in May /\ h.partition \in FourDigit
  <2>1. IsEvent(n)
    BY EntryFacts
  <2>2. \A x \in 0..99 : x \in FourDigit
    BY DEF FourDigit
  <2>3. n \in DOMAIN Happenings /\ h \in Happenings[n] /\ h.partition \in 0..99
    BY <2>1 DEF IsEvent
  <2> QED
    BY <2>2, <2>3 DEF May
<1>2. /\ g.thing \in KnownThings \cup {None}
      /\ h.code # PutOff => g.thing = h.thing /\ g.becomes = h.becomes
      /\ h.code = PutOff => g.thing = <<"armed", h.partition>> /\ g.becomes
  BY <1>1, HeardIsKnown
<1> HIDE DEF g, KnownThings
<1>3. Told(known, g) \in SUBSET KnownThings
  BY <1>2 DEF Told
<1>4. CASE h.code # PutOff
  <2>1. Conclude(known, TheRecord(n)) = Told(known, h)
    BY <1>4, ConcludeWhatHappened
  <2>2. Told(known, g) = Told(known, h)
    BY <1>2, <1>4 DEF Told
  <2> QED
    BY <1>3, <2>1, <2>2 DEF g
<1>5. CASE h.code = PutOff
  <2>1. Conclude(known, TheRecord(n)) = known \cup {<<"armed", h.partition>>}
    BY <1>5, ConcludePutOff
  <2>2. None # <<"armed", h.partition>>
    BY <1>1, NoneIsNoThing
  <2>3. Told(known, g) = known \cup {<<"armed", h.partition>>}
    BY <1>2, <1>5, <2>2 DEF Told
  <2> QED
    BY <1>3, <2>1, <2>3 DEF g
<1> QED
  BY <1>4, <1>5

\* What is so after the first i of some happenings: each thing is as the last
\* one about it left it.
LastTold(w, i) ==
  {t \in KnownThings :
     \E j \in 1..i : /\ w[j].thing = t /\ w[j].becomes
                     /\ \A k \in (j + 1)..i : w[k].thing # t}

\* One more happening does what it does.
LEMMA ToldIsLast ==
  ASSUME NEW w, NEW i \in Nat \ {0}, w[i].thing \in KnownThings \cup {None}, w[i].becomes \in BOOLEAN
  PROVE  LastTold(w, i) = Told(LastTold(w, i - 1), w[i])
<1>1. ASSUME NEW t \in KnownThings, w[i].thing # t
      PROVE  t \in LastTold(w, i) <=> t \in LastTold(w, i - 1)
  <2>1. ASSUME t \in LastTold(w, i) PROVE t \in LastTold(w, i - 1)
    <3>1. PICK j \in 1..i : /\ w[j].thing = t /\ w[j].becomes
                            /\ \A k \in (j + 1)..i : w[k].thing # t
      BY <2>1 DEF LastTold
    <3>2. j \in 1..(i - 1) /\ \A k \in (j + 1)..(i - 1) : k \in (j + 1)..i
      BY <1>1, <3>1
    <3> QED
      BY <3>1, <3>2 DEF LastTold
  <2>2. ASSUME t \in LastTold(w, i - 1) PROVE t \in LastTold(w, i)
    <3>1. PICK j \in 1..(i - 1) : /\ w[j].thing = t /\ w[j].becomes
                                  /\ \A k \in (j + 1)..(i - 1) : w[k].thing # t
      BY <2>2 DEF LastTold
    <3>2. j \in 1..i /\ \A k \in (j + 1)..i : k = i \/ k \in (j + 1)..(i - 1)
      OBVIOUS
    <3>3. \A k \in (j + 1)..i : w[k].thing # t
      BY <1>1, <3>1, <3>2
    <3> QED
      BY <3>1, <3>2, <3>3 DEF LastTold
  <2> QED
    BY <2>1, <2>2
<1>2. ASSUME NEW t \in KnownThings, w[i].thing = t
      PROVE  t \in LastTold(w, i) <=> w[i].becomes
  <2>1. ASSUME t \in LastTold(w, i) PROVE w[i].becomes
    <3>1. PICK j \in 1..i : /\ w[j].thing = t /\ w[j].becomes
                            /\ \A k \in (j + 1)..i : w[k].thing # t
      BY <2>1 DEF LastTold
    <3>2. j = i
      <4>1. CASE j < i
        <5>1. i \in (j + 1)..i
          BY <4>1
        <5> QED
          BY <1>2, <3>1, <5>1
      <4> QED
        BY <4>1
    <3> QED
      BY <3>1, <3>2
  <2>2. ASSUME w[i].becomes PROVE t \in LastTold(w, i)
    <3>1. i \in 1..i /\ (i + 1)..i = {}
      OBVIOUS
    <3> QED
      BY <1>2, <2>2, <3>1 DEF LastTold
  <2> QED
    BY <2>1, <2>2
<1>3. LastTold(w, i) \subseteq KnownThings /\ LastTold(w, i - 1) \subseteq KnownThings
  BY DEF LastTold
<1>4. None \notin KnownThings
  BY DEF KnownThings
<1> DEFINE u == w[i]
<1>5. u.thing \in KnownThings \cup {None} /\ u.becomes \in BOOLEAN
  OBVIOUS
<1>6. ASSUME NEW t \in KnownThings
      PROVE  t \in LastTold(w, i) <=> t \in Told(LastTold(w, i - 1), u)
  <2>1. CASE u.thing # t
    <3>1. t \in LastTold(w, i) <=> t \in LastTold(w, i - 1)
      BY <1>1, <2>1
    <3> HIDE DEF u, LastTold
    <3> QED
      BY <2>1, <3>1 DEF Told
  <2>2. CASE u.thing = t
    <3>1. t \in LastTold(w, i) <=> u.becomes
      BY <1>2, <2>2
    <3>2. u.thing # None
      BY <1>4, <2>2
    <3> HIDE DEF u
    <3> QED
      BY <2>2, <3>1, <3>2 DEF Told
  <2> QED
    BY <2>1, <2>2
<1>7. Told(LastTold(w, i - 1), u) \subseteq KnownThings
  <2> HIDE DEF u
  <2> QED
    BY <1>3, <1>5 DEF Told
<1> HIDE DEF KnownThings
<1> QED
  BY <1>3, <1>6, <1>7

\* It looks at no other happenings.
LEMMA LastToldOf ==
  ASSUME NEW w, NEW v, NEW i \in Nat, \A j \in 1..i : w[j] = v[j]
  PROVE  LastTold(w, i) = LastTold(v, i)
<1>1. \A j \in 1..i : \A k \in (j + 1)..i : w[j] = v[j] /\ w[k] = v[k]
  OBVIOUS
<1> QED
  BY <1>1 DEF LastTold

\* What an event is about, and whether it begins.
LEMMA EventIsAbout ==
  ASSUME LogTyped, NEW n \in 1..Len(log)
  PROVE  LET h == log[n].what
         IN /\ h.thing \in KnownThings \cup {None} /\ h.becomes \in BOOLEAN
            /\ Heard(h).thing \in KnownThings \cup {None} /\ Heard(h).becomes \in BOOLEAN
            /\ h.code # PutOff => Heard(h).thing = h.thing /\ Heard(h).becomes = h.becomes
            /\ h.code = PutOff => /\ Heard(h).thing = <<"armed", h.partition>> /\ Heard(h).becomes
                                  /\ h.thing = None
<1>1. IsEvent(n)
  BY EntryFacts
<1>2. log[n].what \in May
  BY <1>1 DEF IsEvent, May
<1>3. log[n].what.code = PutOff => log[n].what.thing = None
  BY <1>1, PutOffIs DEF IsEvent
<1> QED
  BY <1>2, <1>3, HeardIsKnown

\* The happenings of the log, and what the caller heard of those whose records
\* it has.
Whats == [n \in 1..Len(log) |-> log[n].what]
HeldWhats == [i \in 1..Len(held) |-> Heard(log[EventOf(held[i])].what)]

\* What is active is what the log says.
ActiveIsLast == active = LastTold(Whats, Len(log))

\* So it is, whatever happens.
LEMMA ActiveIsTold == Spec => []ActiveIsLast
<1>1. Init => ActiveIsLast
  <2> SUFFICES ASSUME Init PROVE active = LastTold(Whats, Len(log))
    BY DEF ActiveIsLast
  <2>1. active = {} /\ Len(log) = 0
    BY DEF Init
  <2>2. 1..0 = {}
    OBVIOUS
  <2> QED
    BY <2>1, <2>2 DEF LastTold
<1>2. DownloadInv /\ ActiveIsLast /\ [Next]_vars => ActiveIsLast'
  <2> SUFFICES ASSUME LogTyped, ActiveIsLast, [Next]_vars PROVE ActiveIsLast'
    BY DEF DownloadInv
  <2>1. CASE Happen
    <3>1. /\ LogTyped' /\ Len(log) \in Nat /\ Len(log') = Len(log) + 1
          /\ \A n \in 1..Len(log) : log'[n] = log[n]
      BY <2>1, LogGrows
    <3>2. PICK h \in Happenings[Len(log) + 1] :
             /\ active' = IF h.thing = None THEN active
                          ELSE IF h.becomes THEN active \cup {h.thing} ELSE active \ {h.thing}
             /\ log' = Append(log, [what |-> h, fence |-> FenceByte])
      BY <2>1 DEF Happen
    <3>3. log'[Len(log) + 1].what = h
      BY <3>2 DEF LogTyped
    <3> DEFINE n == Len(log) + 1
               w == Whats'
    <3>4. w[n] = h /\ n \in Nat \ {0} /\ n - 1 = Len(log) /\ \A j \in 1..Len(log) : w[j] = Whats[j]
      BY <3>1, <3>3 DEF Whats
    <3>5. h.thing \in KnownThings \cup {None} /\ h.becomes \in BOOLEAN
      <4>1. Len(log) + 1 \in DOMAIN Happenings
        BY <2>1, <3>1, HappeningsAssumption DEF Happen
      <4>2. h \in May
        BY <3>2, <4>1 DEF May
      <4> QED
        BY <4>2, HeardIsKnown
    <3> HIDE DEF w, n
    <3>6. LastTold(w, n) = Told(LastTold(w, Len(log)), h)
      BY <3>4, <3>5, ToldIsLast
    <3>7. LastTold(w, Len(log)) = active
      BY <2>1, <3>1, <3>4, LastToldOf DEF ActiveIsLast
    <3>8. active' = Told(active, h)
      BY <3>2 DEF Told
    <3>9. active' = LastTold(w, Len(log'))
      BY <3>1, <3>6, <3>7, <3>8 DEF n
    <3> QED
      BY <3>9 DEF ActiveIsLast, LastTold, KnownThings, w
  <2>2. CASE ~Happen
    <3>1. log' = log /\ active' = active
      BY <2>2 DEF Next, PanelPages, AskPage, TakePage, LosePage, vars
    <3> QED
      BY <3>1 DEF ActiveIsLast, LastTold, KnownThings, Whats
  <2> QED
    BY <2>1, <2>2
<1> QED
  BY <1>1, <1>2, DownloadInvariant, PTL DEF Spec

\* What the caller concludes is what its records say.
LEMMA ConcludedIs ==
  ASSUME LogTyped, HeldIsLog
  PROVE  Concluded = LastTold(HeldWhats, Len(held))
<1> DEFINE n == Len(held)
           Q == SUBSET KnownThings
           step == [i \in 1..n |-> [k \in Q |-> Conclude(k, held[i])]]
           Made(f) == f = [i \in 0..n |-> IF i = 0 THEN {} ELSE Conclude(f[i - 1], held[i])]
           c == CHOOSE f : Made(f)
<1>1. n \in Nat /\ {} \in Q
  BY DEF HeldIsLog
<1>2. Concluded = c[n]
  BY DEF Concluded
<1>3. ASSUME NEW i \in 1..n
      PROVE  /\ HeldWhats[i].thing \in KnownThings \cup {None} /\ HeldWhats[i].becomes \in BOOLEAN
             /\ \A k \in Q : /\ Conclude(k, held[i]) = Told(k, HeldWhats[i])
                             /\ Conclude(k, held[i]) \in Q
  <2>1. /\ EventOf(held[i]) \in 1..Len(log) /\ held[i] = TheRecord(EventOf(held[i]))
        /\ HeldWhats[i] = Heard(log[EventOf(held[i])].what)
    BY HeldTells DEF HeldWhats
  <2> DEFINE m == EventOf(held[i])
             r == held[i]
  <2>2. m \in 1..Len(log) /\ r = TheRecord(m) /\ HeldWhats[i] = Heard(log[m].what)
    BY <2>1
  <2> HIDE DEF m, r, Q
  <2>3. ASSUME NEW k \in Q
        PROVE  /\ Conclude(k, TheRecord(m)) = Told(k, Heard(log[m].what))
               /\ Told(k, Heard(log[m].what)) \in Q
    BY <2>2, ConcludeIs DEF Q
  <2>4. Heard(log[m].what).thing \in KnownThings \cup {None} /\ Heard(log[m].what).becomes \in BOOLEAN
    BY <2>2, EventIsAbout
  <2>5. \A k \in Q : Conclude(k, r) = Told(k, HeldWhats[i]) /\ Conclude(k, r) \in Q
    BY <2>2, <2>3
  <2> QED
    BY <2>2, <2>4, <2>5 DEF r
<1> HIDE DEF Q, c, n
<1>4. step \in [1..n -> [Q -> Q]] /\ \A i \in 1..n, k \in Q : step[i][k] = Conclude(k, held[i])
  BY <1>3
<1> HIDE DEF step
<1>5. PICK g \in [0..n -> Q] : Rounds(g, n, {}, step)
  BY <1>1, <1>4, LoopExists
<1>6. Made(g)
  <2> SUFFICES ASSUME NEW i \in 0..n
               PROVE  g[i] = IF i = 0 THEN {} ELSE Conclude(g[i - 1], held[i])
    OBVIOUS
  <2>1. CASE i = 0
    BY <1>5, <2>1 DEF Rounds
  <2>2. CASE i # 0
    <3>1. i \in 1..n /\ i - 1 \in 0..n
      BY <1>1, <2>2
    <3>2. g[i - 1] \in Q /\ g[i] = step[i][g[i - 1]]
      BY <1>5, <3>1 DEF Rounds
    <3> QED
      BY <1>4, <2>2, <3>1, <3>2
  <2> QED
    BY <2>1, <2>2
<1>7. Made(c)
  BY <1>6 DEF c
<1>8. c[0] = {} /\ \A i \in 1..n : c[i] = Conclude(c[i - 1], held[i])
  <2>1. 0 \in 0..n /\ \A i \in 1..n : i \in 0..n /\ i # 0
    BY <1>1
  <2>2. \A i \in 0..n : c[i] = IF i = 0 THEN {} ELSE Conclude(c[i - 1], held[i])
    BY <1>7
  <2> QED
    BY <2>1, <2>2
<1> DEFINE T == {i \in 0..n : c[i] = LastTold(HeldWhats, i)}
<1>9. 0 \in T
  <2>1. 1..0 = {}
    OBVIOUS
  <2>2. LastTold(HeldWhats, 0) = {}
    BY <2>1 DEF LastTold
  <2>3. 0 \in 0..n /\ c[0] = {}
    BY <1>1, <1>8
  <2> QED
    BY <2>2, <2>3
<1>10. ASSUME NEW i \in 1..n, i - 1 \in T PROVE i \in T
  <2>1. c[i - 1] = LastTold(HeldWhats, i - 1) /\ i \in Nat \ {0} /\ i \in 0..n
    BY <1>1, <1>10
  <2>2. c[i - 1] \in Q
    BY <2>1 DEF LastTold, Q
  <2>3. c[i] = Told(c[i - 1], HeldWhats[i])
    BY <1>3, <1>8, <2>2
  <2>4. LastTold(HeldWhats, i) = Told(LastTold(HeldWhats, i - 1), HeldWhats[i])
    BY <1>3, <2>1, ToldIsLast
  <2> QED
    BY <2>1, <2>3, <2>4
<1> HIDE DEF T
<1>11. 0..n \subseteq T
  BY <1>1, <1>9, <1>10, InductionUpTo
<1> QED
  BY <1>1, <1>2, <1>11 DEF T, n

\* Of a thing whose last event was downloaded the caller concludes what is so,
\* and of what never happened nothing; a partition whose auto-arming was put
\* off since is left out.
THEOREM ConclusionsAreTrue == Spec => []LastReportIsTrue
<1>1. ASSUME DownloadInv, ActiveIsLast PROVE LastReportIsTrue
  <2> DEFINE last(t) == CHOOSE i \in About(t) : \A j \in About(t) : j <= i
  <2>1. LogTyped /\ HeldIsLog /\ Len(log) \in Nat /\ DOMAIN log = 1..Len(log) /\ Len(held) \in Nat
        /\ DOMAIN held = 1..Len(held)
    BY <1>1 DEF DownloadInv, LogTyped, HeldIsLog
  <2>2. active = LastTold(Whats, Len(log)) /\ Concluded = LastTold(HeldWhats, Len(held))
    BY <1>1, <2>1, ConcludedIs DEF ActiveIsLast
  <2>3. /\ \A n \in 1..Len(log) : Whats[n] = log[n].what
        /\ \A i \in 1..Len(held) : /\ EventOf(held[i]) \in 1..Len(log)
                                   /\ HeldWhats[i] = Heard(log[EventOf(held[i])].what)
                                   /\ NumberOfBytes(held[i].serial) = Serial(EventOf(held[i]))
    BY <2>1, HeldTells DEF Whats, HeldWhats
  <2>4. \A n \in 1..Len(log) : log[n].what.thing \in KnownThings \cup {None}
    BY <2>1, EventIsAbout
  <2>4a. ASSUME NEW t \in Things, ~PutOffSince(t), NEW i \in 1..Len(held), HeldWhats[i].thing = t
         PROVE  \/ log[EventOf(held[i])].what.thing = t
                \/ \E j \in About(t) : EventOf(held[i]) < j
    <3> DEFINE n == EventOf(held[i])
    <3>1. n \in 1..Len(log) /\ Heard(log[n].what).thing = t /\ Serial(n) \in HeldSerials
      BY <2>1, <2>3, <2>4a DEF HeldSerials
    <3> HIDE DEF n
    <3>2. CASE log[n].what.code # PutOff
      <4>1. log[n].what.thing = t
        BY <2>1, <3>1, <3>2, EventIsAbout
      <4> QED
        BY <4>1 DEF n
    <3>3. CASE log[n].what.code = PutOff
      <4>1. t = <<"armed", log[n].what.partition>> /\ log[n].what.thing = None
        BY <2>1, <3>1, <3>3, EventIsAbout
      <4>2. PICK j \in About(t) : ~(j < n)
        BY <2>1, <2>4a, <3>1, <3>3, <4>1 DEF PutOffSince
      <4>3. j \in 1..Len(log) /\ log[j].what.thing = t /\ t # None
        BY <2>1 DEF About, Things
      <4>4. n < j
        BY <2>1, <3>1, <4>1, <4>2, <4>3
      <4> QED
        BY <4>4 DEF n
    <3> QED
      BY <3>2, <3>3
  <2>5. ASSUME NEW t \in Things, ~PutOffSince(t), About(t) = {} PROVE t \notin Concluded
    <3> SUFFICES ASSUME t \in Concluded PROVE FALSE
      OBVIOUS
    <3>1. PICK j \in 1..Len(held) : HeldWhats[j].thing = t
      BY <2>2 DEF LastTold
    <3>2. EventOf(held[j]) \in 1..Len(log) /\ log[EventOf(held[j])].what.thing = t
      BY <2>3, <2>4a, <2>5, <3>1
    <3>3. EventOf(held[j]) \in About(t)
      BY <2>1, <3>2 DEF About
    <3> QED
      BY <2>5, <3>3
  <2>6. ASSUME NEW t \in Things, ~PutOffSince(t), About(t) # {}, Serial(last(t)) \in HeldSerials
        PROVE  (t \in Concluded) = (t \in active)
    <3> DEFINE n == last(t)
    <3>1. n \in About(t) /\ \A j \in About(t) : j <= n
      <4>1. About(t) \subseteq 1..Len(log)
        BY <2>1 DEF About
      <4> DEFINE A == About(t)
      <4>2. A \subseteq 1..Len(log) /\ A # {}
        BY <2>6, <4>1
      <4> HIDE DEF A
      <4>3. \E i \in A : \A j \in A : j <= i
        BY <2>1, <4>2, GreatestNumber
      <4>4. \E i \in About(t) : \A j \in About(t) : j <= i
        BY <4>3 DEF A
      <4> QED
        BY <4>4
    <3>2. n \in 1..Len(log) /\ log[n].what.thing = t
      BY <2>1, <3>1 DEF About
    <3> HIDE DEF n
    <3>3. \A k \in 1..Len(log) : log[k].what.thing = t => k <= n
      BY <2>1, <3>1 DEF About
    <3>4. t \in KnownThings
      <4>1. t # None
        BY DEF Things
      <4> QED
        BY <2>4, <3>2, <4>1
    <3> DEFINE on == log[n].what.becomes
    <3>5. t \in active <=> on
      <4>1. ASSUME t \in active PROVE on
        <5>1. PICK j \in 1..Len(log) : /\ Whats[j].thing = t /\ Whats[j].becomes
                                       /\ \A k \in (j + 1)..Len(log) : Whats[k].thing # t
          BY <2>2, <4>1 DEF LastTold
        <5>2. j <= n
          BY <2>3, <3>3, <5>1
        <5>3. CASE j < n
          <6>1. n \in (j + 1)..Len(log)
            BY <3>2, <5>3
          <6> QED
            BY <2>3, <3>2, <5>1, <6>1
        <5>4. CASE j = n
          BY <2>3, <5>1, <5>4
        <5> QED
          BY <3>2, <5>2, <5>3, <5>4
      <4>2. ASSUME on PROVE t \in active
        <5>1. \A k \in (n + 1)..Len(log) : k \in 1..Len(log) /\ ~(k <= n)
          BY <3>2
        <5>2. \A k \in (n + 1)..Len(log) : Whats[k].thing # t
          BY <2>3, <3>3, <5>1
        <5> QED
          BY <2>2, <2>3, <3>2, <3>4, <4>2, <5>2 DEF LastTold
      <4> QED
        BY <4>1, <4>2
    <3>6. PICK i \in 1..Len(held) : EventOf(held[i]) = n
      <4>1. PICK i \in 1..Len(held) : NumberOfBytes(held[i].serial) = Serial(n)
        BY <2>1, <2>6 DEF HeldSerials, n
      <4>2. Serial(EventOf(held[i])) = Serial(n) /\ EventOf(held[i]) \in 1..Len(log)
        BY <2>3, <4>1
      <4>3. EventOf(held[i]) = n
        BY <3>2, <4>2, EventLogAssumption DEF Serial
      <4> QED
        BY <4>3
    <3>7. HeldWhats[i].thing = t /\ HeldWhats[i].becomes = on
      <4>1. log[n].what.code # PutOff
        BY <2>1, <3>2, EventIsAbout DEF Things
      <4> QED
        BY <2>1, <2>3, <3>2, <3>6, <4>1, EventIsAbout
    <3>8. \A k \in (i + 1)..Len(held) : HeldWhats[k].thing # t
      <4> SUFFICES ASSUME NEW k \in (i + 1)..Len(held), HeldWhats[k].thing = t PROVE FALSE
        OBVIOUS
      <4>1. k \in 1..Len(held) /\ i < k
        OBVIOUS
      <4>2. EventOf(held[i]) < EventOf(held[k])
        BY <2>1, <4>1 DEF HeldIsLog
      <4>3. EventOf(held[k]) \in 1..Len(log)
        BY <2>3, <4>1
      <4>4. CASE log[EventOf(held[k])].what.thing = t
        <5>1. EventOf(held[k]) <= n
          BY <3>3, <4>3, <4>4
        <5> QED
          BY <3>2, <3>6, <4>2, <4>3, <5>1
      <4>5. CASE \E j \in About(t) : EventOf(held[k]) < j
        <5>1. PICK j \in About(t) : EventOf(held[k]) < j
          BY <4>5
        <5>2. j \in 1..Len(log) /\ j <= n
          BY <2>1, <3>3 DEF About
        <5> QED
          BY <3>2, <3>6, <4>2, <4>3, <5>1, <5>2
      <4> QED
        BY <2>4a, <2>6, <4>1, <4>4, <4>5
    <3>9. t \in Concluded <=> on
      <4>1. ASSUME t \in Concluded PROVE on
        <5>1. PICK j \in 1..Len(held) : /\ HeldWhats[j].thing = t /\ HeldWhats[j].becomes
                                        /\ \A k \in (j + 1)..Len(held) : HeldWhats[k].thing # t
          BY <2>2, <4>1 DEF LastTold
        <5>2. CASE j < i
          <6>1. i \in (j + 1)..Len(held)
            BY <5>2
          <6> QED
            BY <3>7, <5>1, <6>1
        <5>3. CASE i < j
          <6>1. j \in (i + 1)..Len(held)
            BY <5>3
          <6> QED
            BY <3>8, <5>1, <6>1
        <5>4. CASE j = i
          BY <3>7, <5>1, <5>4
        <5> QED
          BY <5>2, <5>3, <5>4
      <4>2. ASSUME on PROVE t \in Concluded
        BY <2>2, <3>4, <3>7, <3>8, <4>2 DEF LastTold
      <4> QED
        BY <4>1, <4>2
    <3> QED
      BY <3>5, <3>9
  <2> HIDE DEF last
  <2>7. \A t \in Things : ~PutOffSince(t) => ReportIsTrue(t)
    <3>1. \A t \in Things :
            ~PutOffSince(t) =>
              IF About(t) = {} THEN t \notin Concluded
              ELSE Serial(last(t)) \in HeldSerials => (t \in Concluded) = (t \in active)
      BY <2>5, <2>6
    <3> QED
      BY <3>1 DEF ReportIsTrue, last
  <2>8. ASSUME NEW t \in Things, PutOffSince(t) PROVE t \in Concluded
    <3>1. PICK n \in 1..Len(log) : /\ log[n].what.code = PutOff
                                   /\ t = <<"armed", log[n].what.partition>>
                                   /\ Serial(n) \in HeldSerials /\ \A j \in About(t) : j < n
      BY <2>1, <2>8 DEF PutOffSince
    <3>2. PICK i \in 1..Len(held) : EventOf(held[i]) = n
      <4>1. PICK i \in 1..Len(held) : NumberOfBytes(held[i].serial) = Serial(n)
        BY <2>1, <3>1 DEF HeldSerials
      <4>2. Serial(EventOf(held[i])) = Serial(n) /\ EventOf(held[i]) \in 1..Len(log)
        BY <2>3, <4>1
      <4>3. EventOf(held[i]) = n
        BY <4>2, EventLogAssumption DEF Serial
      <4> QED
        BY <4>3
    <3>3. HeldWhats[i].thing = t
      BY <2>1, <2>3, <3>1, <3>2, EventIsAbout
    <3> DEFINE R == {k \in i..Len(held) : HeldWhats[k].thing = t}
    <3>4. R \subseteq 1..Len(held) /\ i \in R
      BY <2>1, <3>3
    <3> HIDE DEF R
    <3>5. PICK k \in R : \A m \in R : m <= k
      BY <2>1, <3>4, GreatestNumber
    <3>6. /\ k \in 1..Len(held) /\ i <= k /\ HeldWhats[k].thing = t
          /\ \A m \in (k + 1)..Len(held) : HeldWhats[m].thing # t
      BY <2>1, <3>5 DEF R
    <3> DEFINE e == EventOf(held[k])
    <3>7. e \in 1..Len(log) /\ n <= e /\ HeldWhats[k] = Heard(log[e].what)
      <4>1. CASE i = k
        BY <2>3, <3>2, <3>6, <4>1
      <4>2. CASE i # k
        <5>1. i < k
          BY <3>6, <4>2
        <5> QED
          BY <2>1, <2>3, <3>2, <3>6, <5>1 DEF HeldIsLog
      <4> QED
        BY <4>1, <4>2
    <3> HIDE DEF e
    <3>8. log[e].what.code = PutOff
      <4> SUFFICES ASSUME log[e].what.code # PutOff PROVE FALSE
        OBVIOUS
      <4>1. log[e].what.thing = t
        BY <2>1, <3>6, <3>7, EventIsAbout
      <4>2. e \in About(t)
        BY <2>1, <3>7, <4>1 DEF About
      <4>3. e < n
        BY <3>1, <4>2
      <4> QED
        BY <3>7, <4>3
    <3>9. HeldWhats[k].becomes
      BY <2>1, <3>7, <3>8, EventIsAbout
    <3>10. t \in KnownThings
      <4>1. t # None
        BY DEF Things
      <4> QED
        BY <2>1, <3>6, <3>7, <4>1, EventIsAbout
    <3> QED
      BY <2>2, <3>6, <3>9, <3>10 DEF LastTold
  <2> QED
    BY <2>7, <2>8 DEF LastReportIsTrue
<1> QED
  BY <1>1, DownloadInvariant, ActiveIsTold, PTL

-----------------------------------------------------------------------------
(* The frame that told an event when it happened. *)

\* The byte about the fence is one of four.
LEMMA EntryTyped ==
  ASSUME LogTyped, NEW n \in 1..Len(log)
  PROVE  log[n].fence \in {1, 2, 129, 130}
<1>1. log[n] \in Entries
  BY DEF LogTyped
<1> QED
  BY <1>1 DEF Entries

\* The last digits of four.
LEMMA LastDigits ==
  ASSUME NEW a \in Nat, NEW b \in Nat, NEW c \in Nat, NEW d \in Nat
  PROVE  /\ SubSeq(<<a, b, c, d>>, 3, 4) = <<c, d>>
         /\ SubSeq(<<a, b, c, d>>, 2, 4) = <<b, c, d>>
<1> DEFINE r == <<a, b, c, d>>
           t == <<c, d>>
           u == <<b, c, d>>
<1>1. /\ r \in Seq(Nat) /\ t \in Seq(Nat) /\ u \in Seq(Nat) /\ Len(r) = 4 /\ Len(t) = 2 /\ Len(u) = 3
      /\ r[3] = t[1] /\ r[4] = t[2] /\ r[2] = u[1] /\ r[3] = u[2] /\ r[4] = u[3]
  OBVIOUS
<1> HIDE DEF r, t, u
<1>2. SubSeq(r, 2 + 1, 2 + Len(t)) = t
  <2>1. ASSUME NEW i \in 1..Len(t) PROVE r[2 + i] = t[i]
    <3>1. (i = 1 \/ i = 2) /\ 2 + 1 = 3 /\ 2 + 2 = 4
      BY <1>1
    <3> QED
      BY <1>1, <3>1, Zenon
  <2> QED
    BY <1>1, <2>1, StretchIs
<1>3. SubSeq(r, 1 + 1, 1 + Len(u)) = u
  <2>1. ASSUME NEW i \in 1..Len(u) PROVE r[1 + i] = u[i]
    <3>1. (i = 1 \/ i = 2 \/ i = 3) /\ 1 + 1 = 2 /\ 1 + 2 = 3 /\ 1 + 3 = 4
      BY <1>1
    <3> QED
      BY <1>1, <3>1, Zenon
  <2> QED
    BY <1>1, <2>1, StretchIs
<1>4. SubSeq(r, 3, 4) = t /\ SubSeq(r, 2, 4) = u
  BY <1>1, <1>2, <1>3
<1> QED
  BY <1>4 DEF r, t, u

\* Digits as text.
Spelt(digits) == [k \in DOMAIN digits |-> 48 + digits[k]]

\* The offsets of an event frame, as decode_event has them.
IsLiveFrame(raw, n) ==
  LET h == log[n].what
  IN /\ raw \in Seq(Nat) /\ Len(raw) = 24
     /\ \A k \in 1..4 : raw[8 + k] = 48 + Digits4(h.code)[k]
     /\ \A k \in 1..2 : raw[12 + k] = 48 + Digits4(h.partition)[2 + k]
     /\ \A k \in 1..3 : raw[14 + k] = 48 + Digits4(h.subject)[1 + k]
     /\ raw[22] = log[n].fence

\* The frame is made so.
LEMMA LiveFrameIs ==
  ASSUME LogTyped, NEW n \in 1..Len(log)
  PROVE  IsLiveFrame(LiveFrame(n), n)
<1> DEFINE h == log[n].what
           c == Digits4(h.code)
           p == Digits4(h.partition)
           s == Digits4(h.subject)
           head == <<123, 24, 1, Cmd.EVENT>>
           mark == Spelt(<<1, 2, 3, 4>>)
           code == Spelt(c)
           part == Spelt(SubSeq(p, 3, 4))
           subj == Spelt(SubSeq(s, 2, 4))
           ser == SerialBytes(Serial(n))
           tail == <<log[n].fence, 0, 85>>
<1>1. LiveFrame(n) = head \o mark \o code \o part \o subj \o ser \o tail
  BY DEF LiveFrame, Spelt
<1>2. /\ h.code \in FourDigit /\ h.partition \in FourDigit /\ h.subject \in FourDigit
      /\ Serial(n) \in Nat /\ FitsFourBytes(Serial(n)) /\ log[n].fence \in {1, 2, 129, 130}
  <2>1. IsEvent(n)
    BY EntryFacts
  <2>2. \A x \in 0..255 : x \in FourDigit
    BY DEF FourDigit
  <2>3. h.partition \in 0..255 /\ h.subject \in 0..255
    BY <2>1 DEF IsEvent
  <2>4. log[n].fence \in {1, 2, 129, 130}
    BY EntryTyped
  <2> QED
    BY <2>1, <2>2, <2>3, <2>4 DEF IsEvent
<1>3. /\ (\A k \in 1..4 : c[k] \in 0..9) /\ c = <<c[1], c[2], c[3], c[4]>>
      /\ (\A k \in 1..4 : p[k] \in 0..9) /\ p = <<p[1], p[2], p[3], p[4]>>
      /\ (\A k \in 1..4 : s[k] \in 0..9) /\ s = <<s[1], s[2], s[3], s[4]>>
  BY <1>2, FourDigits
<1>4. ser \in Seq(Nat) /\ Len(ser) = 4
  <2>1. \A k \in 1..4 : ser[k] \in Byte
    BY <1>2, SerialIsRead
  <2>2. \E w, x, y, z : ser = <<w, x, y, z>>
    BY DEF SerialBytes
  <2> HIDE DEF ser
  <2>3. ser \in Seq(Byte) /\ Len(ser) = 4
    BY <2>1, <2>2
  <2> QED
    BY <2>3, BytesAreNumbers
<1> HIDE DEF c, p, s, ser, h
<1>5. head \in Seq(Nat) /\ Len(head) = 4
  BY DEF Cmd
<1>6. mark \in Seq(Nat) /\ Len(mark) = 4
  BY DEF Spelt
<1>7. code \in Seq(Nat) /\ Len(code) = 4 /\ \A k \in 1..4 : code[k] = 48 + c[k]
  <2>1. DOMAIN c = 1..4
    BY <1>3
  <2> QED
    BY <1>3, <2>1 DEF Spelt
<1>8. part \in Seq(Nat) /\ Len(part) = 2 /\ \A k \in 1..2 : part[k] = 48 + p[2 + k]
  <2>1. SubSeq(p, 3, 4) = <<p[3], p[4]>>
    <3>1. p[1] \in Nat /\ p[2] \in Nat /\ p[3] \in Nat /\ p[4] \in Nat
      BY <1>3
    <3>2. SubSeq(<<p[1], p[2], p[3], p[4]>>, 3, 4) = <<p[3], p[4]>>
      BY <3>1, LastDigits
    <3> QED
      BY <1>3, <3>2
  <2>2. p[3] \in 0..9 /\ p[4] \in 0..9
    BY <1>3
  <2>3. part = <<48 + p[3], 48 + p[4]>>
    BY <2>1, <2>2 DEF Spelt
  <2> HIDE DEF part
  <2> QED
    BY <2>2, <2>3
<1>9. subj \in Seq(Nat) /\ Len(subj) = 3 /\ \A k \in 1..3 : subj[k] = 48 + s[1 + k]
  <2>1. SubSeq(s, 2, 4) = <<s[2], s[3], s[4]>>
    <3>1. s[1] \in Nat /\ s[2] \in Nat /\ s[3] \in Nat /\ s[4] \in Nat
      BY <1>3
    <3>2. SubSeq(<<s[1], s[2], s[3], s[4]>>, 2, 4) = <<s[2], s[3], s[4]>>
      BY <3>1, LastDigits
    <3> QED
      BY <1>3, <3>2
  <2>2. s[2] \in 0..9 /\ s[3] \in 0..9 /\ s[4] \in 0..9
    BY <1>3
  <2>3. subj = <<48 + s[2], 48 + s[3], 48 + s[4]>>
    BY <2>1, <2>2 DEF Spelt
  <2> HIDE DEF subj
  <2> QED
    BY <2>2, <2>3
<1>10. tail \in Seq(Nat) /\ Len(tail) = 3 /\ tail[1] = log[n].fence
  BY <1>2
<1> HIDE DEF head, mark, code, part, subj, tail
<1> DEFINE r2 == head \o mark
           r3 == r2 \o code
           r4 == r3 \o part
           r5 == r4 \o subj
           r6 == r5 \o ser
           r7 == r6 \o tail
<1> HIDE DEF r2, r3, r4, r5, r6, r7
<1>11. Follows(r2, head, mark)
  BY <1>5, <1>6, JoinFollows DEF r2
<1>12. r2 \in Seq(Nat) /\ Len(r2) = 8
  BY <1>5, <1>6, <1>11 DEF Follows
<1>13. Follows(r3, r2, code)
  BY <1>7, <1>12, JoinFollows DEF r3
<1>14. r3 \in Seq(Nat) /\ Len(r3) = 12 /\ \A k \in 1..4 : r3[8 + k] = 48 + c[k]
  BY <1>7, <1>12, <1>13 DEF Follows
<1>15. Follows(r4, r3, part)
  BY <1>8, <1>14, JoinFollows DEF r4
<1>16. /\ r4 \in Seq(Nat) /\ Len(r4) = 14 /\ \A k \in 1..2 : r4[12 + k] = 48 + p[2 + k]
       /\ \A i \in 1..12 : r4[i] = r3[i]
  BY <1>8, <1>14, <1>15 DEF Follows
<1>17. Follows(r5, r4, subj)
  BY <1>9, <1>16, JoinFollows DEF r5
<1>18. /\ r5 \in Seq(Nat) /\ Len(r5) = 17 /\ \A k \in 1..3 : r5[14 + k] = 48 + s[1 + k]
       /\ \A i \in 1..14 : r5[i] = r4[i]
  BY <1>9, <1>16, <1>17 DEF Follows
<1>19. Follows(r6, r5, ser)
  BY <1>4, <1>18, JoinFollows DEF r6
<1>20. r6 \in Seq(Nat) /\ Len(r6) = 21 /\ \A i \in 1..17 : r6[i] = r5[i]
  BY <1>4, <1>18, <1>19 DEF Follows
<1>21. Follows(r7, r6, tail)
  BY <1>10, <1>20, JoinFollows DEF r7
<1>22. /\ r7 \in Seq(Nat) /\ Len(r7) = 24 /\ r7[21 + 1] = log[n].fence
       /\ \A i \in 1..21 : r7[i] = r6[i]
  BY <1>10, <1>20, <1>21 DEF Follows
<1>23. LiveFrame(n) = r7
  BY <1>1 DEF r2, r3, r4, r5, r6, r7
<1>24. /\ \A k \in 1..4 : r7[8 + k] = 48 + c[k]
       /\ \A k \in 1..2 : r7[12 + k] = 48 + p[2 + k]
       /\ \A k \in 1..3 : r7[14 + k] = 48 + s[1 + k]
  <2>0. /\ \A i \in 1..17 : i \in 1..21
        /\ \A i \in 1..14 : i \in 1..17
        /\ \A i \in 1..12 : i \in 1..14
        /\ \A k \in 1..4 : 8 + k \in 1..12
        /\ \A k \in 1..2 : 12 + k \in 1..14
        /\ \A k \in 1..3 : 14 + k \in 1..17
    OBVIOUS
  <2>1. \A i \in 1..17 : r7[i] = r5[i]
    BY <1>20, <1>22, <2>0, Zenon
  <2>2. \A i \in 1..14 : r7[i] = r4[i]
    BY <1>18, <2>0, <2>1, Zenon
  <2>3. \A i \in 1..12 : r7[i] = r3[i]
    BY <1>16, <2>0, <2>2, Zenon
  <2>4. \A k \in 1..4 : r7[8 + k] = 48 + c[k]
    BY <1>14, <2>0, <2>3, Zenon
  <2>5. \A k \in 1..2 : r7[12 + k] = 48 + p[2 + k]
    BY <1>16, <2>0, <2>2, Zenon
  <2>6. \A k \in 1..3 : r7[14 + k] = 48 + s[1 + k]
    BY <1>18, <2>0, <2>1, Zenon
  <2> QED
    BY <2>4, <2>5, <2>6
<1> QED
  BY <1>22, <1>23, <1>24 DEF IsLiveFrame, c, p, s, h

\* A field of digits, and the digits that it spells.
IsField(raw, from, to) ==
  /\ raw \in Seq(Nat) /\ from \in Nat /\ to \in Nat /\ from < to /\ to <= Len(raw)
  /\ \A k \in 1..(to - from) : raw[from + k] \in 48..57

IsText(t, raw, from, m) ==
  Len(t) = m /\ DOMAIN t = 1..m /\ t # <<>> /\ \A k \in 1..m : t[k] = raw[from + k]

IsPart(s, raw, from, to) == s = [i \in 1..(to - from) |-> raw[from + i]]

\* A slice has the bytes between its offsets.
LEMMA SliceIsPart ==
  ASSUME NEW raw, NEW size \in Nat, IsFrame(raw, size),
         NEW from \in Nat, NEW to \in Nat, from <= to, to <= size
  PROVE  IsPart(Slice(raw, from, to), raw, from, to)
<1>1. LET s == Slice(raw, from, to)
      IN s = [i \in 1..(to - from) |-> raw[from + i]] /\ Len(s) = to - from
         /\ \A i \in 1..(to - from) : s[i] = At(raw, from + i - 1)
  BY SliceIs, ZenonT(60)
<1> QED
  BY <1>1 DEF IsPart

\* The bytes of a frame that are digits are kept as a text.
LEMMA FieldIs ==
  ASSUME NEW raw, NEW from, NEW to, IsField(raw, from, to)
  PROVE  IsText(Text(Slice(raw, from, to)), raw, from, to - from)
<1> DEFINE size == Len(raw)
           m == to - from
           s == Slice(raw, from, to)
<1>1. /\ size \in Nat /\ IsFrame(raw, size) /\ from \in Nat /\ to \in Nat
      /\ from <= to /\ to <= size /\ m \in Nat \ {0}
  BY DEF IsFrame, IsField
<1>4. \A i \in 1..m : raw[from + i] \in 48..57
  BY DEF IsField
<1> HIDE DEF size
<1>2. s = [i \in 1..m |-> raw[from + i]]
  <2>1. IsPart(Slice(raw, from, to), raw, from, to)
    BY <1>1, SliceIsPart
  <2> QED
    BY <2>1 DEF IsPart
<1> HIDE DEF s, m
<1>5. Len(s) = m /\ DOMAIN s = 1..m /\ s # <<>> /\ \A i \in 1..m : s[i] = raw[from + i]
  BY <1>1, <1>2
<1>6. s \in Seq(Nat)
  <2>1. \A x \in 48..57 : x \in Nat
    OBVIOUS
  <2>2. \A i \in 1..m : raw[from + i] \in Nat
    BY <1>4, <2>1, Zenon
  <2> QED
    BY <1>1, <1>2, <2>2
<1>7. \A i \in 1..Len(s) : s[i] \notin {0, 255}
  <2>1. \A x \in 48..57 : x \notin {0, 255}
    OBVIOUS
  <2>2. \A i \in 1..m : raw[from + i] \notin {0, 255}
    BY <1>4, <2>1, Zenon
  <2>3. ASSUME NEW i \in 1..Len(s) PROVE s[i] \notin {0, 255}
    <3>1. i \in 1..m
      BY <1>5
    <3> QED
      BY <1>5, <2>2, <3>1
  <2> QED
    BY <2>3
<1>8. Text(s) = s
  <2>1. \A x \in 48..57 : x \notin Whitespace
    BY DEF Whitespace
  <2>2. 1 \in 1..m /\ m \in 1..m
    BY <1>1
  <2>3. s[1] \notin Whitespace /\ s[Len(s)] \notin Whitespace
    BY <1>4, <1>5, <2>1, <2>2
  <2> QED
    BY <1>6, <1>7, <2>3, TextIsAll
<1> QED
  BY <1>5, <1>8, Zenon DEF s, m, IsText

\* d[1], d[2]... are the digits of a field, v the values of its first ones.
Amounts(v, d, m) == v[0] = 0 /\ \A i \in 1..m : v[i] = v[i - 1] * 10 + d[i]

SpeltBy(d, raw, from, m) == \A k \in 1..m : d[k] \in 0..9 /\ raw[from + k] = 48 + d[k]

\* What the field from one offset to another is worth, read as a number.
Worth(raw, from, to, d, m) ==
  \E v : Amounts(v, d, m) /\ NumberOf(Text(Slice(raw, from, to)), None) = v[m]

\* A digit is its byte less 48.
LEMMA DigitAdds ==
  ASSUME NEW x \in Int, NEW y \in 0..9, NEW b, b = 48 + y
  PROVE  x * 10 + b - 48 = x * 10 + y /\ x * 10 + y \in Int
OBVIOUS

\* A field of digits is the number that they spell.
LEMMA FieldIsNumber ==
  ASSUME NEW raw \in Seq(Nat), NEW from \in Nat, NEW to \in Nat, from < to, to <= Len(raw),
         NEW d, NEW m, m = to - from, SpeltBy(d, raw, from, m)
  PROVE  Worth(raw, from, to, d, m)
<1> DEFINE t == Text(Slice(raw, from, to))
<1>1. m \in Nat \ {0} /\ \A k \in 1..m : d[k] \in 0..9 /\ raw[from + k] = 48 + d[k]
  BY DEF SpeltBy
<1>2. \A k \in 1..m : raw[from + k] \in 48..57
  <2>1. \A x \in 0..9 : 48 + x \in 48..57
    OBVIOUS
  <2> QED
    BY <1>1, <2>1, Zenon
<1>3. IsText(t, raw, from, m)
  <2>1. IsField(raw, from, to)
    BY <1>2 DEF IsField
  <2> QED
    BY <2>1, FieldIs, Zenon
<1> HIDE DEF t
<1>4. /\ Len(t) = m /\ DOMAIN t = 1..m /\ t # <<>>
      /\ \A k \in 1..m : t[k] = 48 + d[k]
      /\ \A k \in 1..m : t[k] \in 48..57
  BY <1>1, <1>2, <1>3, Zenon DEF IsText
<1>5. PICK v : Spells(v, t) /\ NumberOf(t, None) = v[m]
  BY <1>1, <1>4, NumberIsSpelt
<1> DEFINE T == {i \in 0..m : v[i] \in Int /\ (i # 0 => v[i] = v[i - 1] * 10 + d[i])}
<1>6. 0 \in T
  BY <1>1, <1>5 DEF Spells
<1>7. ASSUME NEW i \in 1..m, i - 1 \in T PROVE i \in T
  <2>1. v[i - 1] \in Int /\ i \in 0..m
    BY <1>1, <1>7
  <2>2. v[i] = v[i - 1] * 10 + t[i] - 48 /\ t[i] = 48 + d[i] /\ d[i] \in 0..9
    BY <1>1, <1>4, <1>5, Zenon DEF Spells
  <2>3. v[i - 1] * 10 + t[i] - 48 = v[i - 1] * 10 + d[i] /\ v[i - 1] * 10 + d[i] \in Int
    BY <2>1, <2>2, DigitAdds, Zenon
  <2>4. v[i] = v[i - 1] * 10 + d[i] /\ v[i] \in Int
    BY <2>2, <2>3, Zenon
  <2> QED
    BY <2>1, <2>4, Zenon
<1> HIDE DEF T
<1>8. 0..m \subseteq T
  BY <1>1, <1>6, <1>7, InductionUpTo
<1>9. Amounts(v, d, m)
  <2>1. v[0] = 0
    BY <1>5 DEF Spells
  <2>2. \A i \in 1..m : i \in T /\ i # 0
    BY <1>1, <1>8
  <2>3. \A i \in 1..m : v[i] = v[i - 1] * 10 + d[i]
    BY <2>2, Zenon DEF T
  <2> QED
    BY <2>1, <2>3 DEF Amounts
<1> QED
  BY <1>5, <1>9 DEF t, Worth

\* The number of four digits.
OfDigits(a, b, c, d) == ((a * 10 + b) * 10 + c) * 10 + d

Leads(a, b, c, d) ==
  /\ OfDigits(a, b, c, d) \in 0..99 => OfDigits(a, b, c, d) = c * 10 + d
  /\ OfDigits(a, b, c, d) \in 0..255 => OfDigits(a, b, c, d) = (b * 10 + c) * 10 + d

\* A number of fewer digits begins with zeros.
LEMMA LeadingZeros ==
  ASSUME NEW a \in 0..9, NEW b \in 0..9, NEW c \in 0..9, NEW d \in 0..9
  PROVE  Leads(a, b, c, d)
<1> DEFINE x == OfDigits(a, b, c, d)
<1>1. a \in Nat /\ b \in Nat /\ c \in Nat /\ d \in Nat
  OBVIOUS
<1>2. x = a * 1000 + b * 100 + c * 10 + d
  BY <1>1 DEF OfDigits
<1>3. x \in 0..255 => a = 0
  BY <1>1, <1>2
<1>4. x \in 0..99 => a = 0 /\ b = 0
  BY <1>1, <1>2
<1> QED
  BY <1>1, <1>2, <1>3, <1>4 DEF Leads

\* What an event frame tells (decode_event).
LEMMA LiveIsRead ==
  ASSUME LogTyped, NEW n \in 1..Len(log)
  PROVE  LET h == log[n].what
             live == DecodeEvent(LiveFrame(n))
         IN /\ NumberOf(live.code, None) = h.code
            /\ NumberOf(live.partition, None) = h.partition
            /\ NumberOf(live.subject, None) = h.subject
            /\ live.fence = FenceState(log[n].fence)
<1> DEFINE h == log[n].what
           c == Digits4(h.code)
           p == Digits4(h.partition)
           s == Digits4(h.subject)
           raw == LiveFrame(n)
<1>1. h.code \in FourDigit /\ h.partition \in 0..99 /\ h.subject \in 0..255
      /\ h.partition \in FourDigit /\ h.subject \in FourDigit
  <2>1. IsEvent(n)
    BY EntryFacts
  <2>2. \A x \in 0..255 : x \in FourDigit
    BY DEF FourDigit
  <2>3. h.partition \in 0..255 /\ h.subject \in 0..255
    BY <2>1 DEF IsEvent
  <2> QED
    BY <2>1, <2>2, <2>3 DEF IsEvent
<1>2. /\ \A k \in 1..4 : c[k] \in 0..9
      /\ h.code = ((c[1] * 10 + c[2]) * 10 + c[3]) * 10 + c[4]
  BY <1>1, FourDigits
<1>3. /\ \A k \in 1..4 : p[k] \in 0..9
      /\ h.partition = ((p[1] * 10 + p[2]) * 10 + p[3]) * 10 + p[4]
  BY <1>1, FourDigits
<1>4. /\ \A k \in 1..4 : s[k] \in 0..9
      /\ h.subject = ((s[1] * 10 + s[2]) * 10 + s[3]) * 10 + s[4]
  BY <1>1, FourDigits
<1>5. /\ raw \in Seq(Nat) /\ Len(raw) = 24
      /\ \A k \in 1..4 : raw[8 + k] = 48 + c[k]
      /\ \A k \in 1..2 : raw[12 + k] = 48 + p[2 + k]
      /\ \A k \in 1..3 : raw[14 + k] = 48 + s[1 + k]
      /\ raw[22] = log[n].fence
  BY LiveFrameIs DEF IsLiveFrame
<1> HIDE DEF c, p, s, h, raw
<1>6. p[3] \in 0..9 /\ p[4] \in 0..9 /\ h.partition = p[3] * 10 + p[4]
  <2>1. p[1] \in 0..9 /\ p[2] \in 0..9 /\ p[3] \in 0..9 /\ p[4] \in 0..9
    BY <1>3
  <2>2. h.partition = OfDigits(p[1], p[2], p[3], p[4])
    BY <1>3 DEF OfDigits
  <2>3. Leads(p[1], p[2], p[3], p[4])
    BY <2>1, LeadingZeros
  <2> QED
    BY <1>1, <2>1, <2>2, <2>3 DEF Leads
<1>7. s[2] \in 0..9 /\ s[3] \in 0..9 /\ s[4] \in 0..9 /\ h.subject = (s[2] * 10 + s[3]) * 10 + s[4]
  <2>1. s[1] \in 0..9 /\ s[2] \in 0..9 /\ s[3] \in 0..9 /\ s[4] \in 0..9
    BY <1>4
  <2>2. h.subject = OfDigits(s[1], s[2], s[3], s[4])
    BY <1>4 DEF OfDigits
  <2>3. Leads(s[1], s[2], s[3], s[4])
    BY <2>1, LeadingZeros
  <2> QED
    BY <1>1, <2>1, <2>2, <2>3 DEF Leads
<1>9. NumberOf(Text(Slice(raw, 8, 12)), None) = h.code
  <2> DEFINE from == 8
             to == 12
             m == 4
  <2>1. from \in Nat /\ to \in Nat /\ from < to /\ to <= Len(raw) /\ m = to - from
    BY <1>5
  <2>2. SpeltBy(c, raw, from, m)
    BY <1>2, <1>5, Zenon DEF SpeltBy
  <2> HIDE DEF from, to, m
  <2>3. Worth(raw, from, to, c, m)
    BY <1>5, <2>1, <2>2, FieldIsNumber
  <2>4. PICK v : Amounts(v, c, 4) /\ NumberOf(Text(Slice(raw, from, to)), None) = v[4]
    BY <2>3 DEF Worth, m
  <2>5. /\ v[0] = 0 /\ v[1] = v[0] * 10 + c[1] /\ v[2] = v[1] * 10 + c[2]
        /\ v[3] = v[2] * 10 + c[3] /\ v[4] = v[3] * 10 + c[4]
    BY <2>4 DEF Amounts
  <2>6. c[1] \in 0..9 /\ c[2] \in 0..9 /\ c[3] \in 0..9 /\ c[4] \in 0..9
    BY <1>2
  <2>7. v[4] = h.code
    BY <1>2, <2>5, <2>6
  <2> QED
    BY <2>4, <2>7 DEF from, to
<1>10. NumberOf(Text(Slice(raw, 12, 14)), None) = h.partition
  <2> DEFINE from == 12
             to == 14
             m == 2
             d == <<p[3], p[4]>>
  <2>1. from \in Nat /\ to \in Nat /\ from < to /\ to <= Len(raw) /\ m = to - from
    BY <1>5
  <2>2. SpeltBy(d, raw, from, m)
    <3>1. raw[12 + 1] = 48 + p[3] /\ raw[12 + 2] = 48 + p[4]
      BY <1>5
    <3>2. \A k \in 1..2 : k = 1 \/ k = 2
      OBVIOUS
    <3>3. d[1] = p[3] /\ d[2] = p[4]
      OBVIOUS
    <3> HIDE DEF d
    <3> QED
      BY <1>6, <3>1, <3>2, <3>3, Zenon DEF SpeltBy
  <2>3. d[1] = p[3] /\ d[2] = p[4]
    OBVIOUS
  <2> HIDE DEF from, to, d, m
  <2>4. Worth(raw, from, to, d, m)
    BY <1>5, <2>1, <2>2, FieldIsNumber
  <2>5. PICK v : Amounts(v, d, 2) /\ NumberOf(Text(Slice(raw, from, to)), None) = v[2]
    BY <2>4 DEF Worth, m
  <2>6. v[0] = 0 /\ v[1] = v[0] * 10 + d[1] /\ v[2] = v[1] * 10 + d[2]
    BY <2>5 DEF Amounts
  <2>7. v[2] = h.partition
    BY <1>6, <2>3, <2>6
  <2> QED
    BY <2>5, <2>7 DEF from, to
<1>11. NumberOf(Text(Slice(raw, 14, 17)), None) = h.subject
  <2> DEFINE from == 14
             to == 17
             m == 3
             d == <<s[2], s[3], s[4]>>
  <2>1. from \in Nat /\ to \in Nat /\ from < to /\ to <= Len(raw) /\ m = to - from
    BY <1>5
  <2>2. SpeltBy(d, raw, from, m)
    <3>1. raw[14 + 1] = 48 + s[2] /\ raw[14 + 2] = 48 + s[3] /\ raw[14 + 3] = 48 + s[4]
      BY <1>5
    <3>2. \A k \in 1..3 : k = 1 \/ k = 2 \/ k = 3
      OBVIOUS
    <3>3. d[1] = s[2] /\ d[2] = s[3] /\ d[3] = s[4]
      OBVIOUS
    <3> HIDE DEF d
    <3> QED
      BY <1>7, <3>1, <3>2, <3>3, Zenon DEF SpeltBy
  <2>3. d[1] = s[2] /\ d[2] = s[3] /\ d[3] = s[4]
    OBVIOUS
  <2> HIDE DEF from, to, d, m
  <2>4. Worth(raw, from, to, d, m)
    BY <1>5, <2>1, <2>2, FieldIsNumber
  <2>5. PICK v : Amounts(v, d, 3) /\ NumberOf(Text(Slice(raw, from, to)), None) = v[3]
    BY <2>4 DEF Worth, m
  <2>6. v[0] = 0 /\ v[1] = v[0] * 10 + d[1] /\ v[2] = v[1] * 10 + d[2] /\ v[3] = v[2] * 10 + d[3]
    BY <2>5 DEF Amounts
  <2>7. v[3] = h.subject
    BY <1>7, <2>3, <2>6
  <2> QED
    BY <2>5, <2>7 DEF from, to
<1>12. At(raw, 21) = log[n].fence /\ Len(raw) > 22
  BY <1>5 DEF At
<1> QED
  BY <1>9, <1>10, <1>11, <1>12 DEF DecodeEvent, raw, h

\* The byte about the fence that goes with an event of the fence.
FenceIsTold ==
  \A n \in 1..Len(log) :
    LET h == log[n].what
    IN /\ h.thing = <<"armed", 99>> => (log[n].fence \in {2, 130}) = h.becomes
       /\ h.thing = <<"fence_alarm", 99>> => (log[n].fence \in {129, 130}) = h.becomes

\* It is the state after the event.
LEMMA FenceIsAlwaysTold == Spec => []FenceIsTold
<1>1. Init => FenceIsTold
  BY DEF Init, FenceIsTold
<1>2. DownloadInv /\ FenceIsTold /\ [Next]_vars => FenceIsTold'
  <2> SUFFICES ASSUME LogTyped, FenceIsTold, [Next]_vars PROVE FenceIsTold'
    BY DEF DownloadInv
  <2>1. CASE Happen
    <3>1. Len(log) \in Nat /\ Len(log') = Len(log) + 1 /\ \A n \in 1..Len(log) : log'[n] = log[n]
      BY <2>1, LogGrows
    <3>2. PICK h \in Happenings[Len(log) + 1] :
             /\ active' = IF h.thing = None THEN active
                          ELSE IF h.becomes THEN active \cup {h.thing} ELSE active \ {h.thing}
             /\ log' = Append(log, [what |-> h, fence |-> FenceByte])
      BY <2>1 DEF Happen
    <3>3. log'[Len(log) + 1].what = h /\ log'[Len(log) + 1].fence = FenceByte
      BY <3>2 DEF LogTyped
    <3>4. None # <<"armed", 99>> /\ None # <<"fence_alarm", 99>>
      <4>1. 99 \in FourDigit
        BY DEF FourDigit
      <4> QED
        BY <4>1, NoneIsNoThing
    <3>5. h.becomes \in BOOLEAN
      <4>1. Len(log) + 1 \in DOMAIN Happenings
        BY <2>1, <3>1, HappeningsAssumption DEF Happen
      <4> QED
        BY <3>2, <4>1, HappeningsAssumption
    <3>6. /\ FenceByte \in {2, 130} <=> <<"armed", 99>> \in active'
          /\ FenceByte \in {129, 130} <=> <<"fence_alarm", 99>> \in active'
      BY DEF FenceByte
    <3>7. h.thing = <<"armed", 99>> => (FenceByte \in {2, 130}) = h.becomes
      BY <3>2, <3>4, <3>5, <3>6
    <3>8. h.thing = <<"fence_alarm", 99>> => (FenceByte \in {129, 130}) = h.becomes
      BY <3>2, <3>4, <3>5, <3>6
    <3>9. ASSUME NEW n \in 1..Len(log')
          PROVE  LET g == log'[n].what
                 IN /\ g.thing = <<"armed", 99>> => (log'[n].fence \in {2, 130}) = g.becomes
                    /\ g.thing = <<"fence_alarm", 99>> => (log'[n].fence \in {129, 130}) = g.becomes
      <4>1. CASE n = Len(log) + 1
        BY <3>3, <3>7, <3>8, <4>1
      <4>2. CASE n # Len(log) + 1
        <5>1. n \in 1..Len(log)
          BY <3>1, <4>2
        <5> QED
          BY <3>1, <5>1 DEF FenceIsTold
      <4> QED
        BY <4>1, <4>2
    <3> QED
      BY <3>9 DEF FenceIsTold
  <2>2. CASE ~Happen
    <3>1. log' = log
      BY <2>2 DEF Next, PanelPages, AskPage, TakePage, LosePage, vars
    <3> QED
      BY <3>1 DEF FenceIsTold
  <2> QED
    BY <2>1, <2>2
<1> QED
  BY <1>1, <1>2, DownloadInvariant, PTL DEF Spec

\* An event's frame and its record tell the same, and so does the frame's byte
\* about the fence.
THEOREM LiveIsTheRecord == Spec => []LiveAgreesWithLog
<1>1. ASSUME DownloadInv, FenceIsTold PROVE LiveAgreesWithLog
  <2>1. LogTyped /\ HeldIsLog /\ DOMAIN held = 1..Len(held)
    BY <1>1 DEF DownloadInv, HeldIsLog
  <2>2. ASSUME NEW i \in 1..Len(held)
        PROVE  LET n == NumberOfBytes(held[i].serial) - FirstSerial + 1
                   live == DecodeEvent(LiveFrame(n))
                   code == NumberOf(live.code, None)
                   kind == Classify(code, NumberOf(live.partition, None))
               IN /\ code = CodeOfRecord(held[i])
                  /\ kind = Classify(code, held[i].partition)
                  /\ NumberOf(live.subject, None) = held[i].subject
                  /\ SubjectOf(code) = log[n].what.who
                  /\ kind \in {"fence_arm", "fence_disarm"} /\ code # PutOff
                       => live.fence.armed = (kind = "fence_arm")
                  /\ kind \in {"fence_alarm", "fence_alarm_restore"}
                       => live.fence.triggered = (kind = "fence_alarm")
    <3> DEFINE n == NumberOfBytes(held[i].serial) - FirstSerial + 1
               live == DecodeEvent(LiveFrame(n))
               h == log[n].what
               kind == Classify(h.code, h.partition)
    <3>1. n \in 1..Len(log) /\ held[i] = TheRecord(n)
      BY <2>1, HeldTells DEF EventOf
    <3> HIDE DEF n
    <3>2. /\ NumberOf(live.code, None) = h.code /\ NumberOf(live.partition, None) = h.partition
          /\ NumberOf(live.subject, None) = h.subject /\ live.fence = FenceState(log[n].fence)
      BY <2>1, <3>1, LiveIsRead
    <3>3. CodeOfRecord(held[i]) = h.code /\ held[i].partition = h.partition
          /\ held[i].subject = h.subject
      BY <2>1, <3>1, CodeIsRead DEF TheRecord
    <3>4. Means(h) /\ h.code \in FourDigit /\ h.becomes \in BOOLEAN /\ log[n].fence \in {1, 2, 129, 130}
      <4>1. IsEvent(n)
        BY <2>1, <3>1, EntryFacts
      <4>2. log[n].fence \in {1, 2, 129, 130}
        BY <2>1, <3>1, EntryTyped
      <4> QED
        BY <4>1, <4>2 DEF IsEvent
    <3>5. IsTold(h) /\ SubjectOf(h.code) = h.who /\ (h.code = PutOff => KindOf(h.code) = "arm")
      BY <3>4, HappeningIsTold, PutOffIs
    <3>6. /\ h.thing = <<"armed", 99>> => (log[n].fence \in {2, 130}) = h.becomes
          /\ h.thing = <<"fence_alarm", 99>> => (log[n].fence \in {129, 130}) = h.becomes
      BY <1>1, <3>1 DEF FenceIsTold
    <3> HIDE DEF live, h
    <3>7. /\ live.fence.armed = (log[n].fence \in {2, 130})
          /\ live.fence.triggered = (log[n].fence \in {129, 130})
      BY <3>2, <3>4 DEF FenceState, Mode, Triggered
    <3>8. /\ FENCE_KINDS["arm"] = "fence_arm" /\ FENCE_KINDS["disarm"] = "fence_disarm"
          /\ FENCE_KINDS["alarm"] = "fence_alarm" /\ FENCE_KINDS["alarm_restore"] = "fence_alarm_restore"
          /\ DOMAIN FENCE_KINDS = {"arm", "disarm", "alarm", "alarm_restore"}
      BY DEF FENCE_KINDS
    <3>9. kind = IF h.partition = 99 /\ KindOf(h.code) \in DOMAIN FENCE_KINDS
                   THEN FENCE_KINDS[KindOf(h.code)] ELSE KindOf(h.code)
      BY DEF Classify, IsFence, FENCE_PARTITION_TEXT
    <3>10. KindOf(h.code) \notin {"fence_arm", "fence_disarm", "fence_alarm", "fence_alarm_restore"}
      BY <3>5 DEF IsTold
    <3> HIDE DEF kind
    <3>11. ASSUME kind \in {"fence_arm", "fence_disarm"}, h.code # PutOff
           PROVE  live.fence.armed = (kind = "fence_arm")
      <4>1. h.partition = 99 /\ KindOf(h.code) = IF kind = "fence_arm" THEN "arm" ELSE "disarm"
        BY <3>8, <3>9, <3>10, <3>11
      <4>2. h.thing = <<"armed", 99>> /\ (h.becomes <=> kind = "fence_arm")
        BY <3>4, <3>5, <3>11, <4>1 DEF IsTold
      <4> QED
        BY <3>4, <3>6, <3>7, <4>2
    <3>12. ASSUME kind \in {"fence_alarm", "fence_alarm_restore"}
           PROVE  live.fence.triggered = (kind = "fence_alarm")
      <4>1. h.partition = 99 /\ KindOf(h.code) = IF kind = "fence_alarm" THEN "alarm" ELSE "alarm_restore"
        BY <3>8, <3>9, <3>10, <3>12
      <4>2. h.thing = <<"fence_alarm", 99>> /\ (h.becomes <=> kind = "fence_alarm")
        BY <3>4, <3>5, <4>1 DEF IsTold
      <4> QED
        BY <3>4, <3>6, <3>7, <4>2
    <3> QED
      BY <3>2, <3>3, <3>5, <3>11, <3>12 DEF n, live, h, kind
  <2> QED
    BY <2>1, <2>2 DEF LiveAgreesWithLog
<1> QED
  BY <1>1, DownloadInvariant, FenceIsAlwaysTold, PTL

=============================================================================
