------------------------------- MODULE Codec -------------------------------
(***************************************************************************)
(* What encode.py puts into a frame and decode.py and models.py take out   *)
(* of one.  A frame is its bytes, raw, from the header at offset 0 to the  *)
(* checksum; the framing itself is FrameReader's.  Three orders of bits    *)
(* meet here: LSB first, MSB first and high nibble first.                  *)
(***************************************************************************)
EXTENDS Programming, FiniteSets

At(raw, offset) == raw[offset + 1]
Slice(raw, start, end) == SubSeq(raw, start + 1, Least(end, Len(raw)))

\* A field that only longer frames have.
AtOrZero(raw, offset) == IF Len(raw) > offset THEN At(raw, offset) ELSE 0

\* An ASCII field without its padding, stripped.
Text(data) ==
  LET kept[i \in 0..Len(data)] ==
        IF i = 0 THEN <<>>
        ELSE IF data[i] \in {0, 255} THEN kept[i - 1] ELSE Append(kept[i - 1], data[i])
  IN Strip(kept[Len(data)])

-----------------------------------------------------------------------------
(* Bitmaps and nibbles. *)

Masks == <<1, 2, 4, 8, 16, 32, 64, 128>>

BitmapToFlags(data, lsbFirst) ==
  {n \in 1..(8 * Len(data)) :
     LET bit == (n - 1) % 8
     IN Bit(data[(n - 1) \div 8 + 1], IF lsbFirst THEN Masks[bit + 1] ELSE Masks[8 - bit])}

\* Numbers beyond the bitmap, and number 0, are left out.
FlagsToBitmap(numbers, length, lsbFirst) ==
  [i \in 1..length |->
     LET b(bit) ==
           IF 8 * (i - 1) + (IF lsbFirst THEN bit ELSE 7 - bit) + 1 \in numbers
             THEN Masks[bit + 1] ELSE 0
     IN b(0) + b(1) + b(2) + b(3) + b(4) + b(5) + b(6) + b(7)]

\* Zones, high nibble first.  A zone whose nibble is 0 or undocumented is not
\* there; every other number up to the limit is.
ZoneStatus == [DISABLED |-> 0, BYPASSED |-> 1, TRIGGERED |-> 2, NOT_COMMUNICATING |-> 3,
               SHORT_CIRCUIT |-> 4, TAMPER |-> 5, LOW_BATTERY |-> 6, OPEN |-> 7, CLOSED |-> 8]

\* Fault: the low nibble is the first zone's.
NibbleLowFirst(data, n) ==
  LET b == data[(n - 1) \div 2 + 1] IN IF n % 2 = 1 THEN b % 16 ELSE b \div 16

Nibble(data, n) ==
  LET b == data[(n - 1) \div 2 + 1] IN IF n % 2 = 1 THEN b \div 16 ELSE b % 16

StatusOfNibble(nibble) == IF nibble <= ZoneStatus.CLOSED THEN nibble ELSE ZoneStatus.DISABLED

NibblesToZones(data, limit, bypassable) ==
  [n \in {n \in 1..Least(limit, 2 * Len(data)) :
            StatusOfNibble(Nibble(data, n)) # ZoneStatus.DISABLED} |->
     [status |-> Nibble(data, n), may_bypass |-> n \in bypassable]]

\* The flags of PROB by flat bit index; the fifth byte is reserved.
ProblemFlag == 0..31
Problems(data) == {n - 1 : n \in BitmapToFlags(data, TRUE)} \cap ProblemFlag

DecodeClock(data) ==
  IF Len(data) < 6 THEN <<>> ELSE [i \in 1..6 |-> BcdToInt(data[i])]

DecodeWirelessClock(data) ==
  IF Len(data) < 6 \/ \E i \in 1..6 : ~IsBcd(data[i])
    THEN <<>> ELSE [i \in 1..6 |-> BcdToInt(data[i])]

-----------------------------------------------------------------------------
(* States: a byte whose highest bit is the alarm. *)

Mode(raw) == raw % 128
Triggered(raw) == raw >= 128

PartitionState(raw) ==
  [programmed |-> raw # 0, armed_stay |-> Mode(raw) = 3, armed_away |-> Mode(raw) = 2,
   armed |-> Mode(raw) \in {2, 3}, disarmed |-> raw # 0 /\ Mode(raw) = 1,
   triggered |-> Triggered(raw)]

PartitionPermissions(raw) ==
  [disarm |-> Bit(raw, 1), arm |-> Bit(raw, 2), arm_stay |-> Bit(raw, 4),
   arm_away |-> Bit(raw, 8), ready |-> Bit(raw, 16)]

FenceState(raw) ==
  [present |-> raw # 0, armed |-> Mode(raw) = 2, disarmed |-> Mode(raw) \in {1, 4},
   triggered |-> Triggered(raw), ready |-> Mode(raw) # 4]

FencePermissions(raw) == [disarm |-> Bit(raw, 1), arm |-> Bit(raw, 8)]

\* PGM n of a pair of bytes; Python raises for a number outside 1..16.
PgmBit(n, low, high) ==
  IF n <= 8 THEN Bit(low, Masks[n]) ELSE Bit(high, Masks[n - 8])

-----------------------------------------------------------------------------
(* Frames from the panel. *)

\* The battery's voltage is its byte over 14; the byte is kept.
DecodeStatus(raw) ==
  LET bypassable == IF Len(raw) > 117 THEN BitmapToFlags(Slice(raw, 104, 117), TRUE) ELSE {}
  IN [clock |-> DecodeClock(Slice(raw, 6, 12)),
      checksum |-> Slice(raw, 4, 6),
      battery |-> At(raw, 12),
      pgms |-> {n \in 1..16 : PgmBit(n, At(raw, 13), AtOrZero(raw, 117))},
      pgm_permissions |-> {n \in 1..16 : PgmBit(n, AtOrZero(raw, 87), AtOrZero(raw, 118))},
      partitions |-> [i \in 1..16 |-> PartitionState(At(raw, 13 + i))],
      partition_permissions |->
        [i \in 1..Len(Slice(raw, 88, 104)) |-> PartitionPermissions(At(raw, 87 + i))],
      fence |-> FenceState(At(raw, 30)),
      fence_permissions |-> FencePermissions(AtOrZero(raw, 86)),
      zones |-> NibblesToZones(Slice(raw, 31, 81), 100, bypassable),
      problems |-> Problems(Slice(raw, 81, 86)),
      siren |-> AtOrZero(raw, 120),
      updating |-> AtOrZero(raw, 121) # 0]

\* PanelStatus.bypassed_zones: manual bypasses only.
BypassedZones(status) ==
  {n \in DOMAIN status.zones : status.zones[n].status = ZoneStatus.BYPASSED}

\* 0x93.
DecodeMonitorStatus(raw) ==
  [signal |-> AtOrZero(raw, 4),
   fence |-> FenceState(AtOrZero(raw, 39)),
   partitions |-> IF Len(raw) > 55 THEN [i \in 1..16 |-> PartitionState(At(raw, 39 + i))] ELSE <<>>]

\* 0x21.  Byte 41 must be there: a shorter frame raises.
DecodeConnection(raw) ==
  [serial |-> Text(Slice(raw, 4, 14)), model_byte |-> At(raw, 41),
   firmware |-> Text(Slice(raw, 42, 45)), partition_count |-> AtOrZero(raw, 51),
   signal |-> AtOrZero(raw, 49),
   fence |-> FenceState(IF Len(raw) > 100 THEN At(raw, 84) ELSE 0),
   partitions |-> IF Len(raw) > 100
                    THEN [i \in 1..16 |-> PartitionState(At(raw, 84 + i))] ELSE <<>>]

\* 0x43: the request has the same command byte and is shorter.
DecodeLogin(raw) ==
  IF Len(raw) < 50 THEN [accepted |-> FALSE, serial |-> <<>>]
  ELSE [accepted |-> At(raw, 8) = 1, serial |-> Text(Slice(raw, 11, 21))]

\* 0x24.
DecodeEvent(raw) ==
  [code |-> Text(Slice(raw, 8, 12)), partition |-> Text(Slice(raw, 12, 14)),
   subject |-> Text(Slice(raw, 14, 17)), counter |-> Slice(raw, 17, 21),
   fence |-> FenceState(IF Len(raw) > 22 THEN At(raw, 21) ELSE 0),
   problem |-> IF Len(raw) > 23 THEN At(raw, 22) ELSE 0]

CommandAck == [ACK |-> 190, INVALID_PACKET |-> 160, WRONG_PASSWORD |-> 161,
               INVALID_COMMAND |-> 162, NO_PERMISSION |-> 168, NOT_PROGRAMMED |-> 169,
               BLOCKED |-> 170, FUNCTION_ABSENT |-> 171]

\* 0x37; None stands for the UnknownPacket.
DecodeCommandResponse(raw) ==
  IF Len(raw) < 8 \/ \A name \in DOMAIN CommandAck : CommandAck[name] # At(raw, 6)
    THEN None ELSE At(raw, 6)

\* Fault: only a panel that is blocked already counts.
LocksPanelOutLate(ack) == ack = CommandAck.BLOCKED

LocksPanelOut(ack) == ack \in {CommandAck.WRONG_PASSWORD, CommandAck.BLOCKED}

\* 0x59: the record's first byte is its slot; empty records are left out.
SignalQuality == 0..4
WirelessDevice(r) ==
  [serial |-> SubSeq(r, 2, 5), zone |-> r[6], open |-> r[8] = 1,
   last_seen |-> DecodeWirelessClock(SubSeq(r, 9, 14)),
   repeater |-> r[16] \div 16, link |-> r[16] % 16,
   signal |-> IF r[16] % 16 \in SignalQuality THEN r[16] % 16 ELSE 0,
   firmware |-> <<r[7] \div 16, r[7] % 16>>, low_battery |-> r[15] # 0]

\* The whole records of a page, from offset 5 to the checksum.
PageRecords(raw, size) ==
  [i \in 1..((Len(raw) - 6) \div size) |-> SubSeq(raw, 6 + (i - 1) * size, 5 + i * size)]

DecodeWireless(raw) ==
  LET page == PageRecords(raw, 16)
      present == {i \in DOMAIN page : page[i][1] \notin {0, 255}}
  IN {[slot |-> page[i][1], device |-> WirelessDevice(page[i])] : i \in present}

\* 0x48: the records whose serial is neither blank nor filled, in their order.
EVENT_RECORD_SIZE == 14
EventRecord(r) ==
  [serial |-> SubSeq(r, 1, 4),
   contact_id |-> <<r[5] \div 16, r[5] % 16, r[6] \div 16, r[6] % 16>>,
   subject |-> r[7], partition |-> r[8], timestamp |-> DecodeWirelessClock(SubSeq(r, 9, 14))]

Written(r) == SubSeq(r, 1, 4) \notin {<<0, 0, 0, 0>>, <<255, 255, 255, 255>>}

\* Fault: a page with an empty slot holds no records.
DecodeEventsFullPage(raw) ==
  LET page == PageRecords(raw, EVENT_RECORD_SIZE)
  IN IF \A i \in DOMAIN page : Written(page[i]) THEN [i \in DOMAIN page |-> EventRecord(page[i])]
     ELSE <<>>

DecodeEvents(raw) ==
  LET page == PageRecords(raw, EVENT_RECORD_SIZE)
      records[i \in 0..Len(page)] ==
        IF i = 0 THEN <<>>
        ELSE IF Written(page[i]) THEN Append(records[i - 1], EventRecord(page[i]))
        ELSE records[i - 1]
  IN records[Len(page)]

\* decode(): the command byte chooses, and lengths tell answers from requests
\* with the same byte.  None is an UnknownPacket.  A keep-alive holds nothing,
\* and 0x44 is in ProgrammingRead, so that neither is asked of it.
Cmd == [CONNECTION |-> 33, EVENT |-> 36, AUTH |-> 55, KEEP_ALIVE |-> 64, LOGIN |-> 67,
        READ_PROGRAMMING |-> 68, READ_EVENTS |-> 72, STATUS |-> 77, ARM |-> 78, DISARM |-> 79,
        PGM_ON |-> 80, PGM_OFF |-> 81, BYPASS |-> 82, ARM_STAY |-> 83, ARM_AWAY |-> 84,
        SET_DATETIME |-> 85, STATUS_USER |-> 86, READ_WIRELESS |-> 89, MONITOR_STATUS |-> 147]

\* The commands that the panel answers with a status frame.
StatusCommands ==
  {Cmd.STATUS, Cmd.STATUS_USER, Cmd.ARM, Cmd.DISARM, Cmd.PGM_ON, Cmd.PGM_OFF, Cmd.BYPASS,
   Cmd.ARM_STAY, Cmd.ARM_AWAY, Cmd.SET_DATETIME}

Decode(cmd, raw) ==
  CASE cmd = Cmd.CONNECTION -> DecodeConnection(raw)
    [] cmd = Cmd.EVENT -> DecodeEvent(raw)
    [] cmd = Cmd.LOGIN -> DecodeLogin(raw)
    [] cmd = Cmd.AUTH -> DecodeCommandResponse(raw)
    [] cmd = Cmd.MONITOR_STATUS -> DecodeMonitorStatus(raw)
    [] cmd = Cmd.READ_WIRELESS -> IF Len(raw) < 6 THEN None ELSE DecodeWireless(raw)
    [] cmd = Cmd.READ_EVENTS /\ Len(raw) > 10 -> DecodeEvents(raw)
    [] cmd \in StatusCommands /\ Len(raw) > 100 -> DecodeStatus(raw)
    [] OTHER -> None

-----------------------------------------------------------------------------
(* Frames to the panel: a command byte and a payload, which build_frame puts *)
(* between header, length and sequence byte, and checksum.                   *)

FENCE_PARTITION == 99

BuildFrame(cmd, payload) == [cmd |-> cmd, payload |-> payload]

BuildStatusRequest == BuildFrame(Cmd.STATUS, <<>>)
BuildArm(partition) == BuildFrame(Cmd.ARM, <<partition>>)
BuildDisarm(partition) == BuildFrame(Cmd.DISARM, <<partition>>)
BuildArmStay(partition) == BuildFrame(Cmd.ARM_STAY, <<partition>>)
BuildArmAway(partition) == BuildFrame(Cmd.ARM_AWAY, <<partition>>)
BuildPgmOn(pgm) == BuildFrame(Cmd.PGM_ON, <<pgm>>)
BuildPgmOff(pgm) == BuildFrame(Cmd.PGM_OFF, <<pgm>>)
BuildMonitorStatusRequest == BuildFrame(Cmd.MONITOR_STATUS, <<>>)
BuildWirelessRead(page) == BuildFrame(Cmd.READ_WIRELESS, <<8, page>>)
BuildLogin == BuildFrame(Cmd.LOGIN, <<255, 255, 255, 4>> \o [i \in 1..34 |-> 255])

\* Fault: the cursor's two low bytes only.
BuildEventsReadShort(cursor, perPage) ==
  BuildFrame(Cmd.READ_EVENTS, <<perPage, 0, 0, (cursor \div 2^8) % 256, cursor % 256>>)

\* The cursor's four bytes, most significant first.
BuildEventsRead(cursor, perPage) ==
  BuildFrame(Cmd.READ_EVENTS,
             <<perPage, cursor \div 2^24, (cursor \div 2^16) % 256, (cursor \div 2^8) % 256, cursor % 256>>)

\* Fault: the bitmap is written in the order in which P-INIB is read.
BuildBypassLsbFirst(zones) == BuildFrame(Cmd.BYPASS, FlagsToBitmap(zones, 13, TRUE))

\* The whole bitmap, first zone in the highest bit.
BuildBypassBitmap(zones) == BuildFrame(Cmd.BYPASS, FlagsToBitmap(zones, 13, FALSE))

ToBcd(n) == ((n \div 10) * 16) + (n % 10)

\* Fault: the order of the clock in the status frame.
BuildSetDatetimeDayFirst(t) ==
  BuildFrame(Cmd.SET_DATETIME, [i \in 1..6 |-> ToBcd(<<t[1], t[2], t[3] % 100, t[4], t[5], t[6]>>[i])])

\* t is <<day, month, year, hour, minute, second>>; the frame is hour first.
\* The builder raises unless DateOk(t).
DateOk(t) ==
  t[4] \in 0..23 /\ t[5] \in 0..59 /\ t[6] \in 0..59 /\ t[1] \in 1..31 /\ t[2] \in 1..12
BuildSetDatetime(t) ==
  BuildFrame(Cmd.SET_DATETIME, [i \in 1..6 |-> ToBcd(<<t[4], t[5], t[6], t[1], t[2], t[3] % 100>>[i])])

\* Password.encode: two digits a byte, a code of four padded with 0xFF.
PasswordOk(digits) == Len(digits) \in {4, 6}
EncodePassword(digits) ==
  [i \in 1..3 |-> IF 2 * i <= Len(digits) THEN digits[2 * i - 1] * 16 + digits[2 * i] ELSE 255]

AuthFunc == [ARM_DISARM |-> 193, BYPASS |-> 195, PGM |-> 199]
BuildAuth(func, digits, kind, target) ==
  BuildFrame(Cmd.AUTH, <<7, func>> \o EncodePassword(digits) \o <<kind, target>>)
BuildAuthArm(digits, partition, arm) ==
  BuildAuth(AuthFunc.ARM_DISARM, digits, IF arm THEN 1 ELSE 0, partition)
BuildAuthFence(digits, arm) == BuildAuthArm(digits, FENCE_PARTITION, arm)
BuildAuthBypass(digits, zone) == BuildAuth(AuthFunc.BYPASS, digits, 0, zone)
BuildAuthPgm(digits, pgm, on) == BuildAuth(AuthFunc.PGM, digits, IF on THEN 1 ELSE 0, pgm)

\* Without a password (None) the fence is a partition like the others.
BuildFenceArm(digits) ==
  IF digits = None THEN BuildArm(FENCE_PARTITION) ELSE BuildAuthFence(digits, TRUE)
BuildFenceDisarm(digits) ==
  IF digits = None THEN BuildDisarm(FENCE_PARTITION) ELSE BuildAuthFence(digits, FALSE)
=============================================================================
