---------------------------- MODULE Programming ----------------------------
(***************************************************************************)
(* The panel's programming as programming.py reads it: where a record is,  *)
(* which records a block of bytes holds, what their bytes mean, and how a  *)
(* region is split into reads.                                             *)
(*                                                                         *)
(* A block of bytes is a sequence over 0..255 read from an address.  A     *)
(* list of numbered records is a function on the numbers it holds.  None   *)
(* stands for Python's None; the empty time is the empty sequence.         *)
(***************************************************************************)
EXTENDS Integers, Sequences

CONSTANT None

Byte == 0..255

\* Bit mask of byte b, for a mask of one bit.
Bit(b, mask) == (b \div mask) % 2 = 1

Least(a, b) == IF a <= b THEN a ELSE b

NAME_PAD == 255
NAME_LENGTH == 9
MAX_READ == 112

PARTITION_NAMES_BASE == 111
PARTITION_RECORD_SIZE == NAME_LENGTH
REGION_FLAG_SIZE == 1
PGM_BASE == 447
PGM_RECORD_SIZE == 16
USER_BASE == 1408
USER_RECORD_SIZE == 16
ZONE_BASE == 4096
ZONE_RECORD_SIZE == 16
WIRELESS_BASE == 6144
WIRELESS_RECORD_SIZE == 8
HOLIDAYS_BASE == 0
HOLIDAY_RECORD_SIZE == 2
TIMERS_BASE == 288
AUTO_ARM_SCHEDULE_ADDRESS == 336
GLOBAL_ZONE_OPTIONS_ADDRESS == 1287

MAX_ZONES == 32
MAX_USERS == 98
MAX_PGMS == 4
MAX_PARTITIONS == 4
MAX_WIRELESS == 32
MAX_HOLIDAYS == 16

ZoneAddress(n) == ZONE_BASE + (n - 1) * ZONE_RECORD_SIZE
UserAddress(n) == USER_BASE + (n - 1) * USER_RECORD_SIZE
PgmAddress(n) == PGM_BASE + REGION_FLAG_SIZE + (n - 1) * PGM_RECORD_SIZE
PartitionAddress(n) ==
  PARTITION_NAMES_BASE + REGION_FLAG_SIZE + (n - 1) * PARTITION_RECORD_SIZE
WirelessAddress(n) == WIRELESS_BASE + (n - 1) * WIRELESS_RECORD_SIZE

-----------------------------------------------------------------------------
(* Names, times and durations. *)

\* A text without the whitespace of Latin-1 at its two ends (str.strip).
Whitespace == (9..13) \cup (28..32) \cup {133, 160}
Strip(text) ==
  LET solid == {i \in DOMAIN text : text[i] \notin Whitespace}
  IN IF solid = {} THEN <<>>
     ELSE SubSeq(text, CHOOSE i \in solid : \A j \in solid : i <= j,
                       CHOOSE i \in solid : \A j \in solid : j <= i)

\* The bytes of a name, which end at the first pad, stripped.
DecodeName(data) ==
  LET pads == {i \in DOMAIN data : data[i] = NAME_PAD}
      length == IF pads = {} THEN Len(data) ELSE (CHOOSE i \in pads : \A j \in pads : i <= j) - 1
  IN Strip(SubSeq(data, 1, length))

\* Fault: the boundary belongs to the seconds.
DecodeAtBoundary(raw) == IF raw >= 200 THEN raw - 200 ELSE raw * 60

DecodePgmDuration(raw) == IF raw > 200 THEN raw - 200 ELSE raw * 60

\* A BCD byte, high digit first; nothing checks that the digits are decimal.
BcdToInt(b) == ((b \div 16) * 10) + (b % 16)
IsBcd(b) == b \div 16 <= 9 /\ b % 16 <= 9

DecodeBcdTime(hour, minute) ==
  IF IsBcd(hour) /\ IsBcd(minute) THEN <<BcdToInt(hour), BcdToInt(minute)>> ELSE <<>>

-----------------------------------------------------------------------------
(* Records.  attributes are the bytes after the name. *)

CHIME_MASK == 64
ALLOWS_BYPASS_MASK == 1
SIREN_PULSED_MASK == 4
OPEN_DOOR_MASK == 128
STAY_MASK == 16
SMART_MASK == 32
AUTO_BYPASS_MASK == 128
SILENT_MASK == 64
ZoneSensitivity == {8, 16, 32}

\* Attribute byte i (counted from 0) is there and has the mask's bit.
Flag(attributes, i, mask) == Len(attributes) > i /\ Bit(attributes[i + 1], mask)

Enabled(a) == a # <<>> /\ a[1] # 0
ZoneTypeIndex(a) == IF Enabled(a) THEN a[1] % 16 ELSE None
Chime(a) == Flag(a, 3, CHIME_MASK)
AllowsBypass(a) == Flag(a, 3, ALLOWS_BYPASS_MASK)
SirenPulsed(a) == Flag(a, 3, SIREN_PULSED_MASK)
OpenDoor(a) == Flag(a, 3, OPEN_DOOR_MASK)
Silent(a) == Flag(a, 4, SILENT_MASK)
Stay(a) == Flag(a, 4, STAY_MASK)
Smart(a) == Flag(a, 4, SMART_MASK)
AutoBypass(a) == Flag(a, 4, AUTO_BYPASS_MASK)
ZonePartitions(a) == {n \in 1..MAX_PARTITIONS : Flag(a, 4, 2^(n - 1))}
Sensitivity(a) ==
  LET level == ((a[4] \div 8) % 8) * 8
  IN IF Len(a) > 3 /\ level \in ZoneSensitivity THEN level ELSE None

ZoneRecord(raw) ==
  [name |-> DecodeName(SubSeq(raw, 1, NAME_LENGTH)),
   attributes |-> SubSeq(raw, NAME_LENGTH + 1, Len(raw))]

PgmFunction == 0..25
FunctionDrivesFence(f) == f \in {18, 25}

PgmRecord(raw) == ZoneRecord(raw)
Function(a) == IF Len(a) >= 6 /\ a[6] \in PgmFunction THEN a[6] ELSE None
DurationSeconds(a) == IF Len(a) > 4 THEN DecodePgmDuration(a[5]) ELSE 0
OnAt(a) == IF Len(a) > 1 THEN DecodeBcdTime(a[1], a[2]) ELSE <<>>
OffAt(a) == IF Len(a) > 3 THEN DecodeBcdTime(a[3], a[4]) ELSE <<>>
DrivesFence(a) == Function(a) # None /\ FunctionDrivesFence(Function(a))

\* Bytes that a truncated record lacks permit nothing.
UserPermissions(a) ==
  [arm_partitions |-> {n \in 1..MAX_PARTITIONS : Flag(a, 3, 2^(n - 1))},
   disarm |-> Flag(a, 1, 1),
   forced_arm |-> Flag(a, 1, 2),
   bypass_zones |-> Flag(a, 1, 4),
   pgms |-> {n \in 1..MAX_PGMS : Flag(a, 1, 8 * 2^(n - 1))},
   remote_access |-> Flag(a, 1, 128),
   operate_fence |-> Flag(a, 0, 2),
   patrol |-> Flag(a, 0, 1),
   schedule_tasks |-> Flag(a, 2, 128)]

\* Fault: the attributes are taken from right after the name.
UserRecordWithCode(raw) ==
  [name |-> DecodeName(SubSeq(raw, 1, NAME_LENGTH)),
   has_code |-> \E i \in 10..12 : raw[i] # NAME_PAD,
   attributes |-> SubSeq(raw, NAME_LENGTH + 1, Len(raw))]

\* The three bytes of the access code are looked at and left behind.
UserRecord(raw) ==
  [name |-> DecodeName(SubSeq(raw, 1, NAME_LENGTH)),
   has_code |-> \E i \in 10..12 : raw[i] # NAME_PAD,
   attributes |-> SubSeq(raw, NAME_LENGTH + 4, Len(raw))]

\* The serial's four bytes stay a sequence, most significant first.
WirelessRecord(raw) ==
  [serial |-> SubSeq(raw, 1, 4), zone |-> raw[5], spare |-> SubSeq(raw, 6, Len(raw))]
WirelessPresent(r) == r.serial \notin {<<0, 0, 0, 0>>, <<255, 255, 255, 255>>}

HolidayRecord(raw) == [day |-> BcdToInt(raw[1]), month |-> BcdToInt(raw[2])]
HolidayFormatted(r) ==
  IF r.day \in 1..31 /\ r.month \in 1..12 THEN <<r.day, r.month>> ELSE <<>>

-----------------------------------------------------------------------------
(* The records that a block holds whole. *)

\* Fault: a record that ends one byte after the block counts as inside.
RecordAtOneShort(data, base, address, size, index) ==
  LET offset == address + index * size - base
  IN IF offset < 0 \/ offset + size > Len(data) + 1 THEN <<>>
     ELSE SubSeq(data, offset + 1, Least(offset + size, Len(data)))

RecordAt(data, base, address, size, index) ==
  LET offset == address + index * size - base
  IN IF offset < 0 \/ offset + size > Len(data) THEN <<>>
     ELSE SubSeq(data, offset + 1, offset + size)

Held(data, base, address, size, max) ==
  {n \in 1..max : RecordAt(data, base, address, size, n - 1) # <<>>}

ParseZones(data, address) ==
  [n \in Held(data, address, ZONE_BASE, ZONE_RECORD_SIZE, MAX_ZONES) |->
    ZoneRecord(RecordAt(data, address, ZONE_BASE, ZONE_RECORD_SIZE, n - 1))]

ParsePartitions(data, address) ==
  LET base == PARTITION_NAMES_BASE + REGION_FLAG_SIZE
  IN [n \in Held(data, address, base, PARTITION_RECORD_SIZE, MAX_PARTITIONS) |->
       [name |-> DecodeName(RecordAt(data, address, base, PARTITION_RECORD_SIZE, n - 1))]]

ParsePgms(data, address) ==
  LET base == PGM_BASE + REGION_FLAG_SIZE
  IN [n \in Held(data, address, base, PGM_RECORD_SIZE, MAX_PGMS) |->
       PgmRecord(RecordAt(data, address, base, PGM_RECORD_SIZE, n - 1))]

ParseUsers(data, address) ==
  [n \in Held(data, address, USER_BASE, USER_RECORD_SIZE, MAX_USERS) |->
    UserRecord(RecordAt(data, address, USER_BASE, USER_RECORD_SIZE, n - 1))]

ParseWireless(data, address) ==
  [n \in Held(data, address, WIRELESS_BASE, WIRELESS_RECORD_SIZE, MAX_WIRELESS) |->
    WirelessRecord(RecordAt(data, address, WIRELESS_BASE, WIRELESS_RECORD_SIZE, n - 1))]

ParseHolidays(data, address) ==
  [n \in Held(data, address, HOLIDAYS_BASE, HOLIDAY_RECORD_SIZE, MAX_HOLIDAYS) |->
    HolidayRecord(RecordAt(data, address, HOLIDAYS_BASE, HOLIDAY_RECORD_SIZE, n - 1))]

Timer(raw) == IF raw = 255 THEN None ELSE raw

\* Eight timers and the autotest interval, whose highest bit is its unit.
TimerSettings(block) ==
  [timers |-> [i \in 1..8 |-> Timer(block[i])],
   autotest_interval |-> IF block[9] = 255 THEN None ELSE block[9] % 128,
   autotest_in_minutes |-> block[9] # 255 /\ Bit(block[9], 128)]

ParseTimers(data, address) ==
  LET block == RecordAt(data, address, TIMERS_BASE, 9, 0)
  IN IF block = <<>> THEN None ELSE TimerSettings(block)

GlobalZoneOptions(raw) ==
  [zone_doubling |-> Bit(raw, 4), end_of_line_resistor |-> Bit(raw, 1),
   siren_on_short |-> Bit(raw, 2), wired_tamper |-> Bit(raw, 8)]

ParseGlobalZoneOptions(data, address) ==
  LET block == RecordAt(data, address, GLOBAL_ZONE_OPTIONS_ADDRESS, 1, 0)
  IN IF block = <<>> THEN None ELSE GlobalZoneOptions(block[1])

ParseAutoArmTime(data, address) ==
  LET block == RecordAt(data, address, AUTO_ARM_SCHEDULE_ADDRESS, 2, 0)
      hour == BcdToInt(block[1])
      minute == BcdToInt(block[2])
  IN IF block = <<>> \/ hour > 23 \/ minute > 59 \/ (hour = 0 /\ minute = 0)
       THEN None ELSE <<hour, minute>>

-----------------------------------------------------------------------------
(* Planning a read. *)

ReadRequest(address, count) == [address |-> address, count |-> count]

\* Fault: the last request is as long as the others.
PlanReadWhole(address, length, chunk) ==
  [i \in 1..((length + chunk - 1) \div chunk) |-> ReadRequest(address + (i - 1) * chunk, chunk)]

\* The requests for a length > 0 with a chunk in 1..MAX_READ.
PlanRead(address, length, chunk) ==
  [i \in 1..((length + chunk - 1) \div chunk) |->
    ReadRequest(address + (i - 1) * chunk, Least(chunk, length - (i - 1) * chunk))]

REGIONS ==
  [partition_names |-> <<PARTITION_NAMES_BASE,
                         REGION_FLAG_SIZE + MAX_PARTITIONS * PARTITION_RECORD_SIZE>>,
   pgms |-> <<PGM_BASE, REGION_FLAG_SIZE + MAX_PGMS * PGM_RECORD_SIZE>>,
   users |-> <<USER_BASE, MAX_USERS * USER_RECORD_SIZE>>,
   zones |-> <<ZONE_BASE, MAX_ZONES * ZONE_RECORD_SIZE>>,
   wireless |-> <<WIRELESS_BASE, MAX_WIRELESS * WIRELESS_RECORD_SIZE>>,
   holidays |-> <<HOLIDAYS_BASE, MAX_HOLIDAYS * HOLIDAY_RECORD_SIZE>>,
   timers |-> <<TIMERS_BASE, 52>>,
   zone_options |-> <<GLOBAL_ZONE_OPTIONS_ADDRESS - 7, 9>>]

PlanRegion(region) == PlanRead(REGIONS[region][1], REGIONS[region][2], MAX_READ)
=============================================================================
