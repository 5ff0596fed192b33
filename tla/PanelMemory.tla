----------------------------- MODULE PanelMemory -----------------------------
(***************************************************************************)
(* The panel's side of the programming, which is not in this repository:   *)
(* what an installer sets, and the bytes that the panel keeps of it.  The  *)
(* addresses and bits are those that were measured on a panel, written out *)
(* again here, so that a slip in Programming does not hide in its mirror;  *)
(* from Programming it takes None, which is a setting that is not made.    *)
(***************************************************************************)
EXTENDS Programming

\* data from an address on.
From(address, data) == [a \in address..(address + Len(data) - 1) |-> data[a - address + 1]]

\* Records of one size, some of a table's numbers, from a base address on.
Table(base, size, records) ==
  LET numbers == DOMAIN records
      cells == UNION {(base + (n - 1) * size)..(base + n * size - 1) : n \in numbers}
  IN [a \in cells |-> records[((a - base) \div size) + 1][((a - base) % size) + 1]]

Padded(text, length) == [i \in 1..length |-> IF i <= Len(text) THEN text[i] ELSE 255]

\* The sum of the weights of the members of a set of flags.
Sum8(on, w) ==
  LET b(i) == IF w[i][1] \in on THEN w[i][2] ELSE 0
      s[i \in 0..Len(w)] == IF i = 0 THEN 0 ELSE s[i - 1] + b(i)
  IN s[Len(w)]

Bcd(n) == (n \div 10) * 16 + (n % 10)

-----------------------------------------------------------------------------
(* What an installer may set: all that a record has room for.              *)

IsName(text) ==
  /\ text \in Seq(0..254) /\ Len(text) <= 9
  /\ text # <<>> => text[1] \notin Whitespace /\ text[Len(text)] \notin Whitespace

ZoneFlags == {"bypass", "pulsed", "chime", "open_door", "stay", "smart", "silent", "auto"}
Levels == {"minimum", "medium", "maximum"}
IsZone(z) ==
  /\ z = [name |-> z.name, type |-> z.type, options |-> z.options, partitions |-> z.partitions,
          sensitivity |-> z.sensitivity]
  /\ IsName(z.name) /\ z.type \in 0..15 \cup {None} /\ z.options \subseteq ZoneFlags
  /\ z.partitions \subseteq 1..4 /\ z.sensitivity \in Levels \cup {None}

\* An output that is pulsed for minutes, or for up to 55 seconds.
IsPgm(g) ==
  /\ g = [name |-> g.name, on |-> g.on, off |-> g.off, seconds |-> g.seconds, function |-> g.function]
  /\ IsName(g.name) /\ g.on \in (0..23) \X (0..59) /\ g.off \in (0..23) \X (0..59)
  /\ g.seconds \in 1..55 \cup {60 * m : m \in 0..200} /\ g.function \in 0..25

UserFlags ==
  {"disarm", "forced_arm", "bypass_zones", "remote_access", "operate_fence", "patrol", "schedule_tasks"}
IsUser(u) ==
  /\ IsName(u.name)
  /\ u.code # None => u.code \in Seq(Byte) /\ Len(u.code) = 3 /\ \E k \in 1..3 : u.code[k] # 255
  /\ u.may \subseteq UserFlags /\ u.pgms \subseteq 1..4 /\ u.arms \subseteq 1..4

IsWireless(w) ==
  /\ w = [serial |-> w.serial, zone |-> w.zone]
  /\ w.serial \in Seq(Byte) /\ Len(w.serial) = 4 /\ w.zone \in Byte

\* 127 minutes would be the byte of no autotest, and midnight that of no automatic arming.
IsAutotest(t) == t = None \/ (t \in (0..127) \X {"minutes", "hours"} /\ t # <<127, "minutes">>)
IsAutoArm(t) == t = None \/ (t \in (0..23) \X (0..59) /\ t # <<0, 0>>)

Installable(s) ==
  /\ DOMAIN s.partition_names \subseteq 1..4 /\ \A n \in DOMAIN s.partition_names : IsName(s.partition_names[n])
  /\ DOMAIN s.pgms \subseteq 1..4 /\ \A n \in DOMAIN s.pgms : IsPgm(s.pgms[n])
  /\ DOMAIN s.users \subseteq 1..98 /\ \A n \in DOMAIN s.users : IsUser(s.users[n])
  /\ DOMAIN s.zones \subseteq 1..32 /\ \A n \in DOMAIN s.zones : IsZone(s.zones[n])
  /\ DOMAIN s.wireless \subseteq 1..32 /\ \A n \in DOMAIN s.wireless : IsWireless(s.wireless[n])
  /\ DOMAIN s.holidays \subseteq 1..16 /\ \A n \in DOMAIN s.holidays : s.holidays[n] \in (1..31) \X (1..12)
  /\ s.timers \in [1..8 -> (0..254) \cup {None}] /\ IsAutotest(s.autotest)
  /\ IsAutoArm(s.auto_arm)
  /\ s.options \subseteq {"end_of_line_resistor", "siren_on_short", "zone_doubling", "wired_tamper"}

-----------------------------------------------------------------------------
(* Records: a zone is [name, type, options, partitions, sensitivity], where *)
(* type is None for a zone that is off.                                   *)

ZoneBits3 == <<<<"bypass", 1>>, <<"pulsed", 4>>, <<"minimum", 8>>, <<"medium", 16>>,
               <<"maximum", 32>>, <<"chime", 64>>, <<"open_door", 128>>>>
ZoneBits4 == <<<<1, 1>>, <<2, 2>>, <<3, 4>>, <<4, 8>>>>
ZoneBits4o == <<<<"stay", 16>>, <<"smart", 32>>, <<"silent", 64>>, <<"auto", 128>>>>

ZoneBytes(z) ==
  Padded(z.name, 9) \o
  <<IF z.type = None THEN 0 ELSE 16 + z.type, 255, 255,
    Sum8(z.options \cup {z.sensitivity}, ZoneBits3),
    Sum8(z.partitions, ZoneBits4) + Sum8(z.options, ZoneBits4o), 255, 255>>

\* on and off are <<hour, minute>>; a pulse of up to 200 counts minutes, one
\* beyond it seconds.
DurationByte(seconds) == IF seconds % 60 = 0 THEN seconds \div 60 ELSE 200 + seconds
PgmBytes(g) ==
  Padded(g.name, 9) \o
  <<Bcd(g.on[1]), Bcd(g.on[2]), Bcd(g.off[1]), Bcd(g.off[2]), DurationByte(g.seconds), g.function, 255>>

\* code is None or three bytes.
UserBits == <<<<"disarm", 1>>, <<"forced_arm", 2>>, <<"bypass_zones", 4>>, <<"remote_access", 128>>>>
UserPgmBits == <<<<1, 8>>, <<2, 16>>, <<3, 32>>, <<4, 64>>>>
UserBytes(u) ==
  Padded(u.name, 9) \o (IF u.code = None THEN <<255, 255, 255>> ELSE u.code) \o
  <<Sum8(u.may, <<<<"patrol", 1>>, <<"operate_fence", 2>>>>),
    Sum8(u.may, UserBits) + Sum8(u.pgms, UserPgmBits),
    Sum8(u.may, <<<<"schedule_tasks", 128>>>>), Sum8(u.arms, ZoneBits4)>>

WirelessBytes(w) == w.serial \o <<w.zone, 255, 255, 255>>
HolidayBytes(h) == <<Bcd(h[1]), Bcd(h[2])>>
TimerByte(t) == IF t = None THEN 255 ELSE t

\* autotest is <<interval, unit>>, auto_arm <<hour, minute>>, either may be None.
TimerBytes(timers, autotest) ==
  [i \in 1..8 |-> TimerByte(timers[i])] \o
  <<IF autotest = None THEN 255
    ELSE autotest[1] + (IF autotest[2] = "minutes" THEN 128 ELSE 0)>>

AutoArmBytes(t) == IF t = None THEN <<0, 0>> ELSE <<Bcd(t[1]), Bcd(t[2])>>

OptionBits == <<<<"end_of_line_resistor", 1>>, <<"siren_on_short", 2>>, <<"zone_doubling", 4>>,
                <<"wired_tamper", 8>>>>

\* Each record's bytes, for the numbers that have one.
Each(Op(_), f) == [n \in DOMAIN f |-> Op(f[n])]

\* Parts that do not overlap, as one.
Joined(parts) ==
  [a \in UNION {DOMAIN parts[i] : i \in DOMAIN parts} |->
    parts[CHOOSE i \in DOMAIN parts : a \in DOMAIN parts[i]][a]]

\* The memory of a panel with settings s; what s lacks is padding.
Sections(s) ==
  <<Table(111 + 1, 9, Each(LAMBDA name : Padded(name, 9), s.partition_names)),
    Table(447 + 1, 16, Each(PgmBytes, s.pgms)),
    Table(1408, 16, Each(UserBytes, s.users)),
    Table(4096, 16, Each(ZoneBytes, s.zones)),
    Table(6144, 8, Each(WirelessBytes, s.wireless)),
    Table(0, 2, Each(HolidayBytes, s.holidays)),
    From(288, TimerBytes(s.timers, s.autotest)),
    From(336, AutoArmBytes(s.auto_arm)),
    From(1287, <<Sum8(s.options, OptionBits)>>)>>
Memory(s) == Joined(Sections(s))
=============================================================================
