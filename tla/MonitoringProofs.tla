-------------------------- MODULE MonitoringProofs --------------------------
(***************************************************************************)
(* Theorems about a client and its panel: its readings are readings of     *)
(* ProgrammingRead, whatever else happens, it cannot lock itself out, and  *)
(* each side understands what the other says.  The first parts are about   *)
(* Codec and the panel of Operate: what one side puts into a frame, the    *)
(* other takes out of it, whatever the values are.  The last are about     *)
(* what a client concludes from the programming it read and from the last  *)
(* status (which output is the fence, how many zones there are), and about *)
(* what it does not learn, the access codes.                               *)
(***************************************************************************)
EXTENDS Monitoring, ProgrammingProofs, CodecProofs

-----------------------------------------------------------------------------
(* Bits, digits and nibbles. *)

\* Each bit of a byte can be had back from the sum of the eight.
LEMMA EightBits ==
  ASSUME NEW b0 \in {0, 1}, NEW b1 \in {0, 1}, NEW b2 \in {0, 1}, NEW b3 \in {0, 1},
         NEW b4 \in {0, 1}, NEW b5 \in {0, 1}, NEW b6 \in {0, 1}, NEW b7 \in {0, 1}
  PROVE  LET x == b0 + 2 * b1 + 4 * b2 + 8 * b3 + 16 * b4 + 32 * b5 + 64 * b6 + 128 * b7
         IN /\ x \in 0..255
            /\ (x \div 1) % 2 = b0 /\ (x \div 2) % 2 = b1 /\ (x \div 4) % 2 = b2
            /\ (x \div 8) % 2 = b3 /\ (x \div 16) % 2 = b4 /\ (x \div 32) % 2 = b5
            /\ (x \div 64) % 2 = b6 /\ (x \div 128) % 2 = b7
OBVIOUS

\* Number n is bit r of byte i.
LEMMA BitPlace ==
  ASSUME NEW n \in Nat \ {0}
  PROVE  LET i == (n - 1) \div 8
             r == (n - 1) % 8
         IN i \in Nat /\ r \in 0..7 /\ n = 8 * i + r + 1
OBVIOUS

\* The weights of a byte's bits in the three tables.
LEMMA Weights ==
  /\ Msb[1] = 128 /\ Msb[2] = 64 /\ Msb[3] = 32 /\ Msb[4] = 16
  /\ Msb[5] = 8 /\ Msb[6] = 4 /\ Msb[7] = 2 /\ Msb[8] = 1
  /\ Lsb[1] = 1 /\ Lsb[2] = 2 /\ Lsb[3] = 4 /\ Lsb[4] = 8
  /\ Lsb[5] = 16 /\ Lsb[6] = 32 /\ Lsb[7] = 64 /\ Lsb[8] = 128
  /\ Masks[1] = 1 /\ Masks[2] = 2 /\ Masks[3] = 4 /\ Masks[4] = 8
  /\ Masks[5] = 16 /\ Masks[6] = 32 /\ Masks[7] = 64 /\ Masks[8] = 128
BY DEF Msb, Lsb, Masks

\* The panel reads from the bitmap of 0x52 the zones that were put into it
\* (flags_to_bitmap, first zone in the highest bit).
LEMMA BitmapIsRead ==
  ASSUME NEW s, s \subseteq 1..104
  PROVE  {n \in 1..104 : (FlagsToBitmap(s, 13, FALSE)[((n - 1) \div 8) + 1]
                            \div Msb[((n - 1) % 8) + 1]) % 2 = 1} = s
<1> SUFFICES ASSUME NEW n \in 1..104
             PROVE  (FlagsToBitmap(s, 13, FALSE)[((n - 1) \div 8) + 1]
                       \div Msb[((n - 1) % 8) + 1]) % 2 = 1 <=> n \in s
  OBVIOUS
<1> DEFINE i == (n - 1) \div 8
           r == (n - 1) % 8
           m(k) == IF 8 * i + (7 - k) + 1 \in s THEN 1 ELSE 0
           x == m(0) + 2 * m(1) + 4 * m(2) + 8 * m(3) + 16 * m(4) + 32 * m(5) + 64 * m(6)
                  + 128 * m(7)
<1>1. i \in 0..12 /\ r \in 0..7 /\ n = 8 * i + r + 1
  BY BitPlace
<1>2. \A k \in 0..7 : m(k) \in {0, 1}
  OBVIOUS
<1> HIDE DEF i, r
<1>3. FlagsToBitmap(s, 13, FALSE)[i + 1] = x
  <2>1. i + 1 \in 1..13 /\ 8 * ((i + 1) - 1) = 8 * i
    BY <1>1
  <2> QED
    BY <2>1, Weights DEF FlagsToBitmap
<1> HIDE DEF m
<1>4. /\ (x \div 1) % 2 = m(0) /\ (x \div 2) % 2 = m(1) /\ (x \div 4) % 2 = m(2)
      /\ (x \div 8) % 2 = m(3) /\ (x \div 16) % 2 = m(4) /\ (x \div 32) % 2 = m(5)
      /\ (x \div 64) % 2 = m(6) /\ (x \div 128) % 2 = m(7)
  BY <1>2, EightBits
<1> HIDE DEF x
<1>5. (x \div Msb[r + 1]) % 2 = m(7 - r)
  BY <1>1, <1>4, Weights
<1>6. m(7 - r) = 1 <=> n \in s
  BY <1>1 DEF m
<1> QED
  BY <1>3, <1>5, <1>6 DEF i, r

\* One byte that holds eight members of a set, first in its lowest bit.
LEMMA OctetIsRead ==
  ASSUME NEW s, NEW i \in Nat
  PROVE  LET x == Bits(Octet(s, i), Lsb)
         IN x \in Byte /\ \A k \in 1..8 : Bit(x, Masks[k]) <=> 8 * i + k \in s
<1> DEFINE m(k) == IF 8 * i + k \in s THEN 1 ELSE 0
           x == m(1) + 2 * m(2) + 4 * m(3) + 8 * m(4) + 16 * m(5) + 32 * m(6) + 64 * m(7)
                  + 128 * m(8)
<1>1. Bits(Octet(s, i), Lsb) = x
  BY Weights DEF Bits, Octet
<1>2. \A k \in 1..8 : m(k) \in {0, 1} /\ (m(k) = 1 <=> 8 * i + k \in s)
  OBVIOUS
<1> HIDE DEF m
<1>3. /\ x \in 0..255
      /\ (x \div 1) % 2 = m(1) /\ (x \div 2) % 2 = m(2) /\ (x \div 4) % 2 = m(3)
      /\ (x \div 8) % 2 = m(4) /\ (x \div 16) % 2 = m(5) /\ (x \div 32) % 2 = m(6)
      /\ (x \div 64) % 2 = m(7) /\ (x \div 128) % 2 = m(8)
  BY <1>2, EightBits
<1> HIDE DEF x
<1>4. \A k \in 1..8 : (x \div Masks[k]) % 2 = m(k)
  BY <1>3, Weights
<1> QED
  BY <1>1, <1>2, <1>3, <1>4 DEF Bit, Byte

\* The client reads from a bitmap, first number in the lowest bit, the set that
\* the panel put into it (bitmap_to_flags).
Octets(data, s, count) ==
  Len(data) = count /\ \A i \in 1..count : data[i] = Bits(Octet(s, i - 1), Lsb)

\* bitmap_to_flags undoes what the panel did.
LEMMA FlagsAreRead ==
  ASSUME NEW count \in Nat, NEW s, s \subseteq 1..(8 * count), NEW data, Octets(data, s, count)
  PROVE  BitmapToFlags(data, TRUE) = s
<1> USE DEF Octets
<1>1. ASSUME NEW n \in 1..(8 * count)
      PROVE  Bit(data[(n - 1) \div 8 + 1], Masks[((n - 1) % 8) + 1]) <=> n \in s
  <2> DEFINE i == (n - 1) \div 8
             k == ((n - 1) % 8) + 1
  <2>1. i \in Nat /\ k \in 1..8 /\ n = 8 * i + k /\ i + 1 \in 1..count /\ (i + 1) - 1 = i
    OBVIOUS
  <2> HIDE DEF i, k
  <2>2. data[i + 1] = Bits(Octet(s, i), Lsb)
    BY <2>1
  <2>3. Bit(Bits(Octet(s, i), Lsb), Masks[k]) <=> 8 * i + k \in s
    BY <2>1, OctetIsRead
  <2>4. Bit(data[i + 1], Masks[k]) <=> n \in s
    BY <2>1, <2>2, <2>3
  <2> QED
    BY <2>4 DEF i, k
<1>2. BitmapToFlags(data, TRUE)
        = {n \in 1..(8 * count) : Bit(data[(n - 1) \div 8 + 1], Masks[((n - 1) % 8) + 1])}
  BY DEF BitmapToFlags
<1> QED
  BY <1>1, <1>2

\* Two zones share a byte, the first in its high nibble.
Nibbles(data, N) == \A j \in 0..49 : data[j + 1] = N[2 * j + 1] * 16 + N[2 * j + 2]

\* The zone's own half of the byte comes out (nibbles_to_zones).
LEMMA NibbleIsRead ==
  ASSUME NEW N \in [1..100 -> 0..15], NEW data, NEW n \in 1..100, Nibbles(data, N)
  PROVE  Nibble(data, n) = N[n]
<1> DEFINE j == (n - 1) \div 2
<1>1. j \in 0..49 /\ (n % 2 = 1 => n = 2 * j + 1) /\ (n % 2 # 1 => n = 2 * j + 2)
      /\ 2 * j + 1 \in 1..100 /\ 2 * j + 2 \in 1..100
  OBVIOUS
<1>2. Nibble(data, n) = IF n % 2 = 1 THEN data[j + 1] \div 16 ELSE data[j + 1] % 16
  BY DEF Nibble
<1> HIDE DEF j
<1>3. data[j + 1] = N[2 * j + 1] * 16 + N[2 * j + 2] /\ N[2 * j + 1] \in 0..15 /\ N[2 * j + 2] \in 0..15
  BY <1>1 DEF Nibbles
<1>4. data[j + 1] \div 16 = N[2 * j + 1] /\ data[j + 1] % 16 = N[2 * j + 2]
  <2>1. \A x, y \in 0..15 : (x * 16 + y) \div 16 = x /\ (x * 16 + y) % 16 = y
    OBVIOUS
  <2> QED
    BY <1>3, <2>1
<1> QED
  BY <1>1, <1>2, <1>4

\* Two decimal digits a byte.
LEMMA BcdIsRead ==
  ASSUME NEW n \in 0..99
  PROVE  ToBcd(n) \in Byte /\ FromBcd(ToBcd(n)) = n /\ BcdToInt(ToBcd(n)) = n
BY DEF ToBcd, FromBcd, BcdToInt, Byte

-----------------------------------------------------------------------------
(* The commands. *)

\* The bytes of the commands, which all differ.
LEMMA CommandBytes ==
  /\ Cmd.CONNECTION = 33 /\ Cmd.EVENT = 36 /\ Cmd.AUTH = 55 /\ Cmd.LOGIN = 67
  /\ Cmd.READ_EVENTS = 72 /\ Cmd.STATUS = 77 /\ Cmd.ARM = 78 /\ Cmd.DISARM = 79
  /\ Cmd.PGM_ON = 80 /\ Cmd.PGM_OFF = 81 /\ Cmd.BYPASS = 82 /\ Cmd.ARM_STAY = 83
  /\ Cmd.ARM_AWAY = 84 /\ Cmd.SET_DATETIME = 85 /\ Cmd.STATUS_USER = 86
  /\ Cmd.READ_WIRELESS = 89 /\ Cmd.MONITOR_STATUS = 147
BY DEF Cmd

\* The commands with one byte of payload, and what each of them means.
LEMMA Kinds ==
  /\ DOMAIN KindOf = {Cmd.ARM, Cmd.ARM_AWAY, Cmd.ARM_STAY, Cmd.DISARM, Cmd.PGM_ON, Cmd.PGM_OFF}
  /\ KindOf[Cmd.ARM] = "arm" /\ KindOf[Cmd.ARM_AWAY] = "away" /\ KindOf[Cmd.ARM_STAY] = "stay"
  /\ KindOf[Cmd.DISARM] = "disarm" /\ KindOf[Cmd.PGM_ON] = "pgm_on"
  /\ KindOf[Cmd.PGM_OFF] = "pgm_off"
BY CommandBytes DEF KindOf

\* A command with one byte of payload means what its command byte says.
LEMMA ShortIsRead ==
  ASSUME NEW c \in DOMAIN KindOf, NEW target
  PROVE  Reads(BuildFrame(c, <<target>>)) = Op(KindOf[c], target)
<1> DEFINE f == BuildFrame(c, <<target>>)
<1>1. f.cmd = c /\ f.payload[1] = target
  BY DEF BuildFrame
<1>2. c \notin {Cmd.SET_DATETIME, Cmd.BYPASS, Cmd.AUTH}
  BY Kinds, CommandBytes
<1> HIDE DEF f
<1>3. Reads(f) = Op(KindOf[c], target)
  BY <1>1, <1>2 DEF Reads
<1> QED
  BY <1>3 DEF f

\* The bitmap of 0x52 means the zones that were put into it.
LEMMA BypassIsRead ==
  ASSUME NEW zones, zones \subseteq 1..104
  PROVE  Reads(BuildBypassBitmap(zones)) = Op("bypass", zones)
<1> DEFINE f == BuildBypassBitmap(zones)
<1>1. f.cmd = Cmd.BYPASS /\ f.payload = FlagsToBitmap(zones, 13, FALSE)
  BY DEF BuildBypassBitmap, BuildFrame
<1>2. f.cmd \notin DOMAIN KindOf /\ f.cmd \notin {Cmd.SET_DATETIME, Cmd.AUTH}
  BY <1>1, Kinds, CommandBytes
<1>3. {n \in 1..104 : (f.payload[((n - 1) \div 8) + 1] \div Msb[((n - 1) % 8) + 1]) % 2 = 1} = zones
  BY <1>1, BitmapIsRead
<1> HIDE DEF f
<1>4. Reads(f) = Op("bypass", zones)
  BY <1>1, <1>2, <1>3 DEF Reads
<1> QED
  BY <1>4 DEF f

\* A date as the builder accepts it, with a year of this era.
LEMMA DateIsRead ==
  ASSUME NEW t \in [1..6 -> Nat], DateOk(t)
  PROVE  Reads(BuildSetDatetime(t)) = Op("clock", [t EXCEPT ![3] = @ % 100])
<1> DEFINE f == BuildSetDatetime(t)
           u == [t EXCEPT ![3] = @ % 100]
<1>1. f.cmd = Cmd.SET_DATETIME
      /\ f.payload = [i \in 1..6 |-> ToBcd(<<t[4], t[5], t[6], t[1], t[2], t[3] % 100>>[i])]
  BY DEF BuildSetDatetime, BuildFrame
<1>2. f.cmd \notin DOMAIN KindOf
  BY <1>1, Kinds, CommandBytes
<1> HIDE DEF f
<1>3. /\ t[1] \in 0..99 /\ t[2] \in 0..99 /\ t[3] % 100 \in 0..99
      /\ t[4] \in 0..99 /\ t[5] \in 0..99 /\ t[6] \in 0..99
  BY DEF DateOk
<1>4. /\ FromBcd(f.payload[4]) = u[1] /\ FromBcd(f.payload[5]) = u[2]
      /\ FromBcd(f.payload[6]) = u[3] /\ FromBcd(f.payload[1]) = u[4]
      /\ FromBcd(f.payload[2]) = u[5] /\ FromBcd(f.payload[3]) = u[6]
  BY <1>1, <1>3, BcdIsRead
<1>5. [i \in 1..6 |-> FromBcd(f.payload[<<4, 5, 6, 1, 2, 3>>[i]])] = u
  <2>1. \A i \in 1..6 : FromBcd(f.payload[<<4, 5, 6, 1, 2, 3>>[i]]) = u[i]
    BY <1>4
  <2> QED
    BY <2>1
<1>6. Reads(f) = Op("clock", u)
  BY <1>1, <1>2, <1>5, CommandBytes DEF Reads
<1> QED
  BY <1>6 DEF f

\* What the panel looks at in a command with a password.
LEMMA AuthIsRead ==
  ASSUME NEW digits, NEW target
  PROVE  /\ \A arm \in BOOLEAN : Reads(BuildAuthArm(digits, target, arm))
                                   = Op(IF arm THEN "arm" ELSE "disarm", target)
         /\ \A on \in BOOLEAN : Reads(BuildAuthPgm(digits, target, on))
                                  = Op(IF on THEN "pgm_on" ELSE "pgm_off", target)
         /\ Reads(BuildAuthBypass(digits, target)) = Op("bypass_one", target)
<1>1. ASSUME NEW func, NEW kind
      PROVE  LET f == BuildAuth(func, digits, kind, target)
             IN /\ f.cmd = Cmd.AUTH /\ f.payload[2] = func /\ f.payload[6] = kind
                /\ f.payload[7] = target
  <2>1. \A e : LET q == <<7, func>> \o [i \in 1..3 |-> e[i]] \o <<kind, target>>
               IN q[2] = func /\ q[6] = kind /\ q[7] = target
    OBVIOUS
  <2>2. EncodePassword(digits) = [i \in 1..3 |-> EncodePassword(digits)[i]]
    BY DEF EncodePassword
  <2> QED
    BY <2>1, <2>2 DEF BuildAuth, BuildFrame
<1>2. Cmd.AUTH \notin DOMAIN KindOf /\ Cmd.AUTH \notin {Cmd.SET_DATETIME, Cmd.BYPASS}
  BY Kinds, CommandBytes
<1>3. AuthFunc.ARM_DISARM = 193 /\ AuthFunc.BYPASS = 195 /\ AuthFunc.PGM = 199
  BY DEF AuthFunc
<1>4. ASSUME NEW arm \in BOOLEAN
      PROVE  Reads(BuildAuthArm(digits, target, arm)) = Op(IF arm THEN "arm" ELSE "disarm", target)
  BY <1>1, <1>2, <1>3 DEF BuildAuthArm, Reads
<1>5. ASSUME NEW on \in BOOLEAN
      PROVE  Reads(BuildAuthPgm(digits, target, on)) = Op(IF on THEN "pgm_on" ELSE "pgm_off", target)
  BY <1>1, <1>2, <1>3 DEF BuildAuthPgm, Reads
<1>6. Reads(BuildAuthBypass(digits, target)) = Op("bypass_one", target)
  BY <1>1, <1>2, <1>3 DEF BuildAuthBypass, Reads
<1> QED
  BY <1>4, <1>5, <1>6

\* The panel does not take a request for an order.
LEMMA RequestIsRead ==
  ASSUME NEW c \in {Cmd.STATUS, Cmd.MONITOR_STATUS, Cmd.LOGIN, Cmd.READ_WIRELESS}, NEW payload
  PROVE  Reads(BuildFrame(c, payload)) = Op("none", 0)
<1>1. c \notin DOMAIN KindOf /\ c \notin {Cmd.SET_DATETIME, Cmd.BYPASS, Cmd.AUTH}
  BY Kinds, CommandBytes
<1>2. BuildFrame(c, payload).cmd = c
  BY DEF BuildFrame
<1> QED
  BY <1>1, <1>2 DEF Reads

-----------------------------------------------------------------------------
(* What a panel can be, and what its frames tell of it. *)

PartitionStates == [mode : {"disarmed", "away", "stay"}, alarm : BOOLEAN]
FenceStates == [mode : {"disarmed", "away"}, alarm : BOOLEAN]
ZoneStates == DOMAIN ZoneStatus \ {"DISABLED"}
Panels == [part : [Partitions -> PartitionStates], fence : FenceStates,
           zone : [Zones -> ZoneStates], bypassed : SUBSET (1..100), pgms : SUBSET (1..16),
           clock : [1..6 -> 0..99], wrong : 0..5]

\* A state, its mode in the low bits of a byte and the alarm in the highest.
LEMMA StateIsRead ==
  ASSUME NEW s, s.mode \in {"absent", "disarmed", "away", "stay"}, s.alarm \in BOOLEAN,
         s.mode = "absent" => ~s.alarm
  PROVE  /\ PartitionState(StateByte(s)) = PartitionView(s)
         /\ s.mode # "stay" => FenceState(StateByte(s)) = FenceView(s)
<1> DEFINE b == StateByte(s)
<1>1. b \in Nat /\ (s.alarm <=> b >= 128)
      /\ b % 128 = (IF s.mode = "absent" THEN 0 ELSE IF s.mode = "disarmed" THEN 1
                    ELSE IF s.mode = "away" THEN 2 ELSE 3)
      /\ (b = 0 <=> s.mode = "absent")
  BY DEF StateByte, ModeByte
<1> HIDE DEF b
<1>2. PartitionState(b) = PartitionView(s)
  <2>1. /\ (b # 0) = (s.mode # "absent") /\ (Mode(b) = 3) = (s.mode = "stay")
        /\ (Mode(b) = 2) = (s.mode = "away") /\ (Mode(b) \in {2, 3}) = (s.mode \in {"away", "stay"})
        /\ (b # 0 /\ Mode(b) = 1) = (s.mode = "disarmed") /\ Triggered(b) = s.alarm
    BY <1>1 DEF Mode, Triggered
  <2> QED
    BY <2>1, Zenon DEF PartitionState, PartitionView
<1>3. s.mode # "stay" => FenceState(b) = FenceView(s)
  <2> SUFFICES ASSUME s.mode # "stay" PROVE FenceState(b) = FenceView(s)
    OBVIOUS
  <2>1. /\ (b # 0) = (s.mode # "absent") /\ (Mode(b) = 2) = (s.mode = "away")
        /\ (Mode(b) \in {1, 4}) = (s.mode = "disarmed") /\ Triggered(b) = s.alarm
        /\ (Mode(b) # 4) = TRUE
    BY <1>1 DEF Mode, Triggered
  <2> QED
    BY <2>1, Zenon DEF FenceState, FenceView
<1> QED
  BY <1>2, <1>3 DEF b

\* A partition of a panel, or one that is not there.
LEMMA PartitionIsRead ==
  ASSUME NEW p \in Panels, NEW i
  PROVE  PartitionState(PartByte(p, i))
           = PartitionView(IF i \in Partitions THEN p.part[i] ELSE Partition("absent", FALSE))
<1>1. CASE i \in Partitions
  <2>1. p.part[i].mode \in {"absent", "disarmed", "away", "stay"} /\ p.part[i].alarm \in BOOLEAN
        /\ p.part[i].mode # "absent"
    BY <1>1 DEF Panels, PartitionStates
  <2> QED
    BY <1>1, <2>1, StateIsRead DEF PartByte
<1>2. CASE i \notin Partitions
  <2> DEFINE s == Partition("absent", FALSE)
  <2>1. s.mode = "absent" /\ s.alarm \in BOOLEAN /\ ~s.alarm
    BY DEF Partition
  <2> HIDE DEF s
  <2>2. StateByte(s) = 0
    BY <2>1 DEF StateByte, ModeByte
  <2>3. PartitionState(StateByte(s)) = PartitionView(s)
    BY <2>1, StateIsRead
  <2> QED
    BY <1>2, <2>2, <2>3 DEF PartByte, s
<1> QED
  BY <1>1, <1>2

\* The fence's byte tells its mode and its alarm (FenceState.from_byte).
LEMMA FenceIsRead ==
  ASSUME NEW p \in Panels
  PROVE  FenceState(StateByte(p.fence)) = FenceView(p.fence)
<1>1. p.fence.mode \in {"absent", "disarmed", "away", "stay"} /\ p.fence.alarm \in BOOLEAN
      /\ p.fence.mode # "absent" /\ p.fence.mode # "stay"
  BY DEF Panels, FenceStates
<1> QED
  BY <1>1, StateIsRead

\* The bytes of a status frame, by their offsets.
StatusBytesOf(raw, p, v) ==
  /\ At(raw, 4) = 0 /\ At(raw, 5) = v /\ At(raw, 12) = 180
  /\ \A i \in 1..6 : At(raw, 5 + i) = ToBcd(p.clock[i])
  /\ At(raw, 13) = Bits(Octet(p.pgms, 0), Lsb) /\ At(raw, 117) = Bits(Octet(p.pgms, 1), Lsb)
  /\ \A i \in 1..16 : At(raw, 13 + i) = PartByte(p, i)
  /\ At(raw, 30) = StateByte(p.fence)
  /\ \A j \in 0..49 : At(raw, 31 + j) = ZoneNibble(p, v, 2 * j + 1) * 16 + ZoneNibble(p, v, 2 * j + 2)
  /\ \A i \in 0..4 : At(raw, 81 + i) = Bits(Octet({t + 1 : t \in Troubles}, i), Lsb)
  /\ At(raw, 86) = IF p.fence.mode = "disarmed" THEN 8 ELSE 1
  /\ At(raw, 87) = Bits(Octet(MayPgm, 0), Lsb) /\ At(raw, 118) = Bits(Octet(MayPgm, 1), Lsb)
  /\ \A i \in 1..16 : At(raw, 87 + i) = PermissionByte(p, i)
  /\ \A i \in 0..12 : At(raw, 104 + i) = Bits(Octet(MayBypass, i), Lsb)
  /\ At(raw, 120) = (IF p.fence.alarm THEN 1 ELSE 0) /\ At(raw, 121) = 0

\* A status frame has them, as long as the shortest or longer.
LEMMA StatusBytes ==
  ASSUME NEW p, NEW v, NEW size \in Nat, size >= 123
  PROVE  LET raw == StatusFrame(p, v, size)
         IN Len(raw) = size /\ IsFrame(raw, size) /\ StatusBytesOf(raw, p, v)
<1> DEFINE raw == StatusFrame(p, v, size)
           B(o) == StatusByte(p, v, size, o)
<1>1. Len(raw) = size /\ IsFrame(raw, size)
  BY DEF StatusFrame, IsFrame
<1>2. \A o \in 0..(size - 1) : At(raw, o) = B(o)
  BY DEF StatusFrame, At
<1>3. /\ B(4) = 0 /\ B(5) = v /\ B(12) = 180
      /\ B(13) = Bits(Octet(p.pgms, 0), Lsb) /\ B(117) = Bits(Octet(p.pgms, 1), Lsb)
  BY DEF StatusByte
<1>4. /\ B(30) = StateByte(p.fence) /\ B(86) = IF p.fence.mode = "disarmed" THEN 8 ELSE 1
      /\ B(87) = Bits(Octet(MayPgm, 0), Lsb) /\ B(118) = Bits(Octet(MayPgm, 1), Lsb)
      /\ B(120) = (IF p.fence.alarm THEN 1 ELSE 0) /\ B(121) = 0
  BY DEF StatusByte
<1>5. \A i \in 1..6 : B(5 + i) = ToBcd(p.clock[i])
  <2>1. \A o \in 6..11 : B(o) = ToBcd(p.clock[o - 5])
    BY DEF StatusByte
  <2> HIDE DEF B
  <2> QED
    BY <2>1
<1>6. \A i \in 1..16 : B(13 + i) = PartByte(p, i)
  <2>1. \A o \in 14..29 : B(o) = PartByte(p, o - 13)
    BY DEF StatusByte
  <2> HIDE DEF B
  <2>2. \A i \in 1..16 : 13 + i \in 14..29 /\ (13 + i) - 13 = i
    OBVIOUS
  <2> QED
    BY <2>1, <2>2
<1>7. \A j \in 0..49 : B(31 + j) = ZoneNibble(p, v, 2 * j + 1) * 16 + ZoneNibble(p, v, 2 * j + 2)
  <2>1. \A o \in 31..80 : B(o) = ZoneNibble(p, v, 2 * (o - 31) + 1) * 16 + ZoneNibble(p, v, 2 * (o - 31) + 2)
    BY DEF StatusByte
  <2> HIDE DEF B
  <2>2. \A j \in 0..49 : 31 + j \in 31..80 /\ (31 + j) - 31 = j
    OBVIOUS
  <2> QED
    BY <2>1, <2>2
<1>8. \A i \in 0..4 : B(81 + i) = Bits(Octet({t + 1 : t \in Troubles}, i), Lsb)
  <2>1. \A o \in 81..85 : B(o) = Bits(Octet({t + 1 : t \in Troubles}, o - 81), Lsb)
    BY DEF StatusByte
  <2> HIDE DEF B
  <2>2. \A i \in 0..4 : 81 + i \in 81..85 /\ (81 + i) - 81 = i
    OBVIOUS
  <2> QED
    BY <2>1, <2>2
<1>9. \A i \in 1..16 : B(87 + i) = PermissionByte(p, i)
  <2>1. \A o \in 88..103 : B(o) = PermissionByte(p, o - 87)
    BY DEF StatusByte
  <2> HIDE DEF B
  <2>2. \A i \in 1..16 : 87 + i \in 88..103 /\ (87 + i) - 87 = i
    OBVIOUS
  <2> QED
    BY <2>1, <2>2
<1>10. \A i \in 0..12 : B(104 + i) = Bits(Octet(MayBypass, i), Lsb)
  <2>1. \A o \in 104..116 : B(o) = Bits(Octet(MayBypass, o - 104), Lsb)
    BY DEF StatusByte
  <2> HIDE DEF B
  <2>2. \A i \in 0..12 : 104 + i \in 104..116 /\ (104 + i) - 104 = i
    OBVIOUS
  <2> QED
    BY <2>1, <2>2
<1> HIDE DEF B, raw
<1>11. \A o \in 0..121 : At(raw, o) = B(o)
  BY <1>2
<1>12. /\ \A i \in 1..6 : 5 + i \in 0..121
       /\ \A i \in 1..16 : 13 + i \in 0..121 /\ 87 + i \in 0..121
       /\ \A j \in 0..49 : 31 + j \in 0..121
       /\ \A i \in 0..4 : 81 + i \in 0..121
       /\ \A i \in 0..12 : 104 + i \in 0..121
  OBVIOUS
<1>13. /\ At(raw, 4) = 0 /\ At(raw, 5) = v /\ At(raw, 12) = 180
       /\ At(raw, 13) = Bits(Octet(p.pgms, 0), Lsb) /\ At(raw, 117) = Bits(Octet(p.pgms, 1), Lsb)
       /\ At(raw, 30) = StateByte(p.fence) /\ At(raw, 86) = IF p.fence.mode = "disarmed" THEN 8 ELSE 1
       /\ At(raw, 87) = Bits(Octet(MayPgm, 0), Lsb) /\ At(raw, 118) = Bits(Octet(MayPgm, 1), Lsb)
       /\ At(raw, 120) = (IF p.fence.alarm THEN 1 ELSE 0) /\ At(raw, 121) = 0
  BY <1>3, <1>4, <1>11
<1>14. /\ \A i \in 1..6 : At(raw, 5 + i) = ToBcd(p.clock[i])
       /\ \A i \in 1..16 : At(raw, 13 + i) = PartByte(p, i)
       /\ \A j \in 0..49 : At(raw, 31 + j) = ZoneNibble(p, v, 2 * j + 1) * 16 + ZoneNibble(p, v, 2 * j + 2)
  BY <1>5, <1>6, <1>7, <1>11, <1>12
<1>15. /\ \A i \in 0..4 : At(raw, 81 + i) = Bits(Octet({t + 1 : t \in Troubles}, i), Lsb)
       /\ \A i \in 1..16 : At(raw, 87 + i) = PermissionByte(p, i)
       /\ \A i \in 0..12 : At(raw, 104 + i) = Bits(Octet(MayBypass, i), Lsb)
  BY <1>8, <1>9, <1>10, <1>11, <1>12
<1> QED
  BY <1>1, <1>13, <1>14, <1>15 DEF raw, StatusBytesOf

\* The parts of a status frame that are taken as slices of it.
LEMMA StatusSlices ==
  ASSUME NEW raw, NEW size \in Nat, size >= 123, IsFrame(raw, size)
  PROVE  /\ Slice(raw, 4, 6) = <<At(raw, 4), At(raw, 5)>>
         /\ Len(Slice(raw, 6, 12)) = 6 /\ \A i \in 1..6 : Slice(raw, 6, 12)[i] = At(raw, 5 + i)
         /\ Len(Slice(raw, 31, 81)) = 50
         /\ \A j \in 0..49 : Slice(raw, 31, 81)[j + 1] = At(raw, 31 + j)
         /\ Len(Slice(raw, 81, 86)) = 5
         /\ \A i \in 1..5 : Slice(raw, 81, 86)[i] = At(raw, 81 + (i - 1))
         /\ Len(Slice(raw, 88, 104)) = 16
         /\ Len(Slice(raw, 104, 117)) = 13
         /\ \A i \in 1..13 : Slice(raw, 104, 117)[i] = At(raw, 104 + (i - 1))
<1> DEFINE L(from, to) == Len(Slice(raw, from, to))
           S(from, to, i) == Slice(raw, from, to)[i]
<1>1. \A from, to \in Nat : from <= to /\ to <= size => L(from, to) = to - from
  BY SliceHas, Zenon
<1>2. \A from, to \in Nat : from <= to /\ to <= size =>
        \A i \in 1..(to - from) : S(from, to, i) = At(raw, from + i - 1)
  BY SliceHas, ZenonT(60)
<1> HIDE DEF L, S
<1>3. L(6, 12) = 6 /\ L(31, 81) = 50 /\ L(81, 86) = 5 /\ L(88, 104) = 16 /\ L(104, 117) = 13
  BY <1>1
<1>4. \A i \in 1..6 : S(6, 12, i) = At(raw, 5 + i)
  <2>1. \A i \in 1..(12 - 6) : S(6, 12, i) = At(raw, 6 + i - 1)
    BY <1>2, SMTT(30)
  <2>2. 12 - 6 = 6 /\ \A i \in 1..6 : 6 + i - 1 = 5 + i
    OBVIOUS
  <2> QED
    BY <2>1, <2>2
<1>5. \A j \in 0..49 : S(31, 81, j + 1) = At(raw, 31 + j)
  <2>1. \A i \in 1..(81 - 31) : S(31, 81, i) = At(raw, 31 + i - 1)
    BY <1>2
  <2>2. 81 - 31 = 50 /\ \A j \in 0..49 : j + 1 \in 1..50 /\ 31 + (j + 1) - 1 = 31 + j
    OBVIOUS
  <2> QED
    BY <2>1, <2>2
<1>6. \A i \in 1..5 : S(81, 86, i) = At(raw, 81 + (i - 1))
  <2>1. \A i \in 1..(86 - 81) : S(81, 86, i) = At(raw, 81 + i - 1)
    BY <1>2
  <2>2. 86 - 81 = 5 /\ \A i \in 1..5 : 81 + i - 1 = 81 + (i - 1)
    OBVIOUS
  <2> QED
    BY <2>1, <2>2
<1>7. \A i \in 1..13 : S(104, 117, i) = At(raw, 104 + (i - 1))
  <2>1. \A i \in 1..(117 - 104) : S(104, 117, i) = At(raw, 104 + i - 1)
    BY <1>2
  <2>2. 117 - 104 = 13 /\ \A i \in 1..13 : 104 + i - 1 = 104 + (i - 1)
    OBVIOUS
  <2> QED
    BY <2>1, <2>2
<1>8. Slice(raw, 4, 6) = <<At(raw, 4), At(raw, 5)>>
  <2> DEFINE F(from, to) == Slice(raw, from, to)
  <2>1. \A from, to \in Nat : from <= to /\ to <= size => IsFrame(F(from, to), to - from)
    BY SliceHas, Zenon
  <2>2. S(4, 6, 1) = At(raw, 4) /\ S(4, 6, 2) = At(raw, 5)
    BY <1>2
  <2> HIDE DEF F
  <2>3. IsFrame(F(4, 6), 2)
    BY <2>1
  <2>4. F(4, 6)[1] = At(raw, 4) /\ F(4, 6)[2] = At(raw, 5)
    BY <2>2 DEF F, S
  <2>5. F(4, 6) = <<At(raw, 4), At(raw, 5)>>
    BY <2>3, <2>4 DEF IsFrame
  <2> QED
    BY <2>5 DEF F
<1> QED
  BY <1>3, <1>4, <1>5, <1>6, <1>7, <1>8, Zenon DEF L, S

\* The outputs, eight in each of two bytes.
LEMMA PgmsAreRead ==
  ASSUME NEW s, s \subseteq 1..16
  PROVE  {n \in 1..16 : PgmBit(n, Bits(Octet(s, 0), Lsb), Bits(Octet(s, 1), Lsb))} = s
<1>1. \A k \in 1..8 : /\ Bit(Bits(Octet(s, 0), Lsb), Masks[k]) <=> 8 * 0 + k \in s
                      /\ Bit(Bits(Octet(s, 1), Lsb), Masks[k]) <=> 8 * 1 + k \in s
  BY OctetIsRead
<1>2. ASSUME NEW n \in 1..16
      PROVE  PgmBit(n, Bits(Octet(s, 0), Lsb), Bits(Octet(s, 1), Lsb)) <=> n \in s
  <2>1. CASE n <= 8
    <3>1. n \in 1..8 /\ 8 * 0 + n = n
      BY <2>1
    <3>2. Bit(Bits(Octet(s, 0), Lsb), Masks[n]) <=> n \in s
      BY <1>1, <3>1
    <3> QED
      BY <2>1, <3>2 DEF PgmBit
  <2>2. CASE ~(n <= 8)
    <3>1. n - 8 \in 1..8 /\ 8 * 1 + (n - 8) = n
      BY <2>2
    <3>2. Bit(Bits(Octet(s, 1), Lsb), Masks[n - 8]) <=> n \in s
      BY <1>1, <3>1
    <3> QED
      BY <2>2, <3>2 DEF PgmBit
  <2> QED
    BY <2>1, <2>2
<1> QED
  BY <1>2

\* What a partition permits.
LEMMA PermissionIsRead ==
  ASSUME NEW p \in Panels, NEW i
  PROVE  PartitionPermissions(PermissionByte(p, i)) = PermissionView(p, i)
<1> DEFINE b == PermissionByte(p, i)
           armed == i \in Partitions /\ p.part[i].mode # "disarmed"
<1>1. b = IF i \notin Partitions THEN 0 ELSE IF armed THEN 31 ELSE 11
  BY DEF PermissionByte
<1> HIDE DEF b
<1>2. /\ Bit(b, 1) = (i \in Partitions) /\ Bit(b, 2) = (i \in Partitions)
      /\ Bit(b, 8) = (i \in Partitions) /\ Bit(b, 4) = armed /\ Bit(b, 16) = armed
  BY <1>1 DEF Bit
<1>3. PartitionPermissions(b) = PermissionView(p, i)
  BY <1>2 DEF PartitionPermissions, PermissionView
<1> QED
  BY <1>3 DEF b

\* The nibbles of the zones; one that the panel has not is 0.
LEMMA NibblesOfZones ==
  ASSUME NEW p \in Panels, NEW v
  PROVE  /\ \A n : ZoneNibble(p, v, n) \in 0..8 /\ (ZoneNibble(p, v, n) # 0 <=> n \in ZonesAt(v))
         /\ \A n \in ZonesAt(v) : ZoneNibble(p, v, n)
                                    = IF n \in p.bypassed THEN ZoneStatus.BYPASSED ELSE ZoneStatus[p.zone[n]]
         /\ ZonesAt(v) \subseteq 1..100
<1>1. ZonesAt(v) \subseteq Zones /\ ZonesAt(v) \subseteq 1..100
  BY OperateAssumption DEF ZonesAt
<1>2. \A z \in ZoneStates : ZoneStatus[z] \in 1..8
  BY DEF ZoneStates, ZoneStatus
<1>3. ZoneStatus.BYPASSED = 1
  BY DEF ZoneStatus
<1>4. \A n \in Zones : p.zone[n] \in ZoneStates
  BY DEF Panels
<1> QED
  BY <1>1, <1>2, <1>3, <1>4 DEF ZoneNibble

\* The zones that exist come out with what they are, and no others do
\* (nibbles_to_zones).
LEMMA ZonesAreRead ==
  ASSUME NEW p \in Panels, NEW v, NEW data, Len(data) = 50,
         \A j \in 0..49 : data[j + 1] = ZoneNibble(p, v, 2 * j + 1) * 16 + ZoneNibble(p, v, 2 * j + 2)
  PROVE  NibblesToZones(data, 100, MayBypass) = ZoneView(p, v)
<1>1. PICK N \in [1..100 -> 0..15] : \A n \in 1..100 : N[n] = ZoneNibble(p, v, n) /\ N[n] \in 0..8
  <2> DEFINE M == [n \in 1..100 |-> ZoneNibble(p, v, n)]
  <2>1. \A n \in 1..100 : M[n] = ZoneNibble(p, v, n) /\ M[n] \in 0..8
    BY NibblesOfZones
  <2>2. M \in [1..100 -> 0..15]
    BY <2>1
  <2> QED
    BY <2>1, <2>2
<1>2. Nibbles(data, N)
  <2>1. \A j \in 0..49 : 2 * j + 1 \in 1..100 /\ 2 * j + 2 \in 1..100
    OBVIOUS
  <2> QED
    BY <1>1, <2>1 DEF Nibbles
<1>3. \A n \in 1..100 : Nibble(data, n) = N[n]
  BY <1>2, NibbleIsRead, ZenonT(60)
<1>4. ZoneStatus.CLOSED = 8 /\ ZoneStatus.DISABLED = 0
  BY DEF ZoneStatus
<1>5. Least(100, 2 * Len(data)) = 100
  BY DEF Least
<1>6. \A n \in 1..100 : StatusOfNibble(Nibble(data, n)) # ZoneStatus.DISABLED <=> n \in ZonesAt(v)
  <2> TAKE n \in 1..100
  <2>1. ZoneNibble(p, v, n) \in 0..8 /\ (ZoneNibble(p, v, n) # 0 <=> n \in ZonesAt(v))
    BY NibblesOfZones
  <2>2. Nibble(data, n) = ZoneNibble(p, v, n)
    BY <1>1, <1>3
  <2> QED
    BY <1>4, <2>1, <2>2 DEF StatusOfNibble
<1>7. {n \in 1..Least(100, 2 * Len(data)) : StatusOfNibble(Nibble(data, n)) # ZoneStatus.DISABLED} = ZonesAt(v)
  BY <1>5, <1>6, NibblesOfZones
<1>8. NibblesToZones(data, 100, MayBypass)
        = [n \in ZonesAt(v) |-> [status |-> Nibble(data, n), may_bypass |-> n \in MayBypass]]
  BY <1>7 DEF NibblesToZones
<1>9. \A n \in ZonesAt(v) : Nibble(data, n) = IF n \in p.bypassed THEN ZoneStatus.BYPASSED
                                               ELSE ZoneStatus[p.zone[n]]
  BY <1>1, <1>3, NibblesOfZones
<1> QED
  BY <1>8, <1>9 DEF ZoneView

\* What the client decodes from a status frame is what the panel was, field by
\* field, whatever it was and however long the frame is (decode_status).
THEOREM StatusIsRead ==
  ASSUME NEW p \in Panels, NEW v, NEW size \in Nat, size >= 123
  PROVE  DecodeStatus(StatusFrame(p, v, size)) = StatusView(p, v)
<1>1. PICK raw : raw = StatusFrame(p, v, size)
  OBVIOUS
<1>2. Len(raw) = size /\ IsFrame(raw, size) /\ StatusBytesOf(raw, p, v)
  BY <1>1, StatusBytes
<1>3. AtOrZero(raw, 117) = At(raw, 117) /\ AtOrZero(raw, 87) = At(raw, 87)
      /\ AtOrZero(raw, 118) = At(raw, 118) /\ AtOrZero(raw, 86) = At(raw, 86)
      /\ AtOrZero(raw, 120) = At(raw, 120) /\ AtOrZero(raw, 121) = At(raw, 121) /\ Len(raw) > 117
  BY <1>2 DEF AtOrZero
<1>4. DecodeClock(Slice(raw, 6, 12)) = p.clock
  <2>1. /\ Len(Slice(raw, 6, 12)) = 6
        /\ \A i \in 1..6 : Slice(raw, 6, 12)[i] = At(raw, 5 + i)
    BY <1>2, StatusSlices
  <2>2. \A i \in 1..6 : Slice(raw, 6, 12)[i] = ToBcd(p.clock[i])
    BY <1>2, <2>1 DEF StatusBytesOf
  <2>3. p.clock \in [1..6 -> 0..99]
    BY DEF Panels
  <2>4. \A i \in 1..6 : BcdToInt(Slice(raw, 6, 12)[i]) = p.clock[i]
    BY <2>2, <2>3, BcdIsRead
  <2>5. DecodeClock(Slice(raw, 6, 12)) = [i \in 1..6 |-> BcdToInt(Slice(raw, 6, 12)[i])]
    BY <2>1 DEF DecodeClock
  <2> QED
    BY <2>3, <2>4, <2>5
<1>5. Slice(raw, 4, 6) = <<0, v>> /\ At(raw, 12) = 180
  BY <1>2, StatusSlices DEF StatusBytesOf
<1>6. {n \in 1..16 : PgmBit(n, At(raw, 13), AtOrZero(raw, 117))} = p.pgms
  <2>1. At(raw, 13) = Bits(Octet(p.pgms, 0), Lsb) /\ At(raw, 117) = Bits(Octet(p.pgms, 1), Lsb)
    BY <1>2, Zenon DEF StatusBytesOf
  <2>2. p.pgms \subseteq 1..16
    BY DEF Panels
  <2>3. {n \in 1..16 : PgmBit(n, Bits(Octet(p.pgms, 0), Lsb), Bits(Octet(p.pgms, 1), Lsb))} = p.pgms
    BY <2>2, PgmsAreRead
  <2> QED
    BY <1>3, <2>1, <2>3
<1>7. {n \in 1..16 : PgmBit(n, AtOrZero(raw, 87), AtOrZero(raw, 118))} = MayPgm
  <2>1. At(raw, 87) = Bits(Octet(MayPgm, 0), Lsb) /\ At(raw, 118) = Bits(Octet(MayPgm, 1), Lsb)
    BY <1>2, Zenon DEF StatusBytesOf
  <2>2. {n \in 1..16 : PgmBit(n, Bits(Octet(MayPgm, 0), Lsb), Bits(Octet(MayPgm, 1), Lsb))} = MayPgm
    BY PgmsAreRead, OperateAssumption
  <2> QED
    BY <1>3, <2>1, <2>2
<1>8. [i \in 1..16 |-> PartitionState(At(raw, 13 + i))] = PartitionViews(p)
  <2>1. \A i \in 1..16 : PartitionState(At(raw, 13 + i))
                           = PartitionView(IF i \in Partitions THEN p.part[i] ELSE Partition("absent", FALSE))
    <3>1. \A i \in 1..16 : At(raw, 13 + i) = PartByte(p, i)
      BY <1>2, Zenon DEF StatusBytesOf
    <3> QED
      BY <3>1, PartitionIsRead, Zenon
  <2> QED
    BY <2>1 DEF PartitionViews
<1>9. [i \in 1..Len(Slice(raw, 88, 104)) |-> PartitionPermissions(At(raw, 87 + i))]
        = [i \in 1..16 |-> PermissionView(p, i)]
  <2>1. \A i \in 1..16 : PartitionPermissions(At(raw, 87 + i)) = PermissionView(p, i)
    <3>1. \A i \in 1..16 : At(raw, 87 + i) = PermissionByte(p, i)
      BY <1>2, Zenon DEF StatusBytesOf
    <3> QED
      BY <3>1, PermissionIsRead, Zenon
  <2>2. Len(Slice(raw, 88, 104)) = 16
    BY <1>2, StatusSlices
  <2> QED
    BY <2>1, <2>2
<1>10. FenceState(At(raw, 30)) = FenceView(p.fence)
  BY <1>2, FenceIsRead DEF StatusBytesOf
<1>11. FencePermissions(At(raw, 86))
         = [disarm |-> p.fence.mode # "disarmed", arm |-> p.fence.mode = "disarmed"]
  <2>1. At(raw, 86) = IF p.fence.mode = "disarmed" THEN 8 ELSE 1
    BY <1>2, Zenon DEF StatusBytesOf
  <2>2. Bit(At(raw, 86), 1) = (p.fence.mode # "disarmed") /\ Bit(At(raw, 86), 8) = (p.fence.mode = "disarmed")
    BY <2>1 DEF Bit
  <2> QED
    BY <2>2 DEF FencePermissions
<1>12. BitmapToFlags(Slice(raw, 104, 117), TRUE) = MayBypass
  <2>1. /\ Len(Slice(raw, 104, 117)) = 13
        /\ \A i \in 1..13 : Slice(raw, 104, 117)[i] = At(raw, 104 + (i - 1))
    BY <1>2, StatusSlices
  <2>2. \A i \in 1..13 : i - 1 \in 0..12
    OBVIOUS
  <2>3. \A i \in 1..13 : Slice(raw, 104, 117)[i] = Bits(Octet(MayBypass, i - 1), Lsb)
    <3>1. \A i \in 0..12 : At(raw, 104 + i) = Bits(Octet(MayBypass, i), Lsb)
      BY <1>2, Zenon DEF StatusBytesOf
    <3> QED
      BY <2>1, <2>2, <3>1
  <2>4. MayBypass \subseteq 1..(8 * 13)
    BY OperateAssumption
  <2>5. Octets(Slice(raw, 104, 117), MayBypass, 13)
    BY <2>1, <2>3 DEF Octets
  <2> QED
    BY <2>4, <2>5, FlagsAreRead
<1>13. NibblesToZones(Slice(raw, 31, 81), 100, MayBypass) = ZoneView(p, v)
  <2>1. /\ Len(Slice(raw, 31, 81)) = 50
        /\ \A j \in 0..49 : Slice(raw, 31, 81)[j + 1] = At(raw, 31 + j)
    BY <1>2, StatusSlices
  <2>2. \A j \in 0..49 : Slice(raw, 31, 81)[j + 1] = ZoneNibble(p, v, 2 * j + 1) * 16
                                                       + ZoneNibble(p, v, 2 * j + 2)
    <3>1. \A j \in 0..49 : At(raw, 31 + j) = ZoneNibble(p, v, 2 * j + 1) * 16 + ZoneNibble(p, v, 2 * j + 2)
      BY <1>2, Zenon DEF StatusBytesOf
    <3> QED
      BY <2>1, <3>1
  <2> QED
    BY <2>1, <2>2, ZonesAreRead
<1>14. Problems(Slice(raw, 81, 86)) = Troubles
  <2> DEFINE s == {t + 1 : t \in Troubles}
  <2>1. /\ Len(Slice(raw, 81, 86)) = 5
        /\ \A i \in 1..5 : Slice(raw, 81, 86)[i] = At(raw, 81 + (i - 1))
    BY <1>2, StatusSlices
  <2>2. \A i \in 1..5 : i - 1 \in 0..4
    OBVIOUS
  <2>3. \A i \in 1..5 : Slice(raw, 81, 86)[i] = Bits(Octet(s, i - 1), Lsb)
    <3>1. \A i \in 0..4 : At(raw, 81 + i) = Bits(Octet(s, i), Lsb)
      BY <1>2, Zenon DEF StatusBytesOf
    <3> HIDE DEF s
    <3> QED
      BY <2>1, <2>2, <3>1
  <2>4. Troubles \subseteq 0..31
    BY OperateAssumption DEF ProblemFlag
  <2>5. s \subseteq 1..(8 * 5)
    BY <2>4
  <2>6. {n - 1 : n \in s} \cap ProblemFlag = Troubles
    <3>1. \A t \in Troubles : t \in ProblemFlag /\ t + 1 \in s /\ (t + 1) - 1 = t
      BY <2>4 DEF ProblemFlag
    <3>2. \A n \in s : n - 1 \in Troubles
      BY <2>4
    <3> HIDE DEF s
    <3> QED
      BY <3>1, <3>2
  <2> HIDE DEF s
  <2>7. BitmapToFlags(Slice(raw, 81, 86), TRUE) = s
    <3>1. Octets(Slice(raw, 81, 86), s, 5)
      BY <2>1, <2>3 DEF Octets
    <3> QED
      BY <2>5, <3>1, FlagsAreRead
  <2> QED
    BY <2>6, <2>7 DEF Problems
<1>15. At(raw, 120) = (IF p.fence.alarm THEN 1 ELSE 0) /\ (At(raw, 121) # 0) = FALSE
  <2>1. At(raw, 120) = (IF p.fence.alarm THEN 1 ELSE 0) /\ At(raw, 121) = 0
    BY <1>2, Zenon DEF StatusBytesOf
  <2> QED
    BY <2>1
<1>16. DecodeStatus(raw) = StatusView(p, v)
  <2> DEFINE bypassable == IF Len(raw) > 117 THEN BitmapToFlags(Slice(raw, 104, 117), TRUE) ELSE {}
  <2>1. bypassable = MayBypass
    BY <1>3, <1>12
  <2>2. NibblesToZones(Slice(raw, 31, 81), 100, bypassable) = ZoneView(p, v)
    BY <1>13, <2>1
  <2> HIDE DEF bypassable
  <2>3. /\ FencePermissions(AtOrZero(raw, 86))
             = [disarm |-> p.fence.mode # "disarmed", arm |-> p.fence.mode = "disarmed"]
        /\ AtOrZero(raw, 120) = (IF p.fence.alarm THEN 1 ELSE 0) /\ (AtOrZero(raw, 121) # 0) = FALSE
    BY <1>3, <1>11, <1>15
  <2> QED
    BY <1>4, <1>5, <1>6, <1>7, <1>8, <1>9, <1>10, <1>14, <2>2, <2>3, Zenon
       DEF DecodeStatus, StatusView, bypassable
<1> QED
  BY <1>1, <1>16

\* The two frames that tell of the fence and the partitions alone: where their
\* bytes are.
StateBytesOf(p, raw, fence) ==
  /\ At(raw, fence) = StateByte(p.fence)
  /\ \A i \in 1..16 : At(raw, fence + i) = PartByte(p, i)

\* StateFrame, byte by byte.
LEMMA StateFrameBytes ==
  ASSUME NEW p, NEW size \in Nat, NEW fence \in Nat, NEW count \in Nat, NEW raw,
         raw = StateFrame(p, size, fence, count), fence + 16 < size, count < fence,
         size = 102 => 41 < fence
  PROVE  Len(raw) = size /\ StateBytesOf(p, raw, fence)
<1> DEFINE B(o) == StateFrameByte(p, size, fence, count, o)
<1>1. Len(raw) = size
  BY DEF StateFrame
<1>2. \A o \in 0..(size - 1) : At(raw, o) = B(o)
  <2> HIDE DEF B
  <2>1. raw = [i \in 1..size |-> B(i - 1)]
    BY DEF StateFrame, B
  <2>2. \A o \in 0..(size - 1) : o + 1 \in 1..size /\ (o + 1) - 1 = o
    OBVIOUS
  <2> QED
    BY <2>1, <2>2 DEF At
<1>3. B(fence) = StateByte(p.fence)
  <2>1. /\ fence \notin (fence + 1)..(fence + 16) /\ fence # count
        /\ ~(size = 102 /\ fence \in 4..13) /\ ~(size = 102 /\ fence = 41)
    OBVIOUS
  <2> QED
    BY <2>1, Zenon DEF StateFrameByte
<1>4. \A o \in (fence + 1)..(fence + 16) : B(o) = PartByte(p, o - fence)
  <2> SUFFICES ASSUME NEW o \in (fence + 1)..(fence + 16) PROVE B(o) = PartByte(p, o - fence)
    BY Zenon
  <2>1. /\ o # fence /\ o # count /\ ~(size = 102 /\ o \in 4..13) /\ ~(size = 102 /\ o = 41)
    OBVIOUS
  <2> QED
    BY <2>1, Zenon DEF StateFrameByte
<1> HIDE DEF B
<1>5. At(raw, fence) = StateByte(p.fence)
  <2>1. fence \in 0..(size - 1)
    OBVIOUS
  <2> QED
    BY <1>2, <1>3, <2>1, Zenon
<1>6. \A i \in 1..16 : At(raw, fence + i) = PartByte(p, i)
  <2>1. \A i \in 1..16 : /\ fence + i \in 0..(size - 1)
                         /\ fence + i \in (fence + 1)..(fence + 16) /\ (fence + i) - fence = i
    OBVIOUS
  <2> QED
    BY <1>2, <1>4, <2>1, Zenon
<1> QED
  BY <1>1, <1>5, <1>6, Zenon DEF StateBytesOf

\* Both tell what they should (decode_connection, decode_monitor_status).
LEMMA StateFramesAreRead ==
  ASSUME NEW p \in Panels
  PROVE  /\ DecodeMonitorStatus(MonitorFrame(p)).partitions = PartitionViews(p)
         /\ DecodeMonitorStatus(MonitorFrame(p)).fence = FenceView(p.fence)
         /\ DecodeConnection(ConnectionFrame(p)).partitions = PartitionViews(p)
         /\ DecodeConnection(ConnectionFrame(p)).fence = FenceView(p.fence)
<1>0. \A size, fence, count \in Nat :
        fence + 16 < size /\ count < fence /\ (size = 102 => 41 < fence)
          => \A raw : raw = StateFrame(p, size, fence, count)
                        => Len(raw) = size /\ StateBytesOf(p, raw, fence)
  BY StateFrameBytes, Zenon
<1>1. ASSUME NEW raw, NEW fence, StateBytesOf(p, raw, fence)
      PROVE  [i \in 1..16 |-> PartitionState(At(raw, fence + i))] = PartitionViews(p)
  <2>1. \A i \in 1..16 : PartitionState(PartByte(p, i))
                           = PartitionView(IF i \in Partitions THEN p.part[i] ELSE Partition("absent", FALSE))
    BY PartitionIsRead
  <2>2. \A i \in 1..16 : PartitionState(At(raw, fence + i))
                           = PartitionView(IF i \in Partitions THEN p.part[i] ELSE Partition("absent", FALSE))
    BY <1>1, <2>1, Zenon DEF StateBytesOf
  <2> QED
    BY <2>2, Zenon DEF PartitionViews
<1>2. PICK raw : raw = MonitorFrame(p)
  OBVIOUS
<1>3. Len(raw) = 57 /\ StateBytesOf(p, raw, 39)
  <2>1. PICK size \in Nat : size = 57
    OBVIOUS
  <2>2. PICK fence \in Nat : fence = 39
    OBVIOUS
  <2>3. PICK count \in Nat : count = 6
    OBVIOUS
  <2>4. raw = StateFrame(p, size, fence, count)
    BY <1>2, <2>1, <2>2, <2>3 DEF MonitorFrame
  <2>5. fence + 16 < size /\ count < fence /\ (size = 102 => 41 < fence)
    BY <2>1, <2>2, <2>3
  <2>6. Len(raw) = size /\ StateBytesOf(p, raw, fence)
    BY <1>0, <2>4, <2>5, Zenon
  <2> QED
    BY <2>1, <2>2, <2>6
<1>4. DecodeMonitorStatus(raw).fence = FenceView(p.fence)
  <2>1. AtOrZero(raw, 39) = StateByte(p.fence)
    BY <1>3 DEF AtOrZero, StateBytesOf
  <2>2. FenceState(StateByte(p.fence)) = FenceView(p.fence)
    BY FenceIsRead
  <2>3. DecodeMonitorStatus(raw).fence = FenceState(AtOrZero(raw, 39))
    BY DEF DecodeMonitorStatus
  <2> QED
    BY <2>1, <2>2, <2>3, Zenon
<1>5. DecodeMonitorStatus(raw).partitions = PartitionViews(p)
  <2>1. DecodeMonitorStatus(raw).partitions = [i \in 1..16 |-> PartitionState(At(raw, 39 + i))]
    BY <1>3 DEF DecodeMonitorStatus
  <2> QED
    BY <1>1, <1>3, <2>1
<1>6. PICK raw2 : raw2 = ConnectionFrame(p)
  OBVIOUS
<1>7. Len(raw2) = 102 /\ StateBytesOf(p, raw2, 84)
  <2>1. PICK size \in Nat : size = 102
    OBVIOUS
  <2>2. PICK fence \in Nat : fence = 84
    OBVIOUS
  <2>3. PICK count \in Nat : count = 51
    OBVIOUS
  <2>4. raw2 = StateFrame(p, size, fence, count)
    BY <1>6, <2>1, <2>2, <2>3 DEF ConnectionFrame
  <2>5. fence + 16 < size /\ count < fence /\ (size = 102 => 41 < fence)
    BY <2>1, <2>2, <2>3
  <2>6. Len(raw2) = size /\ StateBytesOf(p, raw2, fence)
    BY <1>0, <2>4, <2>5, Zenon
  <2> QED
    BY <2>1, <2>2, <2>6
<1>8. DecodeConnection(raw2).fence = FenceView(p.fence)
  <2>1. DecodeConnection(raw2).fence = FenceState(At(raw2, 84))
    BY <1>7 DEF DecodeConnection
  <2>2. FenceState(StateByte(p.fence)) = FenceView(p.fence)
    BY FenceIsRead
  <2>3. At(raw2, 84) = StateByte(p.fence)
    BY <1>7, Zenon DEF StateBytesOf
  <2> QED
    BY <2>1, <2>2, <2>3, Zenon
<1>9. DecodeConnection(raw2).partitions = PartitionViews(p)
  <2>1. DecodeConnection(raw2).partitions = [i \in 1..16 |-> PartitionState(At(raw2, 84 + i))]
    BY <1>7 DEF DecodeConnection
  <2> QED
    BY <1>1, <1>7, <2>1
<1> QED
  BY <1>2, <1>4, <1>5, <1>6, <1>8, <1>9

\* A login with the client's payload is accepted.
LEMMA LoginIsRead == DecodeLogin(LoginFrame(BuildLogin.payload)).accepted
<1>1. SubSeq(BuildLogin.payload, 1, 3) = <<255, 255, 255>>
  <2>1. PICK x \in Nat : x = 255
    OBVIOUS
  <2>2. PICK pad : pad = [i \in 1..34 |-> x]
    OBVIOUS
  <2>3. PICK head : head = <<x, x, x, 4>>
    OBVIOUS
  <2>4. head \in Seq(Nat) /\ Len(head) = 4 /\ \A i \in 1..3 : head[i] = x
    BY <2>3
  <2>5. pad \in Seq(Nat) /\ Len(pad) = 34
    BY <2>2
  <2>6. PICK all : all = head \o pad
    OBVIOUS
  <2>7. all \in Seq(Nat) /\ Len(all) = Len(head) + Len(pad)
        /\ \A i \in 1..(Len(head) + Len(pad)) : all[i] = IF i <= Len(head) THEN head[i] ELSE pad[i - Len(head)]
    BY <2>4, <2>5, <2>6, ConcatProperties, Zenon
  <2>8. Len(all) = 38 /\ \A i \in 1..3 : all[i] = x
    BY <2>4, <2>5, <2>7
  <2>9. SubSeq(all, 1, 3) = [i \in 1..3 |-> all[i]]
    BY <2>7, <2>8
  <2>10. SubSeq(all, 1, 3) = [i \in 1..3 |-> x]
    BY <2>8, <2>9, Zenon
  <2>11. [i \in 1..3 |-> x] = <<x, x, x>>
    OBVIOUS
  <2>12. BuildLogin.payload = all
    BY <2>1, <2>2, <2>3, <2>6 DEF BuildLogin, BuildFrame
  <2> QED
    BY <2>1, <2>10, <2>11, <2>12
<1>2. PICK raw : raw = LoginFrame(BuildLogin.payload)
  OBVIOUS
<1>3. Len(raw) = 53 /\ At(raw, 8) = 1
  <2>1. raw = [i \in 1..53 |-> IF i = 9 THEN 1 ELSE IF i \in 12..20 THEN 36 + i ELSE 255]
    BY <1>1, <1>2, Zenon DEF LoginFrame
  <2> QED
    BY <2>1 DEF At
<1>4. ~(Len(raw) < 50)
  BY <1>3
<1>5. DecodeLogin(raw).accepted
  BY <1>3, <1>4 DEF DecodeLogin
<1> QED
  BY <1>2, <1>5

-----------------------------------------------------------------------------
(* The inventory of wireless devices, a page of 16-byte records. *)

\* The bytes of a device's record.
DeviceBytesOf(d, s, r) ==
  /\ r = [i \in 1..16 |-> r[i]]
  /\ r[1] = s
  /\ \A i \in 1..4 : r[i + 1] = d.serial[i]
  /\ r[6] = d.zone /\ r[7] = d.firmware[1] * 16 + d.firmware[2]
  /\ r[8] = (IF d.open THEN 1 ELSE 0)
  /\ \A i \in 1..6 : r[i + 8] = ToBcd(d.last_seen[i])
  /\ r[15] = (IF d.low_battery THEN 1 ELSE 0)
  /\ r[16] = d.repeater * 16 + d.signal

\* The panel's record of a device has them.
LEMMA DeviceBytesAre ==
  ASSUME NEW s
  PROVE  DeviceBytesOf(Devices[s], s, DeviceBytes(s))
<1>1. PICK d : d = Devices[s]
  OBVIOUS
<1>2. PICK r : r = DeviceBytes(s)
  OBVIOUS
<1> DEFINE seen(i) == ToBcd(d.last_seen[i])
<1>3. PICK fw : fw = d.firmware[1] * 16 + d.firmware[2]
  OBVIOUS
<1>4. PICK sig : sig = d.repeater * 16 + d.signal
  OBVIOUS
<1>5. PICK op : op = IF d.open THEN 1 ELSE 0
  OBVIOUS
<1>6. PICK low : low = IF d.low_battery THEN 1 ELSE 0
  OBVIOUS
<1>7. r = <<s, d.serial[1], d.serial[2], d.serial[3], d.serial[4], d.zone, fw, op, seen(1), seen(2),
            seen(3), seen(4), seen(5), seen(6), low, sig>>
  BY <1>1, <1>2, <1>3, <1>4, <1>5, <1>6, Zenon DEF DeviceBytes
<1> HIDE DEF seen
<1>8. /\ r = [i \in 1..16 |-> r[i]]
      /\ r[1] = s /\ r[6] = d.zone /\ r[7] = fw /\ r[8] = op /\ r[15] = low /\ r[16] = sig
  BY <1>7
<1>9. \A i \in 1..4 : r[i + 1] = d.serial[i]
  BY <1>7
<1>10. \A i \in 1..6 : r[i + 8] = seen(i)
  BY <1>7
<1> QED
  BY <1>1, <1>2, <1>3, <1>4, <1>5, <1>6, <1>8, <1>9, <1>10, Zenon DEF DeviceBytesOf, seen

\* What the client makes of a record is the device the panel put there
\* (WirelessDevice): digits, halves of a byte and flags.
LEMMA DeviceIsRead ==
  ASSUME NEW s \in DOMAIN Devices
  PROVE  WirelessDevice(DeviceBytes(s)) = DeviceView(Devices[s])
<1>1. PICK d : d = Devices[s]
  OBVIOUS
<1>2. /\ d.serial \in [1..4 -> Byte] /\ d.firmware \in [1..2 -> 0..15]
      /\ d.open \in BOOLEAN /\ d.last_seen \in [1..6 -> 0..99] /\ d.low_battery \in BOOLEAN
      /\ d.repeater \in 0..15 /\ d.signal \in SignalQuality
  BY <1>1, DevicesAssumption
<1>3. PICK r : r = DeviceBytes(s)
  OBVIOUS
<1>4. DeviceBytesOf(d, s, r)
  BY <1>1, <1>3, DeviceBytesAre, Zenon
<1>5. r = [i \in 1..16 |-> r[i]]
  BY <1>4, Zenon DEF DeviceBytesOf
<1>6. r \in Seq({r[i] : i \in 1..16}) /\ Len(r) = 16
  BY <1>5
<1>7. SubSeq(r, 2, 5) = d.serial
  <2>1. SubSeq(r, 2, 5) = [i \in 1..4 |-> r[i + 1]]
    BY <1>6
  <2>2. \A i \in 1..4 : r[i + 1] = d.serial[i]
    BY <1>4, Zenon DEF DeviceBytesOf
  <2>3. d.serial = [i \in 1..4 |-> d.serial[i]]
    BY <1>2
  <2> QED
    BY <2>1, <2>2, <2>3, Zenon
<1>8. DecodeWirelessClock(SubSeq(r, 9, 14)) = d.last_seen
  <2>1. SubSeq(r, 9, 14) = [i \in 1..6 |-> r[i + 8]]
    BY <1>6
  <2>2. PICK q : q = SubSeq(r, 9, 14)
    OBVIOUS
  <2>3. Len(q) = 6
    BY <2>1, <2>2
  <2>4. \A i \in 1..6 : r[i + 8] = ToBcd(d.last_seen[i])
    BY <1>4, Zenon DEF DeviceBytesOf
  <2>5. \A i \in 1..6 : q[i] = ToBcd(d.last_seen[i])
    BY <2>1, <2>2, <2>4
  <2>6. \A n \in 0..99 : IsBcd(ToBcd(n)) /\ BcdToInt(ToBcd(n)) = n
    BY BcdIsRead DEF IsBcd, ToBcd
  <2>7. \A i \in 1..6 : d.last_seen[i] \in 0..99
    BY <1>2
  <2>8. \A i \in 1..6 : IsBcd(q[i]) /\ BcdToInt(q[i]) = d.last_seen[i]
    BY <2>5, <2>6, <2>7, Zenon
  <2>9. ~(Len(q) < 6)
    BY <2>3
  <2>10. DecodeWirelessClock(q) = [i \in 1..6 |-> BcdToInt(q[i])]
    BY <2>8, <2>9, Zenon DEF DecodeWirelessClock
  <2>11. d.last_seen = [i \in 1..6 |-> d.last_seen[i]]
    BY <1>2
  <2> QED
    BY <2>2, <2>8, <2>10, <2>11, Zenon
<1>9. (r[8] = 1) = d.open
  <2>1. r[8] = (IF d.open THEN 1 ELSE 0) /\ d.open \in BOOLEAN
    BY <1>2, <1>4, Zenon DEF DeviceBytesOf
  <2>2. PICK b : b = d.open
    OBVIOUS
  <2>3. CASE d.open
    <3>1. r[8] = 1
      BY <2>1, <2>3, Zenon
    <3> QED
      BY <2>1, <2>3, <3>1, Zenon
  <2>4. CASE ~d.open
    <3>1. r[8] = 0
      BY <2>1, <2>4, Zenon
    <3>2. r[8] # 1
      BY <3>1
    <3> QED
      BY <2>1, <2>4, <3>2, Zenon
  <2> QED
    BY <2>3, <2>4, Zenon
<1>10. (r[15] # 0) = d.low_battery
  <2>1. r[15] = (IF d.low_battery THEN 1 ELSE 0) /\ d.low_battery \in BOOLEAN
    BY <1>2, <1>4, Zenon DEF DeviceBytesOf
  <2>2. CASE d.low_battery
    <3>1. r[15] = 1
      BY <2>1, <2>2, Zenon
    <3>2. r[15] # 0
      BY <3>1
    <3> QED
      BY <2>1, <2>2, <3>2, Zenon
  <2>3. CASE ~d.low_battery
    <3>1. r[15] = 0
      BY <2>1, <2>3, Zenon
    <3> QED
      BY <2>1, <2>3, <3>1, Zenon
  <2> QED
    BY <2>2, <2>3, Zenon
<1>11. r[16] \div 16 = d.repeater /\ r[16] % 16 = d.signal /\ r[16] % 16 \in SignalQuality
  <2>1. r[16] = d.repeater * 16 + d.signal
    BY <1>4, Zenon DEF DeviceBytesOf
  <2>2. PICK a \in 0..15 : a = d.repeater
    BY <1>2
  <2>3. PICK b \in 0..15 : b = d.signal
    BY <1>2 DEF SignalQuality
  <2>4. r[16] \div 16 = a /\ r[16] % 16 = b
    BY <2>1, <2>2, <2>3, HalvesOfAByte, Zenon
  <2> QED
    BY <1>2, <2>2, <2>3, <2>4, Zenon
<1>12. <<r[7] \div 16, r[7] % 16>> = d.firmware
  <2>1. r[7] = d.firmware[1] * 16 + d.firmware[2]
    BY <1>4, Zenon DEF DeviceBytesOf
  <2>2. PICK a \in 0..15 : a = d.firmware[1]
    BY <1>2
  <2>3. PICK b \in 0..15 : b = d.firmware[2]
    BY <1>2
  <2>4. r[7] \div 16 = a /\ r[7] % 16 = b
    BY <2>1, <2>2, <2>3, HalvesOfAByte, Zenon
  <2>5. d.firmware = <<a, b>>
    BY <1>2, <2>2, <2>3
  <2> QED
    BY <2>4, <2>5, Zenon
<1>13. r[6] = d.zone
  BY <1>4, Zenon DEF DeviceBytesOf
<1>14. WirelessDevice(r) = DeviceView(d)
  BY <1>7, <1>8, <1>9, <1>10, <1>11, <1>12, <1>13, Zenon DEF WirelessDevice, DeviceView
<1> QED
  BY <1>1, <1>3, <1>14

\* No two devices have the same place in the inventory.
LEMMA RanksDiffer ==
  ASSUME NEW s \in DOMAIN Devices, NEW t \in DOMAIN Devices
  PROVE  Rank(s) \in Nat /\ (Rank(s) = Rank(t) => s = t)
<1>1. PICK slots : slots = DOMAIN Devices
  OBVIOUS
<1>2. slots \subseteq 1..254
  BY <1>1, DevicesAssumption
<1> DEFINE below(u) == {x \in slots : x < u}
<1>3. \A u : IsFiniteSet(below(u))
  <2>1. 1 \in Int /\ 254 \in Int
    OBVIOUS
  <2>2. IsFiniteSet(1..254)
    BY <2>1, FS_Interval
  <2>3. \A u : below(u) \in SUBSET (1..254)
    BY <1>2
  <2> HIDE DEF below
  <2> QED
    BY <2>2, <2>3, FS_Subset
<1>4. \A u : Rank(u) = Cardinality(below(u))
  BY <1>1, Zenon DEF Rank
<1>5. Rank(s) \in Nat
  <2> HIDE DEF below
  <2> QED
    BY <1>3, <1>4, FS_CardinalityType
<1>6. ASSUME NEW u \in slots, NEW w \in slots, u < w
      PROVE  Rank(u) # Rank(w)
  <2>1. below(u) \in SUBSET below(w) /\ u \in below(w) /\ u \notin below(u)
    <3>1. \A a, b, c \in 1..254 : (a < b /\ b < c => a < c) /\ ~(a < a)
      OBVIOUS
    <3> QED
      BY <1>2, <1>6, <3>1, Zenon
  <2> HIDE DEF below
  <2>2. Cardinality(below(w)) = Cardinality(below(u)) => below(w) = below(u)
    BY <1>3, <2>1, FS_Subset
  <2> QED
    BY <1>4, <2>1, <2>2, Zenon
<1>7. s < t \/ t < s \/ s = t
  <2>1. \A a, b \in 1..254 : a < b \/ b < a \/ a = b
    OBVIOUS
  <2> QED
    BY <1>1, <1>2, <2>1, Zenon
<1> QED
  BY <1>1, <1>5, <1>6, <1>7, Zenon

\* A place of the inventory: the device that is there, or padding.
LEMMA RecordIs ==
  ASSUME NEW rank \in Nat
  PROVE  \/ /\ \A s \in DOMAIN Devices : Rank(s) # rank
            /\ DeviceRecord(rank) = [k \in 1..16 |-> 255]
         \/ \E s \in DOMAIN Devices : Rank(s) = rank /\ DeviceRecord(rank) = DeviceBytes(s)
<1> DEFINE here == {s \in DOMAIN Devices : Rank(s) = rank}
<1>1. CASE here = {}
  BY <1>1, Zenon DEF DeviceRecord
<1>2. CASE here # {}
  <2> DEFINE s == CHOOSE s \in here : TRUE
  <2>1. s \in here
    BY <1>2
  <2>2. DeviceRecord(rank) = DeviceBytes(s)
    BY <1>2, Zenon DEF DeviceRecord
  <2> HIDE DEF s
  <2> QED
    BY <2>1, <2>2
<1> QED
  BY <1>1, <1>2

\* The client cuts a page where the panel put it together (PageRecords).
LEMMA PageIsCut ==
  ASSUME NEW page \in Nat
  PROVE  LET records == PageRecords(InventoryFrame(page), 16)
         IN /\ DOMAIN records = 1..8
            /\ \A i \in 1..8 : records[i] = [k \in 1..16 |-> DeviceRecord(8 * page + (i - 1))[k]]
<1> DEFINE B(i) == IF i <= 5 THEN <<123, 134, 1, Cmd.READ_WIRELESS, 8>>[i]
                   ELSE IF i = 134 THEN 85
                   ELSE DeviceRecord(8 * page + (i - 6) \div 16)[((i - 6) % 16) + 1]
<1>1. PICK raw : raw = InventoryFrame(page)
  OBVIOUS
<1>2. Len(raw) = 134 /\ (\A i \in 1..134 : raw[i] = B(i)) /\ raw \in Seq({B(i) : i \in 1..134})
  <2> HIDE DEF B
  <2>1. raw = [i \in 1..134 |-> B(i)]
    BY <1>1 DEF InventoryFrame, B
  <2> QED
    BY <2>1
<1>3. ASSUME NEW i \in 1..8, NEW k \in 1..16
      PROVE  B(5 + (16 * (i - 1) + k)) = DeviceRecord(8 * page + (i - 1))[k]
  <2> DEFINE n == 5 + (16 * (i - 1) + k)
  <2>1. ~(n <= 5) /\ n # 134 /\ (n - 6) \div 16 = i - 1 /\ (n - 6) % 16 = k - 1 /\ (k - 1) + 1 = k
    OBVIOUS
  <2> QED
    BY <2>1
<1> HIDE DEF B
<1>4. (Len(raw) - 6) \div 16 = 8
  BY <1>2
<1>5. PageRecords(raw, 16) = [i \in 1..8 |-> SubSeq(raw, 6 + (i - 1) * 16, 5 + i * 16)]
  BY <1>4, Zenon DEF PageRecords
<1>6. ASSUME NEW i \in 1..8
      PROVE  SubSeq(raw, 6 + (i - 1) * 16, 5 + i * 16)
               = [k \in 1..16 |-> DeviceRecord(8 * page + (i - 1))[k]]
  <2> DEFINE a == 6 + (i - 1) * 16
             b == 5 + i * 16
  <2>1. a \in 1..134 /\ b \in 1..134 /\ (b - a) + 1 = 16
        /\ \A k \in 1..16 : a + k - 1 = 5 + (16 * (i - 1) + k) /\ a + k - 1 \in 1..134
    OBVIOUS
  <2> HIDE DEF a, b
  <2>2. SubSeq(raw, a, b) = [k \in 1..((b - a) + 1) |-> raw[a + k - 1]]
    BY <1>2, <2>1
  <2>3. \A k \in 1..16 : raw[a + k - 1] = DeviceRecord(8 * page + (i - 1))[k]
    <3> SUFFICES ASSUME NEW k \in 1..16
                 PROVE  raw[a + k - 1] = DeviceRecord(8 * page + (i - 1))[k]
      BY Zenon
    <3>1. raw[a + k - 1] = B(a + k - 1)
      BY <1>2, <2>1, Zenon
    <3>2. B(a + k - 1) = B(5 + (16 * (i - 1) + k))
      BY <2>1, Zenon
    <3> QED
      BY <1>3, <3>1, <3>2, Zenon
  <2>4. SubSeq(raw, a, b) = [k \in 1..16 |-> DeviceRecord(8 * page + (i - 1))[k]]
    BY <2>1, <2>2, <2>3, Zenon
  <2> QED
    BY <2>4, Zenon DEF a, b
<1> QED
  BY <1>1, <1>5, <1>6, Zenon

\* A page tells of the devices whose places are on it, of each in its slot, and
\* of no others (decode_wireless).
LEMMA InventoryIsRead ==
  ASSUME NEW page \in Nat
  PROVE  DecodeWireless(InventoryFrame(page)) = InventoryView(page)
<1> DEFINE Told(s) == [slot |-> s, device |-> DeviceView(Devices[s])]
<1>1. PICK records : records = PageRecords(InventoryFrame(page), 16)
  OBVIOUS
<1>2. /\ DOMAIN records = 1..8
      /\ \A i \in 1..8 : records[i] = [k \in 1..16 |-> DeviceRecord(8 * page + (i - 1))[k]]
  BY <1>1, PageIsCut, Zenon
<1>3. ASSUME NEW i \in 1..8
      PROVE  \/ /\ \A s \in DOMAIN Devices : Rank(s) # 8 * page + (i - 1)
                /\ records[i][1] = 255
             \/ \E s \in DOMAIN Devices : /\ Rank(s) = 8 * page + (i - 1)
                                          /\ records[i] = DeviceBytes(s)
  <2> DEFINE rank == 8 * page + (i - 1)
  <2>1. rank \in Nat
    OBVIOUS
  <2>2. records[i] = [k \in 1..16 |-> DeviceRecord(rank)[k]]
    BY <1>2
  <2> HIDE DEF rank
  <2>3. CASE (\A s \in DOMAIN Devices : Rank(s) # rank) /\ DeviceRecord(rank) = [k \in 1..16 |-> 255]
    <3>1. records[i][1] = 255
      BY <2>2, <2>3
    <3> QED
      BY <2>3, <3>1, Zenon DEF rank
  <2>4. CASE \E s \in DOMAIN Devices : Rank(s) = rank /\ DeviceRecord(rank) = DeviceBytes(s)
    <3>1. PICK s \in DOMAIN Devices : Rank(s) = rank /\ DeviceRecord(rank) = DeviceBytes(s)
      BY <2>4
    <3>2. DeviceBytes(s) = [k \in 1..16 |-> DeviceBytes(s)[k]]
      BY DeviceBytesAre, Zenon DEF DeviceBytesOf
    <3>3. records[i] = DeviceBytes(s)
      BY <2>2, <3>1, <3>2, Zenon
    <3> QED
      BY <3>1, <3>3, Zenon DEF rank
  <2> QED
    BY <2>1, <2>3, <2>4, RecordIs, Zenon
<1>4. \A s \in DOMAIN Devices : DeviceBytes(s)[1] = s /\ s \notin {0, 255}
  <2> SUFFICES ASSUME NEW s \in DOMAIN Devices
               PROVE  DeviceBytes(s)[1] = s /\ s \notin {0, 255}
    BY Zenon
  <2>1. DOMAIN Devices \subseteq 1..254
    BY DevicesAssumption
  <2>2. s \in 1..254
    BY <2>1
  <2>3. DeviceBytes(s)[1] = s
    BY DeviceBytesAre, Zenon DEF DeviceBytesOf
  <2> QED
    BY <2>2, <2>3
<1>5. \A s \in DOMAIN Devices : Rank(s) \in Nat
  BY RanksDiffer
<1> DEFINE present == {i \in 1..8 : records[i][1] \notin {0, 255}}
           Record(i) == [slot |-> records[i][1], device |-> WirelessDevice(records[i])]
<1>6. DecodeWireless(InventoryFrame(page)) = {Record(i) : i \in present}
  BY <1>1, <1>2, Zenon DEF DecodeWireless
<1>7. InventoryView(page) = {Told(s) : s \in {s \in DOMAIN Devices : Rank(s) \div 8 = page}}
  BY Zenon DEF InventoryView
<1>8. ASSUME NEW i \in present
      PROVE  \E s \in DOMAIN Devices : Rank(s) \div 8 = page /\ Record(i) = Told(s)
  <2>1. PICK s \in DOMAIN Devices : Rank(s) = 8 * page + (i - 1) /\ records[i] = DeviceBytes(s)
    BY <1>3
  <2>2. Rank(s) \div 8 = page
    BY <2>1
  <2>3. Record(i) = Told(s)
    BY <1>4, <2>1, DeviceIsRead, Zenon
  <2> QED
    BY <2>2, <2>3, Zenon
<1>9. ASSUME NEW s \in DOMAIN Devices, Rank(s) \div 8 = page
      PROVE  \E i \in present : Record(i) = Told(s)
  <2>1. PICK i : i = (Rank(s) % 8) + 1
    OBVIOUS
  <2>2. i \in 1..8 /\ Rank(s) = 8 * page + (i - 1)
    BY <1>5, <1>9, <2>1
  <2>3. PICK t \in DOMAIN Devices : Rank(t) = 8 * page + (i - 1) /\ records[i] = DeviceBytes(t)
    BY <1>3, <2>2, Zenon
  <2>4. s = t
    BY <2>2, <2>3, RanksDiffer, Zenon
  <2>5. records[i] = DeviceBytes(s) /\ records[i][1] = s /\ s \notin {0, 255}
    BY <1>4, <2>3, <2>4, Zenon
  <2>6. i \in present
    BY <2>2, <2>5, Zenon
  <2>7. Record(i) = Told(s)
    BY <2>5, DeviceIsRead, Zenon
  <2> QED
    BY <2>6, <2>7, Zenon
<1> HIDE DEF Told, Record, present
<1> QED
  BY <1>6, <1>7, <1>8, <1>9

-----------------------------------------------------------------------------
(* The reading. *)

\* A client that also operates the panel reads as one that only reads: every
\* step is a step of ReadSpec or leaves the reading alone.
THEOREM ReadsLikeAReader == Spec => ReadSpec
<1>1. Init => ReadInit
  BY DEF Init
<1>2. [Next]_vars => [ReadNext]_readVars
  <2> SUFFICES ASSUME [Next]_vars PROVE [ReadNext]_readVars
    OBVIOUS
  <2>1. CASE Reading
    BY <2>1 DEF Reading, ReadNext
  <2>2. CASE ReadingDone
    BY <2>2 DEF ReadingDone, ReadNext
  <2>3. CASE Operating
    BY <2>3 DEF Operating
  <2>4. CASE Installer
    BY <2>4 DEF Installer, ReadNext
  <2>5. CASE UNCHANGED vars
    BY <2>5 DEF vars
  <2> QED
    BY <2>1, <2>2, <2>3, <2>4, <2>5 DEF Next
<1> QED
  BY <1>1, <1>2, PTL DEF Spec, ReadSpec

\* So the client's regions are whole, too.
THEOREM ClientReadsWholeRegions == Spec => []RegionIsContiguous
BY ReadsLikeAReader, ReadingIsContiguous, PTL

\* And its blocks hold the panel's bytes, unless a reply lacks exactly one.
THEOREM ClientReadsMemory == 1 \notin Cuts => (Spec => []BlocksAreMemory)
<1> SUFFICES ASSUME 1 \notin Cuts PROVE Spec => []BlocksAreMemory
  OBVIOUS
<1>1. ReadSpec => []BlocksAreMemory
  BY NewestIsMemory
<1> QED
  BY <1>1, ReadsLikeAReader, PTL

-----------------------------------------------------------------------------
(* The lockout.  After the first refusal either the refusal is on its way to *)
(* the client, which sends nothing meanwhile, or the client knows of it.     *)

RefusalIsSeen ==
  /\ "wrong" \in DOMAIN panel /\ panel.wrong \in {0, 1}
  /\ panel.wrong = 1 =>
       refused \/ (answer # <<>> /\ answer[1].cmd = Cmd.AUTH
                     /\ answer[1].raw = AckFrame(CommandAck.WRONG_PASSWORD))
  /\ ask # None /\ answer = <<>> /\ ask.frame.cmd = Cmd.AUTH => ~refused

\* No operation that the panel carries out touches its count of refusals.
LEMMA MeantKeepsCount ==
  ASSUME NEW p, NEW op, "wrong" \in DOMAIN p
  PROVE  Meant(p, op).wrong = p.wrong /\ "wrong" \in DOMAIN Meant(p, op)
<1>1. ASSUME NEW target, NEW mode
      PROVE  LET q == SetMode(p, target, mode) IN q.wrong = p.wrong /\ "wrong" \in DOMAIN q
  BY DEF SetMode
<1>2. CASE op.kind \in {"arm", "away"}
  BY <1>1, <1>2 DEF Meant
<1>3. CASE op.kind = "stay"
  BY <1>1, <1>3 DEF Meant
<1>4. CASE op.kind = "disarm"
  BY <1>1, <1>4 DEF Meant
<1>5. CASE op.kind \in {"pgm_on", "pgm_off", "clock", "bypass"}
  BY <1>5 DEF Meant
<1>6. CASE op.kind \notin {"arm", "away", "stay", "disarm", "pgm_on", "pgm_off", "clock", "bypass"}
  BY <1>6 DEF Meant
<1> QED
  BY <1>2, <1>3, <1>4, <1>5, <1>6

\* A refusal, as it is decoded, is one that stops the client.
LEMMA RefusalDecoded ==
  LET packet == Decode(Cmd.AUTH, AckFrame(CommandAck.WRONG_PASSWORD))
  IN packet # None /\ LocksPanelOut(packet)
<1> DEFINE raw == AckFrame(CommandAck.WRONG_PASSWORD)
<1>1. Decode(Cmd.AUTH, raw) = DecodeCommandResponse(raw)
  BY CommandBytes DEF Decode, StatusCommands
<1>2. CommandAck.WRONG_PASSWORD = 161 /\ "WRONG_PASSWORD" \in DOMAIN CommandAck
  BY DEF CommandAck
<1>3. Len(raw) = 8 /\ At(raw, 6) = 161
  BY <1>2 DEF AckFrame, At
<1> HIDE DEF raw
<1>4. DecodeCommandResponse(raw) = 161
  <2>1. CommandAck["WRONG_PASSWORD"] = At(raw, 6) /\ ~(Len(raw) < 8)
    BY <1>2, <1>3
  <2> QED
    BY <1>2, <1>3, <2>1 DEF DecodeCommandResponse
<1>5. 161 # None
  BY NoneAssumption DEF Byte
<1> QED
  BY <1>1, <1>2, <1>4, <1>5 DEF LocksPanelOut, raw

\* A command that is sent leaves the panel alone.
LEMMA SendKeeps ==
  ASSUME NEW frame, NEW op, Send(frame, op), RefusalIsSeen, frame.cmd = Cmd.AUTH => ~refused
  PROVE  RefusalIsSeen'
BY DEF Send, RefusalIsSeen

\* No step of the exchange loses sight of a refusal.
LEMMA OperateKeeps ==
  ASSUME NEW v, NEW c, RefusalIsSeen, OperateNext(v, c)
  PROVE  RefusalIsSeen'
<1>1. ASSUME NEW i \in Partitions, SendArm(i) PROVE RefusalIsSeen'
  BY <1>1, SendKeeps, CommandBytes
     DEF SendArm, BuildArm, BuildDisarm, BuildArmStay, BuildArmAway, BuildFrame
<1>2. CASE SendFence
  BY <1>2, SendKeeps, CommandBytes DEF SendFence, BuildFenceArm, BuildFenceDisarm, BuildArm, BuildDisarm, BuildFrame
<1>3. CASE SendRequest
  <2>1. PICK f \in {BuildStatusRequest, BuildMonitorStatusRequest, BuildLogin}
                     \cup {BuildWirelessRead(page) : page \in 0..1} : Send(f, Op("none", 0))
    BY <1>3 DEF SendRequest
  <2>2. f.cmd # Cmd.AUTH
    <3>1. \A page : BuildWirelessRead(page).cmd = Cmd.READ_WIRELESS
      BY DEF BuildWirelessRead, BuildFrame
    <3>2. /\ BuildStatusRequest.cmd = Cmd.STATUS /\ BuildMonitorStatusRequest.cmd = Cmd.MONITOR_STATUS
          /\ BuildLogin.cmd = Cmd.LOGIN
      BY DEF BuildStatusRequest, BuildMonitorStatusRequest, BuildLogin, BuildFrame
    <3> QED
      BY <2>1, <3>1, <3>2, CommandBytes
  <2> QED
    BY <2>1, <2>2, SendKeeps
<1>4. ASSUME NEW n \in Pgms, SendPgm(c, n) PROVE RefusalIsSeen'
  BY <1>4, SendKeeps, CommandBytes DEF SendPgm, BuildPgmOn, BuildPgmOff, BuildFrame
<1>5. ASSUME NEW n \in Zones, SendBypass(n) PROVE RefusalIsSeen'
  BY <1>5, SendKeeps, CommandBytes DEF SendBypass, BuildBypassBitmap, BuildFrame
<1>6. ASSUME NEW t \in Dates, SendDate(t) PROVE RefusalIsSeen'
  BY <1>6, SendKeeps, CommandBytes DEF SendDate, BuildSetDatetime, BuildFrame
<1>7. ASSUME NEW digits \in Codes, SendAuth(digits) PROVE RefusalIsSeen'
  BY <1>7, SendKeeps DEF SendAuth
<1>8. CASE PanelExecutes(v)
  <2> DEFINE f == ask.frame
             after == Executed(panel, f)
             raw == AnswerFrame(f, panel, after, v)
  <2>1. /\ ask # None /\ answer = <<>> /\ UNCHANGED <<ask, refused>>
        /\ panel' = after
        /\ answer' = <<[cmd |-> f.cmd, raw |-> raw, panel |-> after, version |-> v]>>
    BY <1>8 DEF PanelExecutes
  <2>2. f.cmd = Cmd.AUTH => raw = AckFrame(AckTo(f, panel))
    BY CommandBytes DEF AnswerFrame
  <2> HIDE DEF raw
  <2>3. "wrong" \in DOMAIN panel /\ panel.wrong \in {0, 1}
        /\ (f.cmd = Cmd.AUTH => ~refused /\ panel.wrong = 0)
        /\ (panel.wrong = 1 => refused)
    BY <2>1 DEF RefusalIsSeen
  <2>4. CASE f.cmd = Cmd.AUTH => RightPassword(panel, f)
    <3>1. after.wrong = panel.wrong /\ "wrong" \in DOMAIN after
      BY <2>4, MeantKeepsCount, <2>3 DEF Executed
    <3> HIDE DEF after
    <3> QED
      BY <2>1, <2>3, <3>1 DEF RefusalIsSeen
  <2>5. CASE f.cmd = Cmd.AUTH /\ ~RightPassword(panel, f)
    <3>1. AckTo(f, panel) = CommandAck.WRONG_PASSWORD
      BY <2>3, <2>5 DEF AckTo
    <3>2. after.wrong = 1 /\ "wrong" \in DOMAIN after
      BY <2>3, <2>5 DEF Executed, Least
    <3> HIDE DEF after
    <3>3. answer'[1].raw = AckFrame(CommandAck.WRONG_PASSWORD) /\ answer'[1].cmd = Cmd.AUTH
      BY <2>1, <2>2, <2>5, <3>1
    <3> QED
      BY <2>1, <2>3, <3>2, <3>3 DEF RefusalIsSeen
  <2> QED
    BY <2>4, <2>5
<1>9. CASE TakeAnswer
  <2>1. /\ answer # <<>> /\ ask' = None /\ answer' = <<>> /\ panel' = panel
        /\ refused' = (refused \/ (answer[1].cmd = Cmd.AUTH /\ Decode(answer[1].cmd, answer[1].raw) # None
                                     /\ LocksPanelOut(Decode(answer[1].cmd, answer[1].raw))))
    BY <1>9 DEF TakeAnswer
  <2>2. panel.wrong = 1 => refused'
    BY <2>1, RefusalDecoded DEF RefusalIsSeen
  <2> QED
    BY <2>1, <2>2 DEF RefusalIsSeen
<1>10. CASE PanelConnects(v)
  BY <1>10, CommandBytes DEF PanelConnects, RefusalIsSeen
<1>11. CASE PanelMoves
  BY <1>11 DEF PanelMoves, RefusalIsSeen
<1> QED
  BY <1>1, <1>2, <1>3, <1>4, <1>5, <1>6, <1>7, <1>8, <1>9, <1>10, <1>11 DEF OperateNext

\* The client stops after its first refusal, so the panel never counts the
\* second, let alone the five after which nobody can operate it remotely.
THEOREM ClientIsNotLockedOut == Spec => []OneWrongPassword
<1>1. Init => RefusalIsSeen
  BY DEF Init, OperateInit, RefusalIsSeen
<1>2. RefusalIsSeen /\ [Next]_vars => RefusalIsSeen'
  <2> SUFFICES ASSUME RefusalIsSeen, [Next]_vars PROVE RefusalIsSeen'
    OBVIOUS
  <2>1. CASE Operating
    BY <2>1, OperateKeeps DEF Operating
  <2>2. CASE UNCHANGED operateVars
    BY <2>2 DEF operateVars, RefusalIsSeen
  <2> QED
    BY <2>1, <2>2 DEF Next, Reading, ReadingDone, Installer, vars
<1>3. RefusalIsSeen => OneWrongPassword
  BY DEF RefusalIsSeen, OneWrongPassword
<1> QED
  BY <1>1, <1>2, <1>3, PTL DEF Spec

-----------------------------------------------------------------------------
(* What can be on its way to a panel and back. *)

\* What a client may mean: a fence has no stay mode.
Sensible(op) ==
  \/ op.kind \in {"arm", "away", "stay", "disarm"} /\ op.target \in Partitions
  \/ op.kind \in {"arm", "disarm"} /\ op.target = FENCE_PARTITION
  \/ op.kind \in {"pgm_on", "pgm_off"} /\ op.target \in Pgms
  \/ op.kind = "clock" /\ op.target \in [1..6 -> 0..99]
  \/ op.kind = "bypass" /\ op.target \in SUBSET (1..100)
  \/ op.kind = "bypass_one" /\ op.target \in Zones
  \/ op.kind = "none"

\* The command that is out is one of the client's, and is read as it was meant.
AskIsRead ==
  ask # None =>
    /\ Reads(ask.frame) = ask.op /\ Sensible(ask.op)
    /\ ask.frame.cmd \in StatusCommands \cup {Cmd.AUTH, Cmd.MONITOR_STATUS, Cmd.LOGIN, Cmd.READ_WIRELESS}
    /\ ask.frame.cmd = Cmd.LOGIN => ask.frame = BuildLogin

\* The answer on its way is the panel's frame for what it was when it answered.
AnswerOf(a) ==
  /\ a.panel \in Panels /\ a.version \in DOMAIN Size
  /\ \/ a.cmd = Cmd.AUTH /\ \E ack \in {"ACK", "WRONG_PASSWORD", "BLOCKED"} :
                              a.raw = AckFrame(CommandAck[ack])
     \/ a.cmd = Cmd.MONITOR_STATUS /\ a.raw = MonitorFrame(a.panel)
     \/ a.cmd = Cmd.READ_WIRELESS /\ a.raw = InventoryFrame(ask.frame.payload[2])
     \/ a.cmd = Cmd.LOGIN /\ a.raw = LoginFrame(BuildLogin.payload)
     \/ a.cmd = Cmd.CONNECTION /\ a.raw = ConnectionFrame(a.panel)
     \/ a.cmd \in StatusCommands /\ a.raw = StatusFrame(a.panel, a.version, Size[a.version])

Exchange ==
  /\ panel \in Panels
  /\ AskIsRead
  /\ answer # <<>> => AnswerOf(answer[1])
  /\ status # None => DOMAIN status.zones \subseteq 1..100

\* Whatever a client means leaves a panel that can be.
LEMMA MeantTypes ==
  ASSUME NEW p \in Panels, NEW op, Sensible(op)
  PROVE  Meant(p, op) \in Panels
<1> USE DEF Panels
<1>1. ASSUME NEW target, NEW mode,
             \/ target \in Partitions /\ mode \in {"disarmed", "away", "stay"}
             \/ target = FENCE_PARTITION /\ mode \in {"disarmed", "away"}
      PROVE  SetMode(p, target, mode) \in Panels
  <2>1. CASE target = FENCE_PARTITION
    <3>1. mode \in {"disarmed", "away"}
      BY <1>1, <2>1, OperateAssumption DEF FENCE_PARTITION
    <3>2. [p.fence EXCEPT !.mode = mode] \in FenceStates
      BY <3>1 DEF FenceStates
    <3> QED
      BY <2>1, <3>2 DEF SetMode, Area
  <2>2. CASE target # FENCE_PARTITION
    <3>1. [p.part[target] EXCEPT !.mode = mode] \in PartitionStates
      BY <1>1, <2>2 DEF PartitionStates
    <3>2. [p.part EXCEPT ![target].mode = mode] \in [Partitions -> PartitionStates]
      BY <1>1, <2>2, <3>1
    <3> QED
      BY <1>1, <2>2, <3>2 DEF SetMode, Area
  <2> QED
    BY <2>1, <2>2
<1>2. CASE op.kind \in {"arm", "away"}
  BY <1>1, <1>2 DEF Meant, Sensible
<1>3. CASE op.kind = "stay"
  BY <1>1, <1>3 DEF Meant, Sensible
<1>4. CASE op.kind = "disarm"
  BY <1>1, <1>4 DEF Meant, Sensible
<1>5. CASE op.kind \in {"pgm_on", "pgm_off"}
  <2>1. op.target \in 1..16
    BY <1>5, OperateAssumption DEF Sensible
  <2>2. Meant(p, op) = [p EXCEPT !.pgms = @ \cup {op.target}]
          \/ Meant(p, op) = [p EXCEPT !.pgms = @ \ {op.target}]
    BY <1>5 DEF Meant
  <2>3. p.pgms \cup {op.target} \in SUBSET (1..16) /\ p.pgms \ {op.target} \in SUBSET (1..16)
    BY <2>1
  <2> QED
    BY <2>2, <2>3
<1>6. CASE op.kind = "clock"
  BY <1>6 DEF Meant, Sensible
<1>7. CASE op.kind = "bypass"
  BY <1>7 DEF Meant, Sensible
<1>8. CASE op.kind = "bypass_one"
  <2>1. p.bypassed \cup {op.target} \in SUBSET (1..100)
    BY <1>8, OperateAssumption DEF Sensible
  <2>2. Meant(p, op) = [p EXCEPT !.bypassed = p.bypassed \cup {op.target}]
    BY <1>8 DEF Meant
  <2> DEFINE all == p.bypassed \cup {op.target}
  <2> HIDE DEF all
  <2>3. [p EXCEPT !.bypassed = all] \in Panels
    BY <2>1 DEF all
  <2> QED
    BY <2>2, <2>3 DEF all
<1>9. CASE op.kind = "none"
  BY <1>9 DEF Meant
<1> QED
  BY <1>2, <1>3, <1>4, <1>5, <1>6, <1>7, <1>8, <1>9 DEF Sensible

\* A status frame is long enough to be decoded, and tells of no zone but those
\* that have a nibble in it.
LEMMA StatusFrameIsLong ==
  ASSUME NEW p, NEW v \in DOMAIN Size
  PROVE  LET raw == StatusFrame(p, v, Size[v])
         IN Size[v] \in Nat /\ Len(raw) = Size[v] /\ Len(raw) >= 123 /\ IsFrame(raw, Size[v])
BY OperateAssumption DEF StatusFrame, IsFrame

\* The answer to a command is decoded as a status, with zones of 1..100.
LEMMA StatusIsDecoded ==
  ASSUME NEW p, NEW v \in DOMAIN Size, NEW c \in StatusCommands
  PROVE  LET raw == StatusFrame(p, v, Size[v])
         IN /\ Decode(c, raw) = DecodeStatus(raw)
            /\ DOMAIN DecodeStatus(raw).zones \subseteq 1..100
<1> DEFINE raw == StatusFrame(p, v, Size[v])
<1>1. Size[v] \in Nat /\ Len(raw) = Size[v] /\ Len(raw) >= 123 /\ IsFrame(raw, Size[v])
  BY StatusFrameIsLong
<1> HIDE DEF raw
<1>2. /\ c # Cmd.CONNECTION /\ c # Cmd.EVENT /\ c # Cmd.LOGIN /\ c # Cmd.AUTH
      /\ c # Cmd.MONITOR_STATUS /\ c # Cmd.READ_WIRELESS /\ c # Cmd.READ_EVENTS
  BY CommandBytes DEF StatusCommands
<1>3. Len(raw) > 100
  BY <1>1
<1>4. Decode(c, raw) = DecodeStatus(raw)
  BY <1>2, <1>3, Zenon DEF Decode
<1>5. Len(Slice(raw, 31, 81)) = 50
  <2> DEFINE L(from, to) == Len(Slice(raw, from, to))
  <2>1. \A from, to \in Nat : from <= to /\ to <= Size[v] => L(from, to) = to - from
    BY <1>1, SliceHas, Zenon
  <2>2. Size[v] \in Nat /\ 81 <= Size[v]
    BY <1>1
  <2> HIDE DEF L
  <2>3. L(31, 81) = 50
    BY <2>1, <2>2
  <2> QED
    BY <2>3 DEF L
<1>6. \A data, b : DOMAIN NibblesToZones(data, 100, b) \subseteq 1..Least(100, 2 * Len(data))
  BY DEF NibblesToZones
<1>7. \E b : DecodeStatus(raw).zones = NibblesToZones(Slice(raw, 31, 81), 100, b)
  <2>1. DecodeStatus(raw).zones
          = NibblesToZones(Slice(raw, 31, 81), 100,
                           IF Len(raw) > 117 THEN BitmapToFlags(Slice(raw, 104, 117), TRUE) ELSE {})
    BY DEF DecodeStatus
  <2> QED
    BY <2>1
<1>8. DOMAIN DecodeStatus(raw).zones \subseteq 1..100
  <2>1. Least(100, 2 * 50) = 100
    BY DEF Least
  <2>2. PICK b : DecodeStatus(raw).zones = NibblesToZones(Slice(raw, 31, 81), 100, b)
    BY <1>7
  <2>3. DOMAIN DecodeStatus(raw).zones \subseteq 1..Least(100, 2 * Len(Slice(raw, 31, 81)))
    BY <1>6, <2>2
  <2> QED
    BY <1>5, <2>1, <2>3
<1> QED
  BY <1>4, <1>8 DEF raw

\* A command that is the client's, and that the panel reads as it was meant.
Meaningful(frame, op) ==
  /\ Reads(frame) = op /\ Sensible(op)
  /\ frame.cmd \in StatusCommands \cup {Cmd.AUTH, Cmd.MONITOR_STATUS, Cmd.LOGIN, Cmd.READ_WIRELESS}
  /\ frame.cmd = Cmd.LOGIN => frame = BuildLogin

\* To send one leaves the exchange in order.
LEMMA SendIsInOrder ==
  ASSUME NEW frame, NEW op, Exchange, Send(frame, op), Meaningful(frame, op)
  PROVE  Exchange'
BY DEF Exchange, AskIsRead, Meaningful, Send

\* The commands with one byte of payload.
LEMMA ShortIsMeaningful ==
  ASSUME NEW c \in DOMAIN KindOf, NEW target,
         \/ c \in {Cmd.ARM, Cmd.DISARM, Cmd.ARM_STAY, Cmd.ARM_AWAY} /\ target \in Partitions
         \/ c \in {Cmd.ARM, Cmd.DISARM} /\ target = FENCE_PARTITION
         \/ c \in {Cmd.PGM_ON, Cmd.PGM_OFF} /\ target \in Pgms
  PROVE  Meaningful(BuildFrame(c, <<target>>), Op(KindOf[c], target))
<1>1. Reads(BuildFrame(c, <<target>>)) = Op(KindOf[c], target)
  BY ShortIsRead
<1>2. BuildFrame(c, <<target>>).cmd = c /\ c \in StatusCommands /\ c # Cmd.LOGIN
  BY Kinds, CommandBytes DEF BuildFrame, StatusCommands
<1>3. Sensible(Op(KindOf[c], target))
  BY Kinds DEF Sensible, Op
<1> QED
  BY <1>1, <1>2, <1>3 DEF Meaningful

\* The commands with a password.
LEMMA AuthIsMeaningful ==
  ASSUME NEW digits
  PROVE  /\ \A i \in Partitions \cup {FENCE_PARTITION}, arm \in BOOLEAN :
              Meaningful(BuildAuthArm(digits, i, arm), Op(IF arm THEN "arm" ELSE "disarm", i))
         /\ \A n \in Pgms, on \in BOOLEAN :
              Meaningful(BuildAuthPgm(digits, n, on), Op(IF on THEN "pgm_on" ELSE "pgm_off", n))
         /\ \A n \in Zones : Meaningful(BuildAuthBypass(digits, n), Op("bypass_one", n))
<1>1. Cmd.AUTH # Cmd.LOGIN
  BY CommandBytes
<1>2. ASSUME NEW i \in Partitions \cup {FENCE_PARTITION}, NEW arm \in BOOLEAN
      PROVE  Meaningful(BuildAuthArm(digits, i, arm), Op(IF arm THEN "arm" ELSE "disarm", i))
  <2>1. BuildAuthArm(digits, i, arm).cmd = Cmd.AUTH
    BY DEF BuildAuthArm, BuildAuth, BuildFrame
  <2>2. Sensible(Op(IF arm THEN "arm" ELSE "disarm", i))
    BY DEF Sensible, Op
  <2> QED
    BY <1>1, <2>1, <2>2, AuthIsRead DEF Meaningful
<1>3. ASSUME NEW n \in Pgms, NEW on \in BOOLEAN
      PROVE  Meaningful(BuildAuthPgm(digits, n, on), Op(IF on THEN "pgm_on" ELSE "pgm_off", n))
  <2>1. BuildAuthPgm(digits, n, on).cmd = Cmd.AUTH
    BY DEF BuildAuthPgm, BuildAuth, BuildFrame
  <2>2. Sensible(Op(IF on THEN "pgm_on" ELSE "pgm_off", n))
    BY DEF Sensible, Op
  <2> QED
    BY <1>1, <2>1, <2>2, AuthIsRead DEF Meaningful
<1>4. ASSUME NEW n \in Zones
      PROVE  Meaningful(BuildAuthBypass(digits, n), Op("bypass_one", n))
  <2>1. BuildAuthBypass(digits, n).cmd = Cmd.AUTH
    BY DEF BuildAuthBypass, BuildAuth, BuildFrame
  <2>2. Sensible(Op("bypass_one", n))
    BY DEF Sensible, Op
  <2> QED
    BY <1>1, <2>1, <2>2, AuthIsRead DEF Meaningful
<1> QED
  BY <1>2, <1>3, <1>4

\* Everything that a client sends.
LEMMA ClientIsMeaningful ==
  ASSUME Exchange, NEW c,
         \/ \E i \in Partitions : SendArm(i)
         \/ SendFence \/ SendRequest
         \/ \E n \in Pgms : SendPgm(c, n)
         \/ \E n \in Zones : SendBypass(n)
         \/ \E t \in Dates : SendDate(t)
         \/ \E digits \in Codes : SendAuth(digits)
  PROVE  Exchange'
<1>1. SUFFICES \E frame, op : Send(frame, op) /\ Meaningful(frame, op)
  BY SendIsInOrder
<1>2. ASSUME NEW i \in Partitions, SendArm(i) PROVE \E frame, op : Send(frame, op) /\ Meaningful(frame, op)
  <2>1. \A d \in {Cmd.ARM, Cmd.DISARM, Cmd.ARM_STAY, Cmd.ARM_AWAY} :
          Meaningful(BuildFrame(d, <<i>>), Op(KindOf[d], i))
    BY Kinds, ShortIsMeaningful
  <2>2. \E d \in {Cmd.ARM, Cmd.DISARM, Cmd.ARM_STAY, Cmd.ARM_AWAY} :
          Send(BuildFrame(d, <<i>>), Op(KindOf[d], i))
    BY <1>2, Kinds DEF SendArm, BuildArm, BuildDisarm, BuildArmStay, BuildArmAway
  <2> QED
    BY <2>1, <2>2
<1>3. ASSUME SendFence PROVE \E frame, op : Send(frame, op) /\ Meaningful(frame, op)
  <2>1. \A d \in {Cmd.ARM, Cmd.DISARM} :
          Meaningful(BuildFrame(d, <<FENCE_PARTITION>>), Op(KindOf[d], FENCE_PARTITION))
    BY Kinds, ShortIsMeaningful
  <2>2. \E d \in {Cmd.ARM, Cmd.DISARM} :
          Send(BuildFrame(d, <<FENCE_PARTITION>>), Op(KindOf[d], FENCE_PARTITION))
    BY <1>3, Kinds DEF SendFence, BuildFenceArm, BuildFenceDisarm, BuildArm, BuildDisarm
  <2> QED
    BY <2>1, <2>2
<1>4. ASSUME SendRequest PROVE \E frame, op : Send(frame, op) /\ Meaningful(frame, op)
  <2>1. PICK f \in {BuildStatusRequest, BuildMonitorStatusRequest, BuildLogin}
                     \cup {BuildWirelessRead(page) : page \in 0..1} : Send(f, Op("none", 0))
    BY <1>4 DEF SendRequest
  <2>2. \E d \in {Cmd.STATUS, Cmd.MONITOR_STATUS, Cmd.LOGIN, Cmd.READ_WIRELESS} :
          \E payload : f = BuildFrame(d, payload)
    BY <2>1 DEF BuildStatusRequest, BuildMonitorStatusRequest, BuildLogin, BuildWirelessRead
  <2>3. Reads(f) = Op("none", 0)
    BY <2>2, RequestIsRead
  <2>4. f.cmd \in {Cmd.STATUS, Cmd.MONITOR_STATUS, Cmd.LOGIN, Cmd.READ_WIRELESS}
    BY <2>2 DEF BuildFrame
  <2>5. f.cmd = Cmd.LOGIN => f = BuildLogin
    BY <2>1, CommandBytes
       DEF BuildStatusRequest, BuildMonitorStatusRequest, BuildWirelessRead, BuildFrame
  <2>6. Meaningful(f, Op("none", 0))
    BY <2>3, <2>4, <2>5 DEF Meaningful, Sensible, Op, StatusCommands
  <2> QED
    BY <2>1, <2>6
<1>5. ASSUME NEW n \in Pgms, SendPgm(c, n) PROVE \E frame, op : Send(frame, op) /\ Meaningful(frame, op)
  <2>1. \A d \in {Cmd.PGM_ON, Cmd.PGM_OFF} : Meaningful(BuildFrame(d, <<n>>), Op(KindOf[d], n))
    BY Kinds, ShortIsMeaningful
  <2>2. \E d \in {Cmd.PGM_ON, Cmd.PGM_OFF} : Send(BuildFrame(d, <<n>>), Op(KindOf[d], n))
    BY <1>5, Kinds DEF SendPgm, BuildPgmOn, BuildPgmOff
  <2> QED
    BY <2>1, <2>2
<1>6. ASSUME NEW n \in Zones, SendBypass(n) PROVE \E frame, op : Send(frame, op) /\ Meaningful(frame, op)
  <2> DEFINE before == BypassedZones(status)
             after == (before \ {n}) \cup ({n} \ before)
  <2>1. Send(BuildBypassBitmap(after), Op("bypass", after)) /\ status # None
    BY <1>6 DEF SendBypass
  <2>2. after \subseteq 1..100 /\ after \subseteq 1..104
    <3>1. after \subseteq 1..100
      BY <2>1, OperateAssumption DEF Exchange, BypassedZones
    <3>2. 1..100 \subseteq 1..104
      OBVIOUS
    <3> QED
      BY <3>1, <3>2
  <2> HIDE DEF after
  <2>3. Reads(BuildBypassBitmap(after)) = Op("bypass", after)
    BY <2>2, BypassIsRead
  <2>4. BuildBypassBitmap(after).cmd = Cmd.BYPASS /\ Cmd.BYPASS # Cmd.LOGIN
    BY CommandBytes DEF BuildBypassBitmap, BuildFrame
  <2>5. Meaningful(BuildBypassBitmap(after), Op("bypass", after))
    BY <2>2, <2>3, <2>4 DEF Meaningful, Sensible, Op, StatusCommands
  <2> QED
    BY <2>1, <2>5
<1>7. ASSUME NEW t \in Dates, SendDate(t) PROVE \E frame, op : Send(frame, op) /\ Meaningful(frame, op)
  <2> DEFINE u == [t EXCEPT ![3] = @ % 100]
  <2>1. Send(BuildSetDatetime(t), Op("clock", u)) /\ DateOk(t) /\ t \in [1..6 -> Nat]
    BY <1>7, OperateAssumption DEF SendDate
  <2>2. u \in [1..6 -> 0..99]
    BY <2>1 DEF DateOk
  <2>3. Reads(BuildSetDatetime(t)) = Op("clock", u)
    BY <2>1, DateIsRead
  <2> HIDE DEF u
  <2>4. BuildSetDatetime(t).cmd = Cmd.SET_DATETIME /\ Cmd.SET_DATETIME # Cmd.LOGIN
    BY CommandBytes DEF BuildSetDatetime, BuildFrame
  <2>5. Meaningful(BuildSetDatetime(t), Op("clock", u))
    BY <2>2, <2>3, <2>4 DEF Meaningful, Sensible, Op, StatusCommands
  <2> QED
    BY <2>1, <2>5
<1>8. ASSUME NEW digits \in Codes, SendAuth(digits) PROVE \E frame, op : Send(frame, op) /\ Meaningful(frame, op)
  <2>1. CASE digits = None
    <3>1. \/ Send(BuildFenceArm(digits), Op("arm", FENCE_PARTITION))
          \/ Send(BuildFenceDisarm(digits), Op("disarm", FENCE_PARTITION))
          \/ \E i \in Partitions, arm \in BOOLEAN :
               Send(BuildAuthArm(digits, i, arm), Op(IF arm THEN "arm" ELSE "disarm", i))
          \/ \E n \in Pgms, on \in BOOLEAN :
               Send(BuildAuthPgm(digits, n, on), Op(IF on THEN "pgm_on" ELSE "pgm_off", n))
          \/ \E n \in Zones : Send(BuildAuthBypass(digits, n), Op("bypass_one", n))
      BY <1>8 DEF SendAuth
    <3>2. \A d \in {Cmd.ARM, Cmd.DISARM} :
            Meaningful(BuildFrame(d, <<FENCE_PARTITION>>), Op(KindOf[d], FENCE_PARTITION))
      BY Kinds, ShortIsMeaningful
    <3>3. /\ Meaningful(BuildFenceArm(digits), Op("arm", FENCE_PARTITION))
          /\ Meaningful(BuildFenceDisarm(digits), Op("disarm", FENCE_PARTITION))
      BY <2>1, <3>2, Kinds DEF BuildFenceArm, BuildFenceDisarm, BuildArm, BuildDisarm
    <3> QED
      BY <3>1, <3>3, AuthIsMeaningful
  <2>2. CASE digits # None
    <3>1. \/ Send(BuildAuthFence(digits, TRUE), Op("arm", FENCE_PARTITION))
          \/ Send(BuildAuthFence(digits, FALSE), Op("disarm", FENCE_PARTITION))
          \/ \E i \in Partitions, arm \in BOOLEAN :
               Send(BuildAuthArm(digits, i, arm), Op(IF arm THEN "arm" ELSE "disarm", i))
          \/ \E n \in Pgms, on \in BOOLEAN :
               Send(BuildAuthPgm(digits, n, on), Op(IF on THEN "pgm_on" ELSE "pgm_off", n))
          \/ \E n \in Zones : Send(BuildAuthBypass(digits, n), Op("bypass_one", n))
      BY <1>8, <2>2 DEF SendAuth, BuildFenceArm, BuildFenceDisarm
    <3>2. /\ Meaningful(BuildAuthFence(digits, TRUE), Op("arm", FENCE_PARTITION))
          /\ Meaningful(BuildAuthFence(digits, FALSE), Op("disarm", FENCE_PARTITION))
      BY AuthIsMeaningful DEF BuildAuthFence
    <3> QED
      BY <3>1, <3>2, AuthIsMeaningful
  <2> QED
    BY <2>1, <2>2
<1> QED
  BY <1>2, <1>3, <1>4, <1>5, <1>6, <1>7, <1>8

\* The frame that answers a command is the one for it.
LEMMA AnswerFits ==
  ASSUME NEW f, NEW p, NEW q, NEW v,
         f.cmd \in StatusCommands \cup {Cmd.AUTH, Cmd.MONITOR_STATUS, Cmd.LOGIN, Cmd.READ_WIRELESS}
  PROVE  LET raw == AnswerFrame(f, p, q, v)
         IN \/ f.cmd = Cmd.AUTH /\ \E k \in {"ACK", "WRONG_PASSWORD", "BLOCKED"} :
                                      raw = AckFrame(CommandAck[k])
            \/ f.cmd = Cmd.MONITOR_STATUS /\ raw = MonitorFrame(q)
            \/ f.cmd = Cmd.READ_WIRELESS /\ raw = InventoryFrame(f.payload[2])
            \/ f.cmd = Cmd.LOGIN /\ raw = LoginFrame(f.payload)
            \/ f.cmd \in StatusCommands /\ raw = StatusFrame(q, v, Size[v])
<1> DEFINE c == f.cmd
           raw == AnswerFrame(f, p, q, v)
<1>1. CASE c = Cmd.AUTH
  <2>1. raw = AckFrame(AckTo(f, p))
    <3>1. c # Cmd.MONITOR_STATUS /\ c # Cmd.READ_WIRELESS /\ c # Cmd.LOGIN
      BY <1>1, CommandBytes
    <3> QED
      BY <1>1, <3>1, Zenon DEF AnswerFrame
  <2>2. \E k \in {"ACK", "WRONG_PASSWORD", "BLOCKED"} : AckTo(f, p) = CommandAck[k]
    BY DEF AckTo
  <2> QED
    BY <1>1, <2>1, <2>2
<1>2. CASE c = Cmd.MONITOR_STATUS
  <2>1. c # Cmd.AUTH /\ c # Cmd.READ_WIRELESS /\ c # Cmd.LOGIN
    BY <1>2, CommandBytes
  <2>2. raw = MonitorFrame(q)
    BY <1>2, <2>1, Zenon DEF AnswerFrame
  <2> QED
    BY <1>2, <2>2
<1>3. CASE c = Cmd.READ_WIRELESS
  <2>1. c # Cmd.AUTH /\ c # Cmd.MONITOR_STATUS /\ c # Cmd.LOGIN
    BY <1>3, CommandBytes
  <2>2. raw = InventoryFrame(f.payload[2])
    BY <1>3, <2>1, Zenon DEF AnswerFrame
  <2> QED
    BY <1>3, <2>2
<1>4. CASE c = Cmd.LOGIN
  <2>1. c # Cmd.AUTH /\ c # Cmd.MONITOR_STATUS /\ c # Cmd.READ_WIRELESS
    BY <1>4, CommandBytes
  <2>2. raw = LoginFrame(f.payload)
    BY <1>4, <2>1, Zenon DEF AnswerFrame
  <2> QED
    BY <1>4, <2>2
<1>5. CASE c \in StatusCommands
  <2>1. c # Cmd.AUTH /\ c # Cmd.MONITOR_STATUS /\ c # Cmd.READ_WIRELESS /\ c # Cmd.LOGIN
    BY <1>5, CommandBytes DEF StatusCommands
  <2>2. raw = StatusFrame(q, v, Size[v])
    BY <2>1, Zenon DEF AnswerFrame
  <2> QED
    BY <1>5, <2>2
<1> HIDE DEF raw
<1> QED
  BY <1>1, <1>2, <1>3, <1>4, <1>5

\* The panel answers what it was asked.
LEMMA PanelIsInOrder ==
  ASSUME NEW v \in DOMAIN Size, Exchange, PanelExecutes(v)
  PROVE  Exchange'
<1> DEFINE f == ask.frame
           after == Executed(panel, f)
           raw == AnswerFrame(f, panel, after, v)
           a == [cmd |-> f.cmd, raw |-> raw, panel |-> after, version |-> v]
<1>1. /\ ask # None /\ UNCHANGED <<ask, status>>
      /\ panel' = after /\ answer' = <<a>>
  BY DEF PanelExecutes
<1>2. /\ Reads(f) = ask.op /\ Sensible(ask.op)
      /\ f.cmd \in StatusCommands \cup {Cmd.AUTH, Cmd.MONITOR_STATUS, Cmd.LOGIN, Cmd.READ_WIRELESS}
      /\ f.cmd = Cmd.LOGIN => f = BuildLogin
  BY <1>1 DEF Exchange, AskIsRead
<1>3. after \in Panels
  <2>1. Meant(panel, Reads(f)) \in Panels
    BY <1>2, MeantTypes DEF Exchange
  <2>2. [panel EXCEPT !.wrong = Least(panel.wrong + 1, 5)] \in Panels
    <3>1. Least(panel.wrong + 1, 5) \in 0..5
      BY DEF Exchange, Panels, Least
    <3> QED
      BY <3>1 DEF Exchange, Panels
  <2> QED
    BY <2>1, <2>2 DEF Executed
<1> HIDE DEF after
<1>4. \/ f.cmd = Cmd.AUTH /\ \E k \in {"ACK", "WRONG_PASSWORD", "BLOCKED"} : raw = AckFrame(CommandAck[k])
      \/ f.cmd = Cmd.MONITOR_STATUS /\ raw = MonitorFrame(after)
      \/ f.cmd = Cmd.READ_WIRELESS /\ raw = InventoryFrame(f.payload[2])
      \/ f.cmd = Cmd.LOGIN /\ raw = LoginFrame(BuildLogin.payload)
      \/ f.cmd \in StatusCommands /\ raw = StatusFrame(after, v, Size[v])
  BY <1>2, AnswerFits
<1> HIDE DEF raw
<1>5. answer'[1].cmd = f.cmd /\ answer'[1].raw = raw /\ answer'[1].panel = after
      /\ answer'[1].version = v /\ ask' = ask
  BY <1>1
<1>6. AnswerOf(answer[1])'
  BY <1>3, <1>4, <1>5, Zenon DEF AnswerOf
<1>7. AskIsRead'
  BY <1>1, <1>2 DEF AskIsRead
<1> QED
  BY <1>1, <1>3, <1>6, <1>7 DEF Exchange

\* The client takes an answer, and keeps a status.
LEMMA AnswerIsInOrder ==
  ASSUME Exchange, TakeAnswer
  PROVE  Exchange'
<1> DEFINE a == answer[1]
           packet == Decode(a.cmd, a.raw)
<1>1. /\ answer # <<>> /\ answer' = <<>> /\ ask' = None /\ panel' = panel
      /\ status' = IF a.cmd \in StatusCommands /\ packet # None THEN packet ELSE status
  BY DEF TakeAnswer
<1>2. AnswerOf(a)
  BY <1>1 DEF Exchange
<1>3. a.cmd \in StatusCommands => DOMAIN packet.zones \subseteq 1..100
  <2> SUFFICES ASSUME a.cmd \in StatusCommands PROVE DOMAIN packet.zones \subseteq 1..100
    OBVIOUS
  <2>1. a.version \in DOMAIN Size /\ a.raw = StatusFrame(a.panel, a.version, Size[a.version])
    BY <1>2, CommandBytes DEF AnswerOf, StatusCommands
  <2> QED
    BY <2>1, StatusIsDecoded
<1> HIDE DEF packet
<1> QED
  BY <1>1, <1>3 DEF Exchange, AskIsRead

\* What people do at the keypad leaves a panel that can be.
LEMMA PanelMovesInOrder ==
  ASSUME Exchange, PanelMoves
  PROVE  Exchange'
<1>1. UNCHANGED <<ask, answer, status>>
  BY DEF PanelMoves
<1>2. panel' \in Panels
  <2> USE DEF Exchange, Panels
  <2>1. ASSUME NEW e \in ZoneEvents, panel' = [panel EXCEPT !.zone[e[1]] = e[2]]
        PROVE  panel' \in Panels
    <3>1. e[1] \in Zones /\ e[2] \in ZoneStates
      BY OperateAssumption DEF ZoneStates
    <3> QED
      BY <2>1, <3>1
  <2>2. ASSUME NEW n \in Zones, panel' = [panel EXCEPT !.bypassed = (@ \ {n}) \cup ({n} \ @)]
        PROVE  panel' \in Panels
    BY <2>2, OperateAssumption
  <2>3. ASSUME NEW i \in Partitions, panel' = [panel EXCEPT !.part[i].alarm = ~@]
        PROVE  panel' \in Panels
    <3>1. [panel.part[i] EXCEPT !.alarm = ~@] \in PartitionStates
      BY DEF PartitionStates
    <3>2. panel' = [panel EXCEPT !.part = [panel.part EXCEPT ![i] = [panel.part[i] EXCEPT !.alarm = ~@]]]
      BY <2>3
    <3> HIDE DEF PartitionStates
    <3> QED
      BY <3>1, <3>2
  <2>4. ASSUME panel' = [panel EXCEPT !.fence.alarm = ~@]
        PROVE  panel' \in Panels
    BY <2>4 DEF FenceStates
  <2> QED
    BY <2>1, <2>2, <2>3, <2>4 DEF PanelMoves
<1> QED
  BY <1>1, <1>2 DEF Exchange, AskIsRead, AnswerOf

\* Every step of the exchange keeps Exchange.
LEMMA OperateIsInOrder ==
  ASSUME NEW v \in DOMAIN Size, NEW c, Exchange, OperateNext(v, c)
  PROVE  Exchange'
<1>1. CASE PanelConnects(v)
  BY <1>1 DEF PanelConnects, Exchange, AskIsRead, AnswerOf
<1> QED
  BY <1>1, ClientIsMeaningful, PanelIsInOrder, AnswerIsInOrder, PanelMovesInOrder DEF OperateNext

\* Exchange holds throughout.
LEMMA ExchangeAlways == Spec => []Exchange
<1>1. Init => Exchange
  <2> SUFFICES ASSUME Init PROVE Exchange
    OBVIOUS
  <2>1. panel \in Panels
    BY DEF Init, OperateInit, Panels, PartitionStates, FenceStates, ZoneStates, ZoneStatus, Partition
  <2> QED
    BY <2>1 DEF Init, OperateInit, Exchange, AskIsRead
<1>2. ReadInv /\ Exchange /\ [Next]_vars => Exchange'
  <2> SUFFICES ASSUME ReadInv, Exchange, [Next]_vars PROVE Exchange'
    OBVIOUS
  <2>1. version \in DOMAIN Size
    BY MonitoringAssumption DEF ReadInv, ReadTypes
  <2>2. CASE Operating
    BY <2>1, <2>2, OperateIsInOrder DEF Operating
  <2>3. CASE UNCHANGED operateVars
    BY <2>3 DEF operateVars, Exchange, AskIsRead, AnswerOf
  <2> QED
    BY <2>2, <2>3 DEF Next, Reading, ReadingDone, Installer, vars
<1>3. Spec => []ReadInv
  BY ReadsLikeAReader, ReadInvAlways, PTL
<1> QED
  BY <1>1, <1>2, <1>3, PTL DEF Spec

\* The panel reads from every command what the client meant by it: the zones of
\* the bitmap, the hour before the day, the fence as partition 99.
THEOREM CommandsMeanWhatTheySay == Spec => []CommandsAreUnderstood
<1>1. Exchange => CommandsAreUnderstood
  BY DEF Exchange, AskIsRead, CommandsAreUnderstood
<1> QED
  BY <1>1, ExchangeAlways, PTL

\* What each answer is decoded with (decode): the one function for its command.
LEMMA AnswersAreDecoded ==
  ASSUME NEW raw
  PROVE  /\ Decode(Cmd.CONNECTION, raw) = DecodeConnection(raw)
         /\ Decode(Cmd.LOGIN, raw) = DecodeLogin(raw)
         /\ Decode(Cmd.AUTH, raw) = DecodeCommandResponse(raw)
         /\ Decode(Cmd.MONITOR_STATUS, raw) = DecodeMonitorStatus(raw)
         /\ ~(Len(raw) < 6) => Decode(Cmd.READ_WIRELESS, raw) = DecodeWireless(raw)
<1>1. \A c \in {Cmd.CONNECTION, Cmd.LOGIN, Cmd.AUTH, Cmd.MONITOR_STATUS, Cmd.READ_WIRELESS} :
        c \notin StatusCommands /\ c # Cmd.EVENT /\ c # Cmd.READ_EVENTS
  BY CommandBytes DEF StatusCommands
<1>2. Decode(Cmd.CONNECTION, raw) = DecodeConnection(raw)
  <2>1. /\ Cmd.CONNECTION # Cmd.LOGIN /\ Cmd.CONNECTION # Cmd.AUTH
        /\ Cmd.CONNECTION # Cmd.MONITOR_STATUS /\ Cmd.CONNECTION # Cmd.READ_WIRELESS
    BY CommandBytes
  <2> QED
    BY <1>1, <2>1, Zenon DEF Decode
<1>3. Decode(Cmd.LOGIN, raw) = DecodeLogin(raw)
  <2>1. /\ Cmd.LOGIN # Cmd.CONNECTION /\ Cmd.LOGIN # Cmd.AUTH
        /\ Cmd.LOGIN # Cmd.MONITOR_STATUS /\ Cmd.LOGIN # Cmd.READ_WIRELESS
    BY CommandBytes
  <2> QED
    BY <1>1, <2>1, Zenon DEF Decode
<1>4. Decode(Cmd.AUTH, raw) = DecodeCommandResponse(raw)
  <2>1. /\ Cmd.AUTH # Cmd.CONNECTION /\ Cmd.AUTH # Cmd.LOGIN
        /\ Cmd.AUTH # Cmd.MONITOR_STATUS /\ Cmd.AUTH # Cmd.READ_WIRELESS
    BY CommandBytes
  <2> QED
    BY <1>1, <2>1, Zenon DEF Decode
<1>5. Decode(Cmd.MONITOR_STATUS, raw) = DecodeMonitorStatus(raw)
  <2>1. /\ Cmd.MONITOR_STATUS # Cmd.CONNECTION /\ Cmd.MONITOR_STATUS # Cmd.LOGIN
        /\ Cmd.MONITOR_STATUS # Cmd.AUTH /\ Cmd.MONITOR_STATUS # Cmd.READ_WIRELESS
    BY CommandBytes
  <2> QED
    BY <1>1, <2>1, Zenon DEF Decode
<1>6. ~(Len(raw) < 6) => Decode(Cmd.READ_WIRELESS, raw) = DecodeWireless(raw)
  <2>1. /\ Cmd.READ_WIRELESS # Cmd.CONNECTION /\ Cmd.READ_WIRELESS # Cmd.LOGIN
        /\ Cmd.READ_WIRELESS # Cmd.AUTH /\ Cmd.READ_WIRELESS # Cmd.MONITOR_STATUS
    BY CommandBytes
  <2> QED
    BY <1>1, <2>1, Zenon DEF Decode
<1> QED
  BY <1>2, <1>3, <1>4, <1>5, <1>6

\* An answer to a command with a password is decoded as what the panel said of
\* it (decode_command_response).
LEMMA AckIsRead ==
  ASSUME NEW k \in {"ACK", "WRONG_PASSWORD", "BLOCKED"}
  PROVE  Decode(Cmd.AUTH, AckFrame(CommandAck[k])) = CommandAck[k]
<1>1. PICK raw : raw = AckFrame(CommandAck[k])
  OBVIOUS
<1>2. Len(raw) = 8 /\ At(raw, 6) = CommandAck[k]
  <2>1. PICK ack : ack = CommandAck[k]
    OBVIOUS
  <2>2. raw = <<123, 8, 1, Cmd.AUTH, 3, 192, ack, 85>>
    BY <1>1, <2>1, Zenon DEF AckFrame
  <2> QED
    BY <2>1, <2>2 DEF At
<1>3. k \in DOMAIN CommandAck /\ ~(Len(raw) < 8)
  BY <1>2 DEF CommandAck
<1>4. DecodeCommandResponse(raw) = CommandAck[k]
  BY <1>2, <1>3, Zenon DEF DecodeCommandResponse
<1> QED
  BY <1>1, <1>4, AnswersAreDecoded, Zenon

\* Whatever the panel answers, the client decodes what the panel was: all of a
\* status frame, with its three orders of bits, the partitions and the fence of
\* the shorter frames, the devices of an inventory page, the refusal.
THEOREM AnswersAreTrue == Spec => []AnswersTellThePanel
<1>1. Exchange => AnswersTellThePanel
  <2> SUFFICES ASSUME Exchange, answer # <<>> PROVE AnswersTellThePanel
    BY DEF AnswersTellThePanel
  <2>1. PICK a : a = answer[1]
    OBVIOUS
  <2>2. AnswerOf(a)
    BY <2>1 DEF Exchange
  <2>3. a.panel \in Panels /\ a.version \in DOMAIN Size
    BY <2>2 DEF AnswerOf
  <2> DEFINE d == Decode(a.cmd, a.raw)
  <2> SUFFICES CASE a.cmd \in StatusCommands -> d = StatusView(a.panel, a.version)
                 [] a.cmd \in {Cmd.MONITOR_STATUS, Cmd.CONNECTION} ->
                      d.partitions = PartitionViews(a.panel) /\ d.fence = FenceView(a.panel.fence)
                 [] a.cmd = Cmd.LOGIN -> d.accepted
                 [] a.cmd = Cmd.READ_WIRELESS ->
                      \A page \in 0..1 : ask.frame = BuildWirelessRead(page) => d = InventoryView(page)
                 [] OTHER -> d \in {CommandAck.ACK, CommandAck.WRONG_PASSWORD, CommandAck.BLOCKED}
    BY <2>1, Zenon DEF AnswersTellThePanel
  <2>4. CASE a.cmd \in StatusCommands /\ a.raw = StatusFrame(a.panel, a.version, Size[a.version])
    <3>1. a.cmd \notin {Cmd.MONITOR_STATUS, Cmd.CONNECTION} /\ a.cmd # Cmd.LOGIN
          /\ a.cmd # Cmd.READ_WIRELESS
      BY <2>4, CommandBytes DEF StatusCommands
    <3>2. d = StatusView(a.panel, a.version)
      <4>1. Size[a.version] \in Nat /\ Size[a.version] >= 123
        BY <2>3, OperateAssumption
      <4>2. d = DecodeStatus(a.raw)
        BY <2>3, <2>4, StatusIsDecoded
      <4> QED
        BY <2>3, <2>4, <4>1, <4>2, StatusIsRead
    <3> HIDE DEF d
    <3> QED
      BY <2>4, <3>1, <3>2, Zenon
  <2>5. CASE a.cmd = Cmd.MONITOR_STATUS /\ a.raw = MonitorFrame(a.panel)
    <3>1. a.cmd \notin StatusCommands /\ a.cmd # Cmd.LOGIN /\ a.cmd # Cmd.READ_WIRELESS
      BY <2>5, CommandBytes DEF StatusCommands
    <3>2. d.partitions = PartitionViews(a.panel) /\ d.fence = FenceView(a.panel.fence)
      BY <2>3, <2>5, AnswersAreDecoded, StateFramesAreRead, ZenonT(60)
    <3> HIDE DEF d
    <3> QED
      BY <2>5, <3>1, <3>2, Zenon
  <2>6. CASE a.cmd = Cmd.CONNECTION /\ a.raw = ConnectionFrame(a.panel)
    <3>1. a.cmd \notin StatusCommands /\ a.cmd # Cmd.LOGIN /\ a.cmd # Cmd.READ_WIRELESS
      BY <2>6, CommandBytes DEF StatusCommands
    <3>2. d.partitions = PartitionViews(a.panel) /\ d.fence = FenceView(a.panel.fence)
      BY <2>3, <2>6, AnswersAreDecoded, StateFramesAreRead, Zenon
    <3> HIDE DEF d
    <3> QED
      BY <2>6, <3>1, <3>2, Zenon
  <2>7. CASE a.cmd = Cmd.LOGIN /\ a.raw = LoginFrame(BuildLogin.payload)
    <3>1. a.cmd \notin StatusCommands /\ a.cmd \notin {Cmd.MONITOR_STATUS, Cmd.CONNECTION}
          /\ a.cmd # Cmd.READ_WIRELESS
      BY <2>7, CommandBytes DEF StatusCommands
    <3>2. d.accepted
      BY <2>7, AnswersAreDecoded, LoginIsRead, Zenon
    <3> HIDE DEF d
    <3> QED
      BY <2>7, <3>1, <3>2, Zenon
  <2>8. CASE a.cmd = Cmd.READ_WIRELESS /\ a.raw = InventoryFrame(ask.frame.payload[2])
    <3>1. a.cmd \notin StatusCommands /\ a.cmd \notin {Cmd.MONITOR_STATUS, Cmd.CONNECTION}
          /\ a.cmd # Cmd.LOGIN
      BY <2>8, CommandBytes DEF StatusCommands
    <3>2. ASSUME NEW page \in 0..1, ask.frame = BuildWirelessRead(page)
          PROVE  d = InventoryView(page)
      <4>1. page \in Nat /\ a.raw = InventoryFrame(page)
        BY <2>8, <3>2 DEF BuildWirelessRead, BuildFrame
      <4>2. ~(Len(a.raw) < 6)
        BY <4>1 DEF InventoryFrame
      <4>3. d = DecodeWireless(a.raw)
        BY <2>8, <4>2, AnswersAreDecoded, Zenon
      <4> QED
        BY <4>1, <4>3, InventoryIsRead, Zenon
    <3> HIDE DEF d
    <3> QED
      BY <2>8, <3>1, <3>2, Zenon
  <2>9. CASE a.cmd = Cmd.AUTH /\ \E k \in {"ACK", "WRONG_PASSWORD", "BLOCKED"} :
                                   a.raw = AckFrame(CommandAck[k])
    <3>1. a.cmd \notin StatusCommands /\ a.cmd \notin {Cmd.MONITOR_STATUS, Cmd.CONNECTION}
          /\ a.cmd # Cmd.LOGIN /\ a.cmd # Cmd.READ_WIRELESS
      BY <2>9, CommandBytes DEF StatusCommands
    <3>2. PICK k \in {"ACK", "WRONG_PASSWORD", "BLOCKED"} : a.raw = AckFrame(CommandAck[k])
      BY <2>9
    <3>3. d = CommandAck[k]
      BY <2>9, <3>2, AckIsRead, Zenon
    <3>4. d \in {CommandAck.ACK, CommandAck.WRONG_PASSWORD, CommandAck.BLOCKED}
      BY <3>3
    <3> HIDE DEF d
    <3> QED
      BY <3>1, <3>4, Zenon
  <2> HIDE DEF d
  <2> QED
    BY <2>2, <2>4, <2>5, <2>6, <2>7, <2>8, <2>9, Zenon DEF AnswerOf
<1> QED
  BY <1>1, ExchangeAlways, PTL

\* The panel carries out a bypass as it was meant.
LEMMA BypassIsMeant ==
  ASSUME NEW v, Exchange, PanelExecutes(v), ask.frame.cmd = Cmd.BYPASS
  PROVE  panel'.bypassed = ask.op.target
<1> DEFINE f == ask.frame
           zones == {n \in 1..104 : (f.payload[((n - 1) \div 8) + 1] \div Msb[((n - 1) % 8) + 1]) % 2 = 1}
<1>1. panel' = Executed(panel, f) /\ Reads(f) = ask.op
  BY DEF PanelExecutes, Exchange, AskIsRead
<1>2. f.cmd # Cmd.AUTH /\ f.cmd \notin DOMAIN KindOf /\ f.cmd # Cmd.SET_DATETIME
  BY Kinds, CommandBytes
<1>3. Reads(f) = Op("bypass", zones)
  BY <1>2, Zenon DEF Reads
<1> HIDE DEF zones
<1>4. Executed(panel, f) = Meant(panel, ask.op)
  BY <1>1, <1>2 DEF Executed
<1>5. ask.op.kind = "bypass"
  BY <1>1, <1>3 DEF Op
<1>6. Meant(panel, ask.op) = [panel EXCEPT !.bypassed = ask.op.target]
  BY <1>5 DEF Meant
<1> QED
  BY <1>1, <1>4, <1>6 DEF Exchange, Panels

\* A bypass of one zone changes no other zone that the last status still shows
\* as the panel has it.
THEOREM BypassLeavesOthers == Spec => BypassKeepsOthers
<1>1. Exchange /\ [Next]_vars
        => [ask # None /\ ask.frame.cmd = Cmd.BYPASS /\ answer = <<>> /\ answer' # <<>> =>
              LET seen == BypassedZones(status)
              IN \A k \in ZonesAt(version) :
                   (k \in seen) = (k \in ask.op.target) /\ (k \in seen) = (k \in panel.bypassed)
                     => (k \in panel'.bypassed) = (k \in panel.bypassed)]_vars
  <2> SUFFICES ASSUME Exchange, Next, ask # None, ask.frame.cmd = Cmd.BYPASS, answer = <<>>,
                      answer' # <<>>
               PROVE  panel'.bypassed = ask.op.target
    OBVIOUS
  <2>1. PanelExecutes(version)
    BY DEF Next, Reading, ReadingDone, Installer, Operating, operateVars, OperateNext, SendArm,
           SendFence, SendRequest, SendPgm, SendBypass, SendDate, SendAuth, Send, TakeAnswer,
           PanelConnects, PanelMoves
  <2> QED
    BY <2>1, BypassIsMeant
<1> QED
  BY <1>1, ExchangeAlways, PTL DEF Spec, BypassKeepsOthers

-----------------------------------------------------------------------------
(* What a client learns from the programming it reads. *)

\* The numbers of the two regions that teach something.
LEMMA TwoRegions ==
  /\ "pgms" \in DOMAIN REGIONS /\ REGIONS["pgms"][1] = 447 /\ REGIONS["pgms"][2] = 65
  /\ "zone_options" \in DOMAIN REGIONS
  /\ REGIONS["zone_options"][1] = 1280 /\ REGIONS["zone_options"][2] = 9
BY DEF REGIONS, PGM_BASE, REGION_FLAG_SIZE, MAX_PGMS, PGM_RECORD_SIZE, GLOBAL_ZONE_OPTIONS_ADDRESS

\* Both are read in one request (plan_read).
LEMMA OneRequest ==
  /\ PlanRegion("pgms")[1].count = 65
  /\ PlanRegion("zone_options")[1].count = 9
<1>1. ASSUME NEW address, NEW length \in 1..112
      PROVE  PlanRead(address, length, 112)[1].count = length
  <2>1. (length + 112 - 1) \div 112 = 1
    OBVIOUS
  <2>2. 1 \in 1..((length + 112 - 1) \div 112) /\ (1 - 1) * 112 = 0
    BY <2>1
  <2>3. Least(112, length - (1 - 1) * 112) = length
    BY <2>2 DEF Least
  <2> QED
    BY <2>2, <2>3 DEF PlanRead, ReadRequest
<1> QED
  BY <1>1, TwoRegions DEF PlanRegion, MAX_READ

\* So the first block of such a region is all of it.
OneBlock ==
  job \in {"pgms", "zone_options"} =>
    IF gathered = <<>> THEN plan # <<>> => plan[1].count = REGIONS[job][2]
    ELSE gathered[1].count = REGIONS[job][2]

\* What a block says of the panel's programming names one that it had.
KpsAreVersions ==
  /\ wire # Idle => wire.checksum \in 1..Len(Image)
  /\ \A i \in DOMAIN gathered : gathered[i].checksum \in 1..Len(Image)

\* Every step of a reading keeps it.
LEMMA OneBlockKeeps == ASSUME ReadInv, OneBlock, [ReadNext]_readVars PROVE OneBlock'
<1>1. ASSUME NEW r \in DOMAIN REGIONS, StartRegion(r)
      PROVE  OneBlock'
  BY <1>1, OneRequest, TwoRegions DEF StartRegion, OneBlock
<1>2. ASSUME NEW w \in Windows, StartWindow(w)
      PROVE  OneBlock'
  BY <1>2 DEF StartWindow, OneBlock
<1>3. CASE TakeReply /\ DecodeProgramming(wire) # None
  <2> DEFINE b == DecodeProgramming(wire)
  <2>1. /\ b \in Blocks /\ plan # <<>> /\ gathered' = Append(gathered, b) /\ job' = job
        /\ plan' = Tail(plan)
    BY <1>3, TakeReplyKeeps
  <2>2. b.count = plan[1].count
    <3>1. /\ wire.address \in Int /\ wire.count \in Nat /\ wire.checksum \in Int
          /\ wire.rest \in Seq(Byte)
      BY <1>3 DEF ReadInv, ReplyIsMemory, TakeReply
    <3>2. b.count = wire.count
      BY <1>3, <3>1, DecodedBlock
    <3> QED
      BY <1>3, <3>2 DEF ReadInv, ReplyFits, TakeReply
  <2> HIDE DEF b
  <2>3. gathered \in Seq(Blocks)
    BY DEF ReadInv, ReadTypes
  <2>4. gathered' # <<>> /\ gathered'[1] = IF gathered = <<>> THEN b ELSE gathered[1]
    <3>1. /\ gathered' # <<>> /\ Len(gathered) \in Nat /\ Len(gathered') = Len(gathered) + 1
          /\ DOMAIN gathered = 1..Len(gathered)
          /\ \A i \in DOMAIN gathered : gathered'[i] = gathered[i]
          /\ gathered'[Len(gathered')] = b
      BY <2>1, <2>3, Appended
    <3>2. CASE gathered = <<>>
      BY <3>1, <3>2, EmptySeq
    <3>3. CASE gathered # <<>>
      <4>1. 1 \in DOMAIN gathered
        BY <2>3, <3>1, <3>3, EmptySeq
      <4> QED
        BY <3>1, <3>3, <4>1
    <3> QED
      BY <3>2, <3>3
  <2> QED
    BY <2>1, <2>2, <2>4 DEF OneBlock
<1>4. CASE ReadRefused \/ ReadDone
  BY <1>4, NoRegion, TwoRegions DEF ReadRefused, ReadDone, OneBlock
<1>5. CASE UNCHANGED <<job, plan, gathered>>
  BY <1>5 DEF OneBlock
<1> QED
  BY <1>1, <1>2, <1>3, <1>4, <1>5 DEF ReadNext, readVars, PanelReplies, TakeReply, Reprogram

\* And so it stays.
LEMMA KpsKeep == ASSUME ReadInv, KpsAreVersions, [ReadNext]_readVars PROVE KpsAreVersions'
<1>1. ASSUME NEW cut \in Cuts, NEW k \in Checksums, PanelReplies(cut, k)
      PROVE  KpsAreVersions'
  BY <1>1 DEF PanelReplies, KpsAreVersions, ReadInv, ReadTypes
<1>2. CASE TakeReply /\ DecodeProgramming(wire) # None
  <2> DEFINE b == DecodeProgramming(wire)
  <2>1. b \in Blocks /\ gathered' = Append(gathered, b) /\ wire' = Idle /\ wire # Idle
    BY <1>2, TakeReplyKeeps DEF TakeReply
  <2>2. b.checksum \in 1..Len(Image)
    <3>1. /\ wire.address \in Int /\ wire.count \in Nat /\ wire.checksum \in Int
          /\ wire.rest \in Seq(Byte)
      BY <1>2 DEF ReadInv, ReplyIsMemory, TakeReply
    <3>2. b.checksum = wire.checksum
      BY <1>2, <3>1, DecodedBlock
    <3> QED
      BY <2>1, <3>2 DEF KpsAreVersions
  <2> HIDE DEF b
  <2>3. gathered \in Seq(Blocks)
    BY DEF ReadInv, ReadTypes
  <2>4. /\ Len(gathered) \in Nat /\ Len(gathered') = Len(gathered) + 1
        /\ DOMAIN gathered = 1..Len(gathered) /\ DOMAIN gathered' = 1..(Len(gathered) + 1)
        /\ \A i \in DOMAIN gathered : gathered'[i] = gathered[i]
        /\ gathered'[Len(gathered')] = b
    BY <2>1, <2>3, Appended
  <2>5. ASSUME NEW i \in DOMAIN gathered'
        PROVE  gathered'[i].checksum \in 1..Len(Image)
    <3>1. CASE i \in DOMAIN gathered
      BY <2>4, <3>1 DEF KpsAreVersions
    <3>2. CASE i \notin DOMAIN gathered
      <4>1. i = Len(gathered')
        BY <2>4, <2>5, <3>2
      <4> QED
        BY <2>2, <2>4, <4>1
    <3> QED
      BY <3>1, <3>2
  <2> QED
    BY <2>1, <2>5 DEF KpsAreVersions
<1>3. CASE (gathered' = gathered \/ gathered' = <<>>) /\ (wire' = wire \/ wire' = Idle)
  BY <1>3 DEF KpsAreVersions
<1> QED
  BY <1>1, <1>2, <1>3 DEF ReadNext, readVars, StartRegion, StartWindow, ReadRefused, TakeReply,
                          ReadDone, Reprogram

\* Both hold of every reading.
LEMMA ReadingTeaches == ReadSpec => [](ReadInv /\ OneBlock /\ KpsAreVersions)
<1>1. ReadInit => OneBlock /\ KpsAreVersions
  BY NoRegion, TwoRegions DEF ReadInit, OneBlock, KpsAreVersions
<1>2. ReadInv /\ OneBlock /\ KpsAreVersions /\ [ReadNext]_readVars => (OneBlock /\ KpsAreVersions)'
  BY OneBlockKeeps, KpsKeep
<1> QED
  BY <1>1, <1>2, ReadInvAlways, PTL DEF ReadSpec

-----------------------------------------------------------------------------
(* What is parsed from the panel's own bytes.                                *)

\* A block's data are the panel's bytes from an address on.
IsMemory(data, v, address) ==
  /\ data \in Seq(Byte)
  /\ \A j \in 1..Len(data) : data[j] = Cell(v, address + j - 1)

\* Where the block holds a record whole, the record's bytes are the panel's
\* from the record's address on; elsewhere there is no record.
IsRecord(r, v, data, base, first, size) ==
  /\ base <= first /\ first + size <= base + Len(data) => r # <<>>
  /\ r # <<>> => /\ Len(r) = size
                /\ r \in Seq(Byte)
                /\ \A j \in 1..size : r[j] = Cell(v, first + j - 1)

\* What the parsers take is such a record.
LEMMA RecordOfMemory ==
  ASSUME NEW v, NEW data, NEW base \in Int, IsMemory(data, v, base),
         NEW table \in Int, NEW size \in Nat \ {0}, NEW n \in Nat \ {0},
         NEW first, first = table + (n - 1) * size
  PROVE  IsRecord(RecordAt(data, base, table, size, n - 1), v, data, base, first, size)
<1> DEFINE r == RecordAt(data, base, table, size, n - 1)
<1>1. n - 1 \in Nat /\ first \in Int /\ Len(data) \in Nat
  BY LenProperties DEF IsMemory
<1>2. IF base <= first /\ first + size <= base + Len(data)
        THEN Len(r) = size /\ \A j \in 1..size : r[j] = data[first - base + j]
        ELSE r = <<>>
  BY <1>1, RecordIsOwnBytes DEF IsMemory
<1>3. r \in Seq(Byte)
  <2>1. CASE r = <<>>
    BY <2>1, EmptySeq
  <2>2. CASE r # <<>>
    <3> DEFINE o == first - base
    <3>1. r = SubSeq(data, o + 1, o + size) /\ ~(o < 0) /\ ~(o + size > Len(data))
      BY <2>2 DEF RecordAt
    <3>2. o \in Int /\ o + 1 \in Int /\ o + size \in Int
      BY <1>1
    <3>3. ASSUME NEW k \in (o + 1)..(o + size)
          PROVE  data[k] \in Byte
      <4>1. k \in 1..Len(data)
        BY <1>1, <3>1, <3>2
      <4> QED
        BY <4>1, ElementOfSeq DEF IsMemory
    <3> HIDE DEF o
    <3>4. SubSeq(data, o + 1, o + size) \in Seq(Byte)
      BY <3>2, <3>3, SubSeqProperties
    <3> QED
      BY <3>1, <3>4
  <2> QED
    BY <2>1, <2>2
<1>4. ASSUME base <= first, first + size <= base + Len(data)
      PROVE  r # <<>>
  <2>1. Len(r) = size /\ size # 0
    BY <1>2, <1>4
  <2> QED
    BY <2>1, EmptySeq
<1>5. ASSUME r # <<>>, NEW j \in 1..size
      PROVE  r[j] = Cell(v, first + j - 1)
  <2>1. base <= first /\ first + size <= base + Len(data)
    BY <1>2, <1>5
  <2>2. first - base + j \in 1..Len(data) /\ base + (first - base + j) - 1 = first + j - 1
    BY <1>1, <2>1
  <2>3. r[j] = data[first - base + j]
    BY <1>2, <2>1
  <2>4. data[first - base + j] = Cell(v, base + (first - base + j) - 1)
    BY <2>2 DEF IsMemory
  <2> QED
    BY <2>2, <2>3, <2>4
<1>6. r # <<>> => Len(r) = size
  BY <1>2
<1> HIDE DEF r
<1>7. IsRecord(r, v, data, base, first, size)
  BY <1>3, <1>4, <1>5, <1>6 DEF IsRecord
<1> QED
  BY <1>7 DEF r

\* The outputs' records, from the region that holds them: each of the four is
\* there, and drives the fence exactly when its function byte says so.
LEMMA PgmsOfMemory ==
  ASSUME NEW v, NEW data, IsMemory(data, v, 447), Len(data) = 65
  PROVE  LET pgms == ParsePgms(data, 447)
         IN /\ DOMAIN pgms = 1..4
            /\ \A n \in 1..4 : DrivesFence(pgms[n].attributes)
                                <=> Cell(v, PgmAddress(n) + 14) \in {18, 25}
<1> DEFINE R(n) == RecordAt(data, 447, 448, 16, n - 1)
<1>1. ASSUME NEW n \in 1..4
      PROVE  R(n) # <<>> /\ Len(R(n)) = 16 /\ R(n) \in Seq(Byte)
             /\ R(n)[15] = Cell(v, PgmAddress(n) + 14)
  <2> DEFINE first == 448 + (n - 1) * 16
  <2>1. /\ 447 <= first /\ first + 16 <= 447 + Len(data)
        /\ first + 15 - 1 = PgmAddress(n) + 14 /\ 15 \in 1..16
    BY DEF PgmAddress, PGM_BASE, REGION_FLAG_SIZE, PGM_RECORD_SIZE
  <2>2. 447 \in Int /\ 448 \in Int /\ 16 \in Nat \ {0} /\ n \in Nat \ {0}
    OBVIOUS
  <2>3. IsRecord(R(n), v, data, 447, first, 16)
    BY <2>2, RecordOfMemory
  <2> HIDE DEF first, R
  <2>4. R(n) # <<>> /\ R(n)[15] = Cell(v, first + 15 - 1)
    BY <2>1, <2>3 DEF IsRecord
  <2> QED
    BY <2>1, <2>3, <2>4 DEF IsRecord
<1> HIDE DEF R
<1>2. ASSUME NEW r \in Seq(Byte), Len(r) = 16
      PROVE  DrivesFence(PgmRecord(r).attributes) <=> r[15] \in {18, 25}
  <2>5. r[15] \in Int
    <3>1. 15 \in 1..Len(r)
      BY <1>2
    <3>2. PICK x \in Byte : x = r[15]
      BY <3>1, ElementOfSeq
    <3> QED
      BY <3>2 DEF Byte
  <2>1. PgmRecord(r).attributes = SubSeq(r, 10, 16)
    BY <1>2 DEF PgmRecord, ZoneRecord, NAME_LENGTH
  <2> DEFINE a == SubSeq(r, 10, 16)
  <2>2. Len(a) = 7 /\ a[6] = r[15]
    BY <1>2
  <2> HIDE DEF a
  <2>3. Function(a) = IF r[15] \in 0..25 THEN r[15] ELSE None
    BY <2>2 DEF Function, PgmFunction
  <2>4. None \notin 0..25
    BY NoneAssumption DEF Byte
  <2>6. DrivesFence(a) <=> r[15] \in {18, 25}
    <3>1. CASE r[15] \in 0..25
      BY <2>3, <2>4, <3>1 DEF DrivesFence, FunctionDrivesFence
    <3>2. CASE r[15] \notin 0..25
      BY <2>3, <2>5, <3>2, SMTT(30) DEF DrivesFence
    <3> QED
      BY <3>1, <3>2
  <2> QED
    BY <2>1, <2>6 DEF a
<1>3. ParsePgms(data, 447) = [n \in {n \in 1..4 : R(n) # <<>>} |-> PgmRecord(R(n))]
  BY DEF ParsePgms, Held, PGM_BASE, REGION_FLAG_SIZE, PGM_RECORD_SIZE, MAX_PGMS, R
<1>4. {n \in 1..4 : R(n) # <<>>} = 1..4
  BY <1>1
<1>5. \A n \in 1..4 : DrivesFence(PgmRecord(R(n)).attributes)
                         <=> Cell(v, PgmAddress(n) + 14) \in {18, 25}
  BY <1>1, <1>2
<1>6. ParsePgms(data, 447) = [n \in 1..4 |-> PgmRecord(R(n))]
  BY <1>3, <1>4
<1> QED
  BY <1>5, <1>6

\* The option of zone doubling, from the region that holds it.
LEMMA OptionsOfMemory ==
  ASSUME NEW v, NEW data, IsMemory(data, v, 1280), Len(data) = 9
  PROVE  ParseGlobalZoneOptions(data, 1280).zone_doubling = Bit(Cell(v, 1287), 4)
<1>0. PICK n \in Nat \ {0}, m \in Nat \ {0}, table \in Int, base \in Int :
        n = 1 /\ m = 1 /\ table = 1287 /\ base = 1280
  OBVIOUS
<1>a. PICK first : first = table + (n - 1) * m
  OBVIOUS
<1> DEFINE r == RecordAt(data, base, table, m, n - 1)
<1>1. /\ base <= first /\ first + m <= base + Len(data) /\ 1 \in 1..m /\ first + 1 - 1 = 1287
  BY <1>0, <1>a
<1>2. IsRecord(r, v, data, base, first, m)
  <2>1. IsMemory(data, v, base)
    BY <1>0
  <2> QED
    BY <1>a, <2>1, RecordOfMemory
<1>3. RecordAt(data, 1280, 1287, 1, 0) = r
  BY <1>0
<1> HIDE DEF r
<1>4. r # <<>> /\ r[1] = Cell(v, 1287)
  BY <1>1, <1>2 DEF IsRecord
<1>5. ParseGlobalZoneOptions(data, 1280) = IF r = <<>> THEN None ELSE GlobalZoneOptions(r[1])
  BY <1>3 DEF ParseGlobalZoneOptions, GLOBAL_ZONE_OPTIONS_ADDRESS
<1> QED
  BY <1>4, <1>5 DEF GlobalZoneOptions

\* A set of numbers from 1 to 9 has a least and a greatest one.
LEMMA EndsOfASet ==
  ASSUME NEW S \in SUBSET (1..9), S # {}
  PROVE  /\ \E i \in S : \A j \in S : i <= j
         /\ \E i \in S : \A j \in S : j <= i
<1>1. ASSUME NEW T \in SUBSET (1..9), T # {}
      PROVE  \E i \in T : \A j \in T : i <= j
  <2> SUFFICES ASSUME \A i \in T : \E j \in T : j < i PROVE FALSE
    OBVIOUS
  <2>1. 1 \notin T
    OBVIOUS
  <2>2. 2 \notin T
    BY <2>1
  <2>3. 3 \notin T
    BY <2>1, <2>2
  <2>4. 4 \notin T
    BY <2>1, <2>2, <2>3
  <2>5. 5 \notin T
    BY <2>1, <2>2, <2>3, <2>4
  <2>6. 6 \notin T
    BY <2>1, <2>2, <2>3, <2>4, <2>5
  <2>7. 7 \notin T
    BY <2>1, <2>2, <2>3, <2>4, <2>5, <2>6
  <2>8. 8 \notin T
    BY <2>1, <2>2, <2>3, <2>4, <2>5, <2>6, <2>7
  <2>9. 9 \notin T
    BY <2>1, <2>2, <2>3, <2>4, <2>5, <2>6, <2>7, <2>8
  <2>a. PICK i \in T : i \in 1..9
    BY <1>1
  <2>b. i = 1 \/ i = 2 \/ i = 3 \/ i = 4 \/ i = 5 \/ i = 6 \/ i = 7 \/ i = 8 \/ i = 9
    BY <2>a
  <2> QED
    BY <2>1, <2>2, <2>3, <2>4, <2>5, <2>6, <2>7, <2>8, <2>9, <2>a, <2>b
<1> DEFINE T == {10 - i : i \in S}
<1>2. T \in SUBSET (1..9) /\ T # {}
  <2>1. \A i \in S : 10 - i \in 1..9
    OBVIOUS
  <2> QED
    BY <2>1
<1>3. PICK t \in T : \A j \in T : t <= j
  BY <1>1, <1>2
<1>4. PICK i \in S : t = 10 - i
  BY <1>3
<1>5. \A j \in S : j <= i
  <2> SUFFICES ASSUME NEW j \in S PROVE j <= i
    OBVIOUS
  <2>1. 10 - j \in T
    OBVIOUS
  <2>2. t <= 10 - j
    BY <1>3, <2>1
  <2> QED
    BY <1>4, <2>2
<1> QED
  BY <1>1, <1>5

\* The bytes of a name are among those it is decoded from.
LEMMA NameIsOfItsBytes ==
  ASSUME NEW r \in Seq(Byte), 9 <= Len(r),
         NEW k, k \in DOMAIN DecodeName(SubSeq(r, 1, 9))
  PROVE  \E j \in 1..9 : DecodeName(SubSeq(r, 1, 9))[k] = r[j]
<1> DEFINE data == SubSeq(r, 1, 9)
           pads == {i \in DOMAIN data : data[i] = NAME_PAD}
           length == IF pads = {} THEN Len(data)
                     ELSE (CHOOSE i \in pads : \A j \in pads : i <= j) - 1
           text == SubSeq(data, 1, length)
           solid == {i \in DOMAIN text : text[i] \notin Whitespace}
           from == CHOOSE i \in solid : \A j \in solid : i <= j
           to == CHOOSE i \in solid : \A j \in solid : j <= i
<1>1. /\ DOMAIN data = 1..9 /\ Len(data) = 9 /\ data \in Seq(Byte)
      /\ \A j \in 1..9 : data[j] = r[j]
  OBVIOUS
<1>2. DecodeName(data) = IF solid = {} THEN <<>> ELSE SubSeq(text, from, to)
  BY DEF DecodeName, Strip
<1> HIDE DEF data
<1>3. length \in 0..9
  <2>1. CASE pads = {}
    BY <1>1, <2>1
  <2>2. CASE pads # {}
    <3>1. pads \subseteq 1..9
      BY <1>1
    <3> HIDE DEF pads
    <3>2. (CHOOSE i \in pads : \A j \in pads : i <= j) \in 1..9
      BY <2>2, <3>1, EndsOfASet
    <3> QED
      BY <2>2, <3>2
  <2> QED
    BY <2>1, <2>2
<1> HIDE DEF length
<1>4. /\ DOMAIN text = 1..length /\ Len(text) = length /\ text \in Seq(Byte)
      /\ \A j \in 1..length : text[j] = r[j]
  BY <1>1, <1>3
<1> HIDE DEF text
<1>5. solid \subseteq 1..length /\ solid \subseteq 1..9
  BY <1>3, <1>4
<1> HIDE DEF solid
<1>6. solid # {}
  BY <1>2 DEF data
<1>7. from \in 1..length /\ to \in 1..length
  BY <1>5, <1>6, EndsOfASet
<1> HIDE DEF from, to
<1>8. k \in 1..(to - from + 1) /\ DecodeName(data)[k] = text[from + k - 1]
  <2>1. DecodeName(data) = SubSeq(text, from, to)
    BY <1>2, <1>6
  <2>2. \A i \in from..to : text[i] \in Byte
    <3>1. \A i \in 1..length : text[i] \in Byte
      BY <1>4, ElementOfSeq
    <3> QED
      BY <1>3, <1>7, <3>1
  <2>3. /\ Len(SubSeq(text, from, to)) = IF from <= to THEN to - from + 1 ELSE 0
        /\ SubSeq(text, from, to) \in Seq(Byte)
        /\ \A i \in 1..(to - from + 1) : SubSeq(text, from, to)[i] = text[from + i - 1]
    BY <1>3, <1>7, <2>2, SubSeqProperties
  <2>4. k \in 1..Len(SubSeq(text, from, to))
    BY <2>1, <2>3, LenProperties DEF data
  <2> QED
    BY <1>3, <1>7, <2>1, <2>3, <2>4
<1>9. from + k - 1 \in 1..length
  BY <1>3, <1>7, <1>8
<1> QED
  BY <1>3, <1>4, <1>8, <1>9 DEF data

-----------------------------------------------------------------------------
(* What was learned, and what the last status told.                          *)

\* What was learned of a region is what the region's bytes said while the panel
\* held the programming that it is filed under.
Knowledge ==
  /\ learned = [pgms |-> learned.pgms, options |-> learned.options]
  /\ learned.pgms # None =>
       \E data : /\ IsMemory(data, learned.pgms.version, 447) /\ Len(data) = 65
                 /\ learned.pgms.value = ParsePgms(data, 447)
  /\ learned.options # None =>
       \E data : /\ IsMemory(data, learned.options.version, 1280) /\ Len(data) = 9
                 /\ learned.options.value = ParseGlobalZoneOptions(data, 1280)

\* A region's first block is the region, as the panel had it.
LEMMA BlockIsRegion ==
  ASSUME ReadInv, OneBlock, BlocksHold, job \in {"pgms", "zone_options"}, gathered # <<>>
  PROVE  LET b == gathered[1]
         IN /\ b.address = REGIONS[job][1] /\ Len(b.data) = REGIONS[job][2]
            /\ IsMemory(b.data, b.checksum, b.address)
<1> DEFINE b == gathered[1]
<1>1. gathered \in Seq(Blocks)
  BY DEF ReadInv, ReadTypes
<1>2. 1 \in DOMAIN gathered /\ 1 \in 1..Len(gathered)
  <2>1. Len(gathered) \in Nat /\ DOMAIN gathered = 1..Len(gathered) /\ Len(gathered) # 0
    BY <1>1, EmptySeq, LenProperties
  <2> QED
    BY <2>1
<1>3. b \in Blocks
  BY <1>1, <1>2, ElementOfSeq
<1>4. b.data \in Seq(Byte) /\ DOMAIN b.data = 1..Len(b.data)
  BY <1>3, LenProperties DEF Blocks
<1>5. Len(b.data) = b.count /\ \A j \in DOMAIN b.data : b.data[j] = Cell(b.checksum, b.address + j - 1)
  BY <1>2 DEF BlocksHold
<1>6. b.count = REGIONS[job][2]
  BY DEF OneBlock
<1>7. b.address = REGIONS[job][1]
  BY <1>2, TwoRegions DEF ReadInv, RegionIsSplit, Base
<1> HIDE DEF b
<1> QED
  BY <1>4, <1>5, <1>6, <1>7 DEF IsMemory, b

\* Only the end of a reading teaches, and what it teaches is the region's.
LEMMA KnowledgeKeeps ==
  ASSUME ReadInv, OneBlock, BlocksHold, Knowledge, [Next]_vars
  PROVE  Knowledge'
<1>1. CASE UNCHANGED learned
  BY <1>1 DEF Knowledge, IsMemory, Cell
<1>2. CASE Learn
  <2> DEFINE b == gathered[1]
             told(value) == [version |-> b.checksum, value |-> value]
  <2>1. CASE job = "pgms" /\ gathered # <<>>
    <3>1. learned' = [learned EXCEPT !.pgms = told(ParsePgms(b.data, b.address))]
      BY <1>2, <2>1 DEF Learn
    <3>2. b.address = 447 /\ Len(b.data) = 65 /\ IsMemory(b.data, b.checksum, b.address)
      BY <2>1, BlockIsRegion, TwoRegions
    <3> QED
      BY <3>1, <3>2 DEF Knowledge
  <2>2. CASE job = "zone_options" /\ gathered # <<>>
    <3>1. learned' = [learned EXCEPT !.options = told(ParseGlobalZoneOptions(b.data, b.address))]
      BY <1>2, <2>2 DEF Learn
    <3>2. b.address = 1280 /\ Len(b.data) = 9 /\ IsMemory(b.data, b.checksum, b.address)
      BY <2>2, BlockIsRegion, TwoRegions
    <3> QED
      BY <3>1, <3>2 DEF Knowledge
  <2>3. CASE ~(job = "pgms" /\ gathered # <<>>) /\ ~(job = "zone_options" /\ gathered # <<>>)
    BY <1>1, <1>2, <2>3 DEF Learn
  <2> QED
    BY <2>1, <2>2, <2>3
<1> QED
  BY <1>1, <1>2 DEF Next, Reading, ReadingDone, Operating, Installer, vars

\* The client's status is what the panel was under one of its programmings.
StatusTells == status # None => \E p \in Panels, v \in DOMAIN Size : status = StatusView(p, v)

\* Each status frame is decoded as it was meant, and the others leave the status.
LEMMA StatusKeeps == ASSUME Exchange, StatusTells, [Next]_vars PROVE StatusTells'
<1>1. CASE UNCHANGED status
  BY <1>1 DEF StatusTells
<1>2. CASE TakeAnswer
  <2> DEFINE a == answer[1]
             packet == Decode(a.cmd, a.raw)
  <2>1. status' = IF a.cmd \in StatusCommands /\ packet # None THEN packet ELSE status
    BY <1>2 DEF TakeAnswer
  <2>2. AnswerOf(a)
    BY <1>2 DEF Exchange, TakeAnswer
  <2>3. CASE a.cmd \in StatusCommands
    <3>1. /\ a.panel \in Panels /\ a.version \in DOMAIN Size
          /\ a.raw = StatusFrame(a.panel, a.version, Size[a.version])
      BY <2>2, <2>3, CommandBytes DEF AnswerOf, StatusCommands
    <3>2. Size[a.version] \in Nat /\ Size[a.version] >= 123
      BY <3>1, OperateAssumption
    <3>3. packet = DecodeStatus(a.raw)
      BY <2>3, <3>1, StatusIsDecoded
    <3>4. packet = StatusView(a.panel, a.version)
      BY <3>1, <3>2, <3>3, StatusIsRead
    <3> HIDE DEF packet, a
    <3> QED
      BY <2>1, <2>3, <3>1, <3>4 DEF StatusTells
  <2>4. CASE a.cmd \notin StatusCommands
    BY <1>1, <2>1, <2>4
  <2> QED
    BY <2>3, <2>4
<1>3. CASE Operating
  <2>1. \A frame, op : Send(frame, op) => UNCHANGED status
    BY DEF Send
  <2> QED
    BY <1>1, <1>2, <1>3, <2>1 DEF Operating, OperateNext, SendArm, SendFence, SendRequest, SendPgm,
       SendBypass, SendDate, SendAuth, PanelExecutes, PanelConnects, PanelMoves
<1> QED
  BY <1>1, <1>3 DEF Next, Reading, ReadingDone, Installer, operateVars, vars

\* What a client knows and the bytes it has read, together.
Learning == ReadInv /\ OneBlock /\ KpsAreVersions /\ BlocksHold /\ Exchange /\ Knowledge /\ StatusTells

\* It always holds, where no reply lacks exactly its last byte.
LEMMA LearningAlways == 1 \notin Cuts => (Spec => []Learning)
<1> SUFFICES ASSUME 1 \notin Cuts PROVE Spec => []Learning
  OBVIOUS
<1>1. Spec => [](ReadInv /\ OneBlock /\ KpsAreVersions)
  BY ReadsLikeAReader, ReadingTeaches, PTL
<1>2. Spec => []BlocksHold
  BY ReadsLikeAReader, ReadingIsMemory, PTL
<1>3. Init => Knowledge /\ StatusTells
  BY DEF Init, OperateInit, Knowledge, StatusTells
<1>4. ReadInv /\ OneBlock /\ BlocksHold /\ Exchange /\ Knowledge /\ StatusTells /\ [Next]_vars
        => (Knowledge /\ StatusTells)'
  <2> SUFFICES ASSUME ReadInv, OneBlock, BlocksHold, Exchange, Knowledge, StatusTells, [Next]_vars
               PROVE  (Knowledge /\ StatusTells)'
    OBVIOUS
  <2>1. Knowledge'
    BY KnowledgeKeeps
  <2>2. StatusTells'
    BY StatusKeeps
  <2> QED
    BY <2>1, <2>2
<1> QED
  BY <1>1, <1>2, <1>3, <1>4, ExchangeAlways, PTL DEF Spec, Learning

-----------------------------------------------------------------------------
(* What the client concludes.                                                *)

\* The outputs that were read say which one drives the fence: where one does, it
\* is the one that is detected.
LEMMA FenceIsDetected ==
  ASSUME NEW v \in 1..Len(Image), NEW data, IsMemory(data, v, 447), Len(data) = 65,
         NEW n \in FencePgms[v]
  PROVE  /\ ParsePgms(data, 447) # None
         /\ DetectFencePgm(ParsePgms(data, 447)) = n /\ n \in 1..4
<1> DEFINE pgms == ParsePgms(data, 447)
<1>1. /\ DOMAIN pgms = 1..4
      /\ \A m \in 1..4 : DrivesFence(pgms[m].attributes) <=> Cell(v, PgmAddress(m) + 14) \in {18, 25}
  BY PgmsOfMemory
<1>2. data = [j \in 1..65 |-> Cell(v, PGM_BASE + j - 1)]
  <2>1. data = [j \in 1..Len(data) |-> data[j]]
    BY LenProperties DEF IsMemory
  <2> QED
    BY <2>1 DEF IsMemory, PGM_BASE
<1>3. pgms # None
  BY <1>2, NoneAssumption DEF PGM_BASE
<1> HIDE DEF pgms
<1>4. /\ FencePgms[v] = {m \in 1..4 : Cell(v, PgmAddress(m) + 14) \in {18, 25}}
      /\ \A l, m \in FencePgms[v] : l = m
  BY WiringAssumption DEF MAX_PGMS
<1>5. {m \in DOMAIN pgms : DrivesFence(pgms[m].attributes)} = {n}
  BY <1>1, <1>4
<1>6. DetectFencePgm(pgms) = n
  BY <1>4, <1>5 DEF DetectFencePgm
<1> QED
  BY <1>3, <1>4, <1>6 DEF pgms

\* While what was read is what the panel holds, the output that drives the fence is
\* kept from the client's switches, or reported as a conflict with the owner's
\* setting, whatever that is (drives_fence, fence_pgm_conflict).
THEOREM FenceIsGuarded == 1 \notin Cuts => (Spec => []FenceOutputIsGuarded)
<1>1. Learning => FenceOutputIsGuarded
  <2> SUFFICES ASSUME Learning, learned.pgms # None, learned.pgms.version = version,
                      NEW n \in FencePgms[version], NEW c \in Configured
               PROVE  PgmDrivesFence(caps, n, c) \/ FencePgmConflict(caps, c) = n
    BY DEF FenceOutputIsGuarded
  <2>1. version \in 1..Len(Image)
    BY DEF Learning, ReadInv, ReadTypes
  <2>2. PICK data : /\ IsMemory(data, version, 447) /\ Len(data) = 65
                    /\ learned.pgms.value = ParsePgms(data, 447)
    BY DEF Learning, Knowledge
  <2>3. /\ learned.pgms.value # None
        /\ DetectFencePgm(learned.pgms.value) = n /\ n \in 1..4
    BY <2>1, <2>2, FenceIsDetected
  <2>4. caps.detected_fence_pgm = n
    BY <2>3 DEF caps, Detect, Known
  <2>5. n # None
    BY <2>3, NoneAssumption DEF Byte
  <2> HIDE DEF caps
  <2> QED
    BY <2>4, <2>5 DEF PgmDrivesFence, EffectiveFencePgm, FencePgmConflict
<1> QED
  BY <1>1, LearningAlways, PTL

\* What _doubling_cap takes for granted where it halves: the model's zones are
\* two to a terminal.  Its docstring says so of the Active 32 Duo.
HalvesToTerminals ==
  LET zones == SpecFor(ModelByte).zones IN zones % 2 = 0 => zones = 2 * Terminals

\* While the options are not read, or say that zones are doubled, no zone is
\* beyond those that the client counts on.
SeenUnlessOff ==
  status # None /\ (learned.options = None \/ learned.options.value.zone_doubling # FALSE) =>
    \A n \in DOMAIN status.zones : n <= caps.zones

\* No zone of the last status is beyond the zones that the client counts on: on
\* every model unless doubling is known to be off; and then as well, while the
\* options are those of the status, on a model whose zones are two to a
\* terminal or an odd number (JflCapabilities.zones).
THEOREM EveryZoneIsSeen ==
  1 \notin Cuts =>
    /\ Spec => []SeenUnlessOff
    /\ HalvesToTerminals => (Spec => []NoZoneHidden)
<1>0. Learning => SeenUnlessOff
  <2> SUFFICES ASSUME Learning, status # None,
                      learned.options = None \/ learned.options.value.zone_doubling # FALSE,
                      NEW n \in DOMAIN status.zones
               PROVE  n <= caps.zones
    BY DEF SeenUnlessOff
  <2>1. PICK p \in Panels, v \in DOMAIN Size : status = StatusView(p, v)
    BY DEF Learning, StatusTells
  <2>2. DOMAIN status.zones = ZonesAt(v)
    BY <2>1 DEF StatusView, ZoneView
  <2> DEFINE zones == SpecFor(ModelByte).zones
             options == Known("options")
             doubling == IF options = None THEN None ELSE options.zone_doubling
  <2>3. caps.zones = IF doubling = FALSE /\ zones % 2 = 0 THEN zones \div 2 ELSE zones
    BY DEF caps, Detect, DoublingCap
  <2>4. doubling # FALSE
    BY NoneAssumption DEF Known
  <2> HIDE DEF doubling, zones
  <2>5. n \in 1..zones
    BY <2>2, ModelAssumption DEF ZonesAt, zones
  <2>6. caps.zones = zones
    BY <2>3, <2>4, Zenon
  <2> QED
    BY <2>5, <2>6
<1>1. ASSUME HalvesToTerminals PROVE Learning => NoZoneHidden
  <2> SUFFICES ASSUME Learning, status # None,
                      \/ learned.options = None
                      \/ status.checksum = <<0, learned.options.version>>,
                      NEW n \in DOMAIN status.zones
               PROVE  n <= caps.zones
    BY DEF NoZoneHidden
  <2>1. PICK p \in Panels, v \in DOMAIN Size : status = StatusView(p, v)
    BY DEF Learning, StatusTells
  <2>2. status.checksum = <<0, v>> /\ DOMAIN status.zones = ZonesAt(v)
    BY <2>1 DEF StatusView, ZoneView
  <2> DEFINE zones == SpecFor(ModelByte).zones
             options == Known("options")
             doubling == IF options = None THEN None ELSE options.zone_doubling
  <2>3. caps.zones = IF doubling = FALSE /\ zones % 2 = 0 THEN zones \div 2 ELSE zones
    BY DEF caps, Detect, DoublingCap
  <2> HIDE DEF doubling, zones
  <2>4. CASE doubling # FALSE \/ zones % 2 # 0
    <3>1. n \in 1..zones
      BY <2>2, ModelAssumption DEF ZonesAt, zones
    <3>2. caps.zones = zones
      BY <2>3, <2>4, Zenon
    <3> QED
      BY <3>1, <3>2
  <2>5. CASE doubling = FALSE /\ zones % 2 = 0
    <3>1. options # None /\ options.zone_doubling = FALSE
      BY <2>5, NoneAssumption DEF doubling
    <3>2. learned.options # None /\ options = learned.options.value
      BY <3>1 DEF Known
    <3>3. v = learned.options.version
      BY <2>2, <3>2
    <3>4. PICK data : /\ IsMemory(data, v, 1280) /\ Len(data) = 9
                      /\ learned.options.value = ParseGlobalZoneOptions(data, 1280)
      BY <3>2, <3>3 DEF Learning, Knowledge
    <3>5. Bit(Cell(v, 1287), 4) = FALSE
      BY <3>1, <3>2, <3>4, OptionsOfMemory
    <3>6. Doubling[v] = FALSE
      BY <3>5, WiringAssumption, MonitoringAssumption DEF GLOBAL_ZONE_OPTIONS_ADDRESS
    <3>7. n \in 1..Terminals /\ Terminals \in Nat
      BY <2>2, <3>6, ModelAssumption DEF ZonesAt
    <3>8. zones = 2 * Terminals
      BY <1>1, <2>5 DEF HalvesToTerminals, zones
    <3>9. zones \div 2 = Terminals
      BY <3>7, <3>8
    <3> QED
      BY <2>3, <2>5, <3>7, <3>9
  <2> QED
    BY <2>4, <2>5
<1>2. 1 \notin Cuts => (Spec => []SeenUnlessOff)
  BY <1>0, LearningAlways, PTL
<1>3. ASSUME HalvesToTerminals, 1 \notin Cuts PROVE Spec => []NoZoneHidden
  <2>1. Learning => NoZoneHidden
    BY <1>1, <1>3
  <2> QED
    BY <1>3, <2>1, LearningAlways, PTL
<1> QED
  BY <1>2, <1>3

\* The bytes that a user's record tells.
Told(u) == {u.name[k] : k \in DOMAIN u.name} \cup {u.attributes[k] : k \in DOMAIN u.attributes}

\* They are the record's bytes but the three of the code.
LEMMA UserIsOfItsBytes ==
  ASSUME NEW r \in Seq(Byte), Len(r) = 16, NEW x, x \in Told(UserRecord(r))
  PROVE  \E j \in 1..16 : (j <= 9 \/ 13 <= j) /\ x = r[j]
<1> DEFINE name == DecodeName(SubSeq(r, 1, 9))
           rest == SubSeq(r, 13, 16)
<1>1. UserRecord(r).name = name /\ UserRecord(r).attributes = rest
  BY DEF UserRecord, NAME_LENGTH
<1>2. DOMAIN rest = 1..4 /\ \A k \in 1..4 : rest[k] = r[12 + k]
  OBVIOUS
<1>0. 9 <= Len(r)
  OBVIOUS
<1>3. \A k \in DOMAIN name : \E j \in 1..9 : name[k] = r[j]
  BY <1>0, NameIsOfItsBytes
<1> HIDE DEF name, rest
<1>4. (\E k \in DOMAIN name : x = name[k]) \/ (\E k \in DOMAIN rest : x = rest[k])
  BY <1>1 DEF Told
<1>5. CASE \E k \in DOMAIN name : x = name[k]
  <2>1. PICK j \in 1..9 : x = r[j]
    BY <1>3, <1>5
  <2>2. j \in 1..16 /\ j <= 9
    OBVIOUS
  <2> QED
    BY <2>1, <2>2
<1>6. CASE \E k \in DOMAIN rest : x = rest[k]
  <2>1. PICK k \in 1..4 : x = r[12 + k]
    BY <1>2, <1>6
  <2>2. 12 + k \in 1..16 /\ 13 <= 12 + k
    OBVIOUS
  <2> QED
    BY <2>1, <2>2
<1> QED
  BY <1>4, <1>5, <1>6

\* The bytes of a user that are told are at none of the places of a code.
LEMMA ToldIsNoCode ==
  ASSUME NEW n \in 1..98, NEW m \in 1..98, NEW j \in 1..16, j <= 9 \/ 13 <= j
  PROVE  UserAddress(n) + j - 1 \notin (UserAddress(m) + 9)..(UserAddress(m) + 11)
<1>1. UserAddress(n) = 1408 + (n - 1) * 16 /\ UserAddress(m) = 1408 + (m - 1) * 16
  BY DEF UserAddress, USER_BASE, USER_RECORD_SIZE
<1> QED
  BY <1>1

\* A byte of an access code of programming v.
IsSecret(v, x) ==
  /\ x # NAME_PAD
  /\ \E i \in DOMAIN Settings[v].users :
       Settings[v].users[i].code # None /\ \E k \in 1..3 : Settings[v].users[i].code[k] = x

\* Found in the panel's memory, it is at one of those places.
LEMMA SecretHasAPlace ==
  ASSUME NEW v \in 1..Len(Image), NEW x, IsSecret(v, x), NEW a \in DOMAIN Image[v], Image[v][a] = x
  PROVE  \E m \in 1..98 : a \in (UserAddress(m) + 9)..(UserAddress(m) + 11)
<1>1. PICK i \in DOMAIN Settings[v].users :
        Settings[v].users[i].code # None /\ \E k \in 1..3 : Settings[v].users[i].code[k] = x
  BY DEF IsSecret
<1>2. PICK k \in 1..3 : Settings[v].users[i].code[k] = x
  BY <1>1
<1>3. Settings[v].users[i].code[k] # NAME_PAD
  BY <1>2 DEF IsSecret
<1>4. \A l \in 1..3, c \in DOMAIN Image[v] :
        Settings[v].users[i].code[l] # NAME_PAD /\ Image[v][c] = Settings[v].users[i].code[l]
          => \E m \in 1..98 : c \in (UserAddress(m) + 9)..(UserAddress(m) + 11)
  BY <1>1, CodesAssumption DEF MAX_USERS
<1> QED
  BY <1>2, <1>3, <1>4

\* The 16 bytes of the panel's memory from an address on.
AreBytesFrom(r, v, first) ==
  /\ r \in Seq(Byte) /\ Len(r) = 16
  /\ \A l \in 1..16 : r[l] = Cell(v, first + l - 1)

\* A user's record, from any bytes of the panel's memory, tells none of a code's.
LEMMA UserTellsNoCode ==
  ASSUME NEW v \in 1..Len(Image), NEW n \in 1..98,
         NEW r, AreBytesFrom(r, v, UserAddress(n)), NEW x, IsSecret(v, x)
  PROVE  x \notin Told(UserRecord(r))
<1> SUFFICES ASSUME x \in Told(UserRecord(r)) PROVE FALSE
  OBVIOUS
<1>1. PICK j \in 1..16 : (j <= 9 \/ 13 <= j) /\ x = r[j]
  <2>1. r \in Seq(Byte) /\ Len(r) = 16
    BY DEF AreBytesFrom
  <2> QED
    BY <2>1, UserIsOfItsBytes
<1>2. PICK a : a = UserAddress(n) + j - 1 /\ x = Cell(v, a)
  BY <1>1 DEF AreBytesFrom
<1>3. a \in DOMAIN Image[v] /\ Image[v][a] = x
  BY <1>2 DEF Cell, IsSecret
<1>4. PICK m \in 1..98 : a \in (UserAddress(m) + 9)..(UserAddress(m) + 11)
  BY <1>3, SecretHasAPlace
<1>5. UserAddress(n) + j - 1 \notin (UserAddress(m) + 9)..(UserAddress(m) + 11)
  BY <1>1, ToldIsNoCode
<1> QED
  BY <1>2, <1>4, <1>5

\* No byte of an access code gets into what the parsers return, from any block
\* of the panel's memory, wherever it starts and ends (parse_users).
THEOREM NoCodeIsTold == 1 \notin Cuts => (Spec => []CodesStayBehind)
<1>1. Learning => CodesStayBehind
  <2> SUFFICES ASSUME Learning, NEW b \in Newest,
                      NEW n \in DOMAIN ParseUsers(b.data, b.address),
                      NEW x, IsSecret(b.checksum, x)
               PROVE  x \notin Told(ParseUsers(b.data, b.address)[n])
    BY DEF CodesStayBehind, Told, IsSecret
  <2>1. PICK v : v = b.checksum
    OBVIOUS
  <2>2. /\ b \in Blocks /\ v \in 1..Len(Image)
        /\ \A j \in DOMAIN b.data : b.data[j] = Cell(v, b.address + j - 1)
    <3>1. gathered \in Seq(Blocks) /\ gathered # <<>> /\ b = gathered[Len(gathered)]
      BY DEF Newest, Learning, ReadInv, ReadTypes
    <3>2. Len(gathered) \in DOMAIN gathered /\ Len(gathered) \in 1..Len(gathered)
      <4>1. Len(gathered) \in Nat /\ DOMAIN gathered = 1..Len(gathered) /\ Len(gathered) # 0
        BY <3>1, EmptySeq, LenProperties
      <4> QED
        BY <4>1
    <3> QED
      BY <2>1, <3>1, <3>2, ElementOfSeq DEF Learning, KpsAreVersions, BlocksHold
  <2>3. IsMemory(b.data, v, b.address) /\ b.address \in Int
    <3>1. b.data \in Seq(Byte) /\ b.address \in Int
      BY <2>2 DEF Blocks
    <3> QED
      BY <2>2, <3>1, LenProperties DEF IsMemory
  <2> DEFINE r == RecordAt(b.data, b.address, 1408, 16, n - 1)
  <2>4. n \in 1..98 /\ r # <<>> /\ ParseUsers(b.data, b.address)[n] = UserRecord(r)
    BY DEF ParseUsers, Held, USER_BASE, USER_RECORD_SIZE, MAX_USERS
  <2>5. PICK first \in Int : first = 1408 + (n - 1) * 16 /\ first = UserAddress(n)
    BY <2>4 DEF UserAddress, USER_BASE, USER_RECORD_SIZE
  <2>6. IsRecord(r, v, b.data, b.address, first, 16)
    <3>1. 1408 \in Int /\ 16 \in Nat \ {0} /\ n \in Nat \ {0}
      BY <2>4
    <3> QED
      BY <2>3, <2>5, <3>1, RecordOfMemory
  <2> HIDE DEF r
  <2>7. AreBytesFrom(r, v, UserAddress(n))
    <3>1. IsRecord(r, v, b.data, b.address, UserAddress(n), 16)
      BY <2>5, <2>6
    <3> QED
      BY <2>4, <3>1 DEF IsRecord, AreBytesFrom
  <2>8. IsSecret(v, x) /\ v \in 1..Len(Image)
    BY <2>1, <2>2
  <2>9. x \notin Told(UserRecord(r))
    BY <2>4, <2>7, <2>8, UserTellsNoCode
  <2> QED
    BY <2>4, <2>9
<1> QED
  BY <1>1, LearningAlways, PTL
=============================================================================
