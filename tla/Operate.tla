------------------------------ MODULE Operate ------------------------------
(***************************************************************************)
(* A client operates one panel: it asks for the status, builds commands    *)
(* and decodes the answers, while people use the keypad.  The panel is     *)
(* environment: it reads commands and writes frames as the protocol has    *)
(* been observed, byte by byte, in the same orders of bits.  One command   *)
(* is out at a time.                                                       *)
(***************************************************************************)
EXTENDS Capabilities, SequencesExt

CONSTANTS Zones,     \* the zones the panel has, of 1..100
          DoubledZones, \* those of them that it has only with zone doubling
          ZoneEvents, \* pairs of a zone and what it may become
          Partitions, Pgms, \* the ones that exist, of 1..16
          MayBypass, MayPgm, Troubles, \* what status frames grant and report
          Devices,   \* wireless devices: slot -> what the inventory tells of it
          Size,      \* environment: version -> the length of status frames
          ModelByte, Configured, \* the panel's model, what the owner may say drives the fence
          FencePgms, \* environment: version -> the outputs that drive the fence
          Doubling,  \* environment: version -> whether zones are doubled
          Code, Codes, \* the panel's password, those that users type
          Dates,     \* what the clock may be set to
          MaxCommands, MaxMoves \* bounds on commands and on the panel's own moves

\* A zone has a nibble in the status frame, a partition and an output a byte or
\* a bit.  The frame has grown with the firmware: the shortest observed has all
\* that is read of it.
ASSUME OperateAssumption ==
  /\ Zones \subseteq 1..100 /\ DoubledZones \subseteq Zones
  /\ Partitions \subseteq 1..16 /\ Pgms \subseteq 1..16
  /\ MayBypass \subseteq Zones /\ MayPgm \subseteq 1..16 /\ Troubles \subseteq ProblemFlag
  /\ ZoneEvents \subseteq Zones \X (DOMAIN ZoneStatus \ {"DISABLED"})
  /\ Dates \subseteq [1..6 -> Nat]
  /\ \A v \in DOMAIN Size : Size[v] \in Nat /\ Size[v] >= 123

\* A device has 16 bytes of the inventory; its slot is in the first of them,
\* where 0 and 255 are padding.
ASSUME DevicesAssumption ==
  /\ DOMAIN Devices \subseteq 1..254
  /\ \A s \in DOMAIN Devices :
       LET d == Devices[s]
       IN /\ d.serial \in [1..4 -> Byte] /\ d.zone \in Byte /\ d.firmware \in [1..2 -> 0..15]
          /\ d.open \in BOOLEAN /\ d.last_seen \in [1..6 -> 0..99] /\ d.low_battery \in BOOLEAN
          /\ d.repeater \in 0..15 /\ d.signal \in SignalQuality

VARIABLES
  panel,    \* environment: what the panel is
  ask,      \* the command that is out, what was meant by it and by whom; or None
  answer,   \* the frames on their way to the client, at most one, with the panel they tell of
  status,   \* the client's last PanelStatus, or None
  refused,  \* a password was refused: no more of those commands
  commands, moves \* how many of each there have been

operateVars == <<panel, ask, answer, status, refused, commands, moves>>

Partition(mode, alarm) == [mode |-> mode, alarm |-> alarm]

OperateInit ==
  /\ panel = [part |-> [i \in Partitions |-> Partition("disarmed", FALSE)],
              fence |-> Partition("disarmed", FALSE),
              zone |-> [n \in Zones |-> "CLOSED"],
              bypassed |-> {}, pgms |-> {}, clock |-> <<1, 1, 26, 0, 0, 0>>, wrong |-> 0]
  /\ ask = None /\ answer = <<>> /\ status = None /\ refused = FALSE
  /\ commands = 0 /\ moves = 0

-----------------------------------------------------------------------------
(* The panel's frames. *)

\* The sum of one weight for each member that is present.
Bits(present, weight) ==
  LET w(n) == IF n \in present THEN weight[n] ELSE 0
  IN w(1) + w(2) + w(3) + w(4) + w(5) + w(6) + w(7) + w(8)

Lsb == [n \in 1..8 |-> 2^(n - 1)]
Msb == [n \in 1..8 |-> 2^(8 - n)]

\* Members 8i+1 to 8i+8 of a set of numbers, as 1 to 8.
Octet(s, i) == {n \in 1..8 : 8 * i + n \in s}

ModeByte == [absent |-> 0, disarmed |-> 1, away |-> 2, stay |-> 3]
StateByte(s) == ModeByte[s.mode] + (IF s.alarm THEN 128 ELSE 0)
PartByte(p, i) == IF i \in Partitions THEN StateByte(p.part[i]) ELSE 0

\* The zones that exist while the panel's programming is version v.
ZonesAt(v) == IF Doubling[v] THEN Zones ELSE Zones \ DoubledZones

ZoneNibble(p, v, n) ==
  IF n \notin ZonesAt(v) THEN 0
  ELSE IF n \in p.bypassed THEN ZoneStatus.BYPASSED ELSE ZoneStatus[p.zone[n]]

\* 0x0B disarmed, 0x1F armed, in the capture.
PermissionByte(p, i) ==
  IF i \notin Partitions THEN 0 ELSE IF p.part[i].mode = "disarmed" THEN 11 ELSE 31

\* The byte at offset o of a status frame.
StatusByte(p, v, size, o) ==
  CASE o = 5 -> v
    [] o \in 6..11 -> ToBcd(p.clock[o - 5])
    [] o = 12 -> 180
    [] o = 13 -> Bits(Octet(p.pgms, 0), Lsb)
    [] o \in 14..29 -> PartByte(p, o - 13)
    [] o = 30 -> StateByte(p.fence)
    [] o \in 31..80 -> ZoneNibble(p, v, 2 * (o - 31) + 1) * 16 + ZoneNibble(p, v, 2 * (o - 31) + 2)
    [] o \in 81..85 -> Bits(Octet({t + 1 : t \in Troubles}, o - 81), Lsb)
    [] o = 86 -> IF p.fence.mode = "disarmed" THEN 8 ELSE 1
    [] o = 87 -> Bits(Octet(MayPgm, 0), Lsb)
    [] o \in 88..103 -> PermissionByte(p, o - 87)
    [] o \in 104..116 -> Bits(Octet(MayBypass, o - 104), Lsb)
    [] o = 117 -> Bits(Octet(p.pgms, 1), Lsb)
    [] o = 118 -> Bits(Octet(MayPgm, 1), Lsb)
    [] o = 120 -> IF p.fence.alarm THEN 1 ELSE 0
    [] OTHER -> IF o = size - 1 THEN 85 ELSE 0

StatusFrame(p, v, size) == [i \in 1..size |-> StatusByte(p, v, size, i - 1)]

\* A frame with a fence byte at offset fence and 16 partitions after it.
StateFrameByte(p, size, fence, count, o) ==
  CASE o = fence -> StateByte(p.fence)
    [] o \in (fence + 1)..(fence + 16) -> PartByte(p, o - fence)
    [] o = count -> Cardinality(Partitions)
    [] size = 102 /\ o \in 4..13 -> 48 + (o - 4)
    [] size = 102 /\ o = 41 -> ModelByte
    [] OTHER -> 85

StateFrame(p, size, fence, count) ==
  [i \in 1..size |-> StateFrameByte(p, size, fence, count, i - 1)]

\* Eight devices a page, the enrolled ones only in the order of their slots,
\* and padding.
DeviceBytes(slot) ==
  LET d == Devices[slot]
  IN <<slot, d.serial[1], d.serial[2], d.serial[3], d.serial[4], d.zone,
       d.firmware[1] * 16 + d.firmware[2], IF d.open THEN 1 ELSE 0,
       ToBcd(d.last_seen[1]), ToBcd(d.last_seen[2]), ToBcd(d.last_seen[3]),
       ToBcd(d.last_seen[4]), ToBcd(d.last_seen[5]), ToBcd(d.last_seen[6]),
       IF d.low_battery THEN 1 ELSE 0, d.repeater * 16 + d.signal>>
Rank(slot) == Cardinality({s \in DOMAIN Devices : s < slot})
DeviceRecord(rank) ==
  LET here == {s \in DOMAIN Devices : Rank(s) = rank}
  IN IF here = {} THEN [k \in 1..16 |-> 255] ELSE DeviceBytes(CHOOSE s \in here : TRUE)
InventoryFrame(page) ==
  [i \in 1..134 |->
     IF i <= 5 THEN <<123, 134, 1, Cmd.READ_WIRELESS, 8>>[i]
     ELSE IF i = 134 THEN 85
     ELSE DeviceRecord(8 * page + (i - 6) \div 16)[((i - 6) % 16) + 1]]

LoginFrame(payload) ==
  [i \in 1..53 |-> IF i = 9 THEN (IF SubSeq(payload, 1, 3) = <<255, 255, 255>> THEN 1 ELSE 0)
                   ELSE IF i \in 12..20 THEN 36 + i ELSE 255]

ConnectionFrame(p) == StateFrame(p, 102, 84, 51)
MonitorFrame(p) == StateFrame(p, 57, 39, 6)

\* What those frames ought to tell, said without bytes.
PartitionView(s) ==
  [programmed |-> s.mode # "absent", armed_stay |-> s.mode = "stay",
   armed_away |-> s.mode = "away", armed |-> s.mode \in {"away", "stay"},
   disarmed |-> s.mode = "disarmed", triggered |-> s.alarm]
PartitionViews(p) ==
  [i \in 1..16 |-> PartitionView(IF i \in Partitions THEN p.part[i] ELSE Partition("absent", FALSE))]
FenceView(s) ==
  [present |-> s.mode # "absent", armed |-> s.mode = "away", disarmed |-> s.mode = "disarmed",
   triggered |-> s.alarm, ready |-> TRUE]
ZoneView(p, v) ==
  [n \in ZonesAt(v) |->
    [status |-> IF n \in p.bypassed THEN ZoneStatus.BYPASSED ELSE ZoneStatus[p.zone[n]],
     may_bypass |-> n \in MayBypass]]
PermissionView(p, i) ==
  LET armed == i \in Partitions /\ p.part[i].mode # "disarmed"
  IN [disarm |-> i \in Partitions, arm |-> i \in Partitions, arm_stay |-> armed,
      arm_away |-> i \in Partitions, ready |-> armed]
StatusView(p, v) ==
  [clock |-> p.clock, checksum |-> <<0, v>>, battery |-> 180,
   pgms |-> p.pgms, pgm_permissions |-> MayPgm,
   partitions |-> PartitionViews(p),
   partition_permissions |-> [i \in 1..16 |-> PermissionView(p, i)],
   fence |-> FenceView(p.fence),
   fence_permissions |-> [disarm |-> p.fence.mode # "disarmed", arm |-> p.fence.mode = "disarmed"],
   zones |-> ZoneView(p, v), problems |-> Troubles,
   siren |-> IF p.fence.alarm THEN 1 ELSE 0, updating |-> FALSE]

DeviceView(d) ==
  [serial |-> d.serial, zone |-> d.zone, open |-> d.open, last_seen |-> d.last_seen,
   repeater |-> d.repeater, link |-> d.signal, signal |-> d.signal, firmware |-> d.firmware,
   low_battery |-> d.low_battery]
InventoryView(page) ==
  {[slot |-> s, device |-> DeviceView(Devices[s])] : s \in {s \in DOMAIN Devices : Rank(s) \div 8 = page}}

-----------------------------------------------------------------------------
(* What commands do to a panel: ops is what a client means. *)

Op(kind, target) == [kind |-> kind, target |-> target]
Area(target) == IF target = FENCE_PARTITION THEN "fence" ELSE "part"

SetMode(p, target, mode) ==
  IF Area(target) = "fence" THEN [p EXCEPT !.fence.mode = mode]
  ELSE IF target \in Partitions THEN [p EXCEPT !.part[target].mode = mode] ELSE p

Meant(p, op) ==
  CASE op.kind \in {"arm", "away"} -> SetMode(p, op.target, "away")
    [] op.kind = "stay" -> SetMode(p, op.target, "stay")
    [] op.kind = "disarm" -> SetMode(p, op.target, "disarmed")
    [] op.kind = "pgm_on" -> [p EXCEPT !.pgms = @ \cup {op.target}]
    [] op.kind = "pgm_off" -> [p EXCEPT !.pgms = @ \ {op.target}]
    [] op.kind = "clock" -> [p EXCEPT !.clock = op.target]
    [] op.kind = "bypass" -> [p EXCEPT !.bypassed = op.target]
    [] op.kind = "bypass_one" -> [p EXCEPT !.bypassed = @ \cup {op.target}]
    [] OTHER -> p

\* How the panel reads a frame: as an operation, whose target is in payload.
KindOf ==
  [c \in {Cmd.ARM, Cmd.ARM_AWAY, Cmd.ARM_STAY, Cmd.DISARM, Cmd.PGM_ON, Cmd.PGM_OFF} |->
     CASE c = Cmd.ARM -> "arm" [] c = Cmd.ARM_AWAY -> "away" [] c = Cmd.ARM_STAY -> "stay"
       [] c = Cmd.DISARM -> "disarm" [] c = Cmd.PGM_ON -> "pgm_on" [] c = Cmd.PGM_OFF -> "pgm_off"]
FromBcd(b) == ((b \div 16) * 10) + (b % 16)
Reads(f) ==
  CASE f.cmd \in DOMAIN KindOf -> Op(KindOf[f.cmd], f.payload[1])
    [] f.cmd = Cmd.SET_DATETIME ->
         Op("clock", [i \in 1..6 |-> FromBcd(f.payload[<<4, 5, 6, 1, 2, 3>>[i]])])
    [] f.cmd = Cmd.BYPASS ->
         Op("bypass", {n \in 1..104 : (f.payload[((n - 1) \div 8) + 1] \div Msb[((n - 1) % 8) + 1]) % 2 = 1})
    [] f.cmd = Cmd.AUTH /\ f.payload[2] = AuthFunc.ARM_DISARM ->
         Op(IF f.payload[6] = 1 THEN "arm" ELSE "disarm", f.payload[7])
    [] f.cmd = Cmd.AUTH /\ f.payload[2] = AuthFunc.PGM ->
         Op(IF f.payload[6] = 1 THEN "pgm_on" ELSE "pgm_off", f.payload[7])
    [] f.cmd = Cmd.AUTH /\ f.payload[2] = AuthFunc.BYPASS -> Op("bypass_one", f.payload[7])
    [] OTHER -> Op("none", 0)

-----------------------------------------------------------------------------
(* The client. *)

Send(frame, op) ==
  /\ ask = None /\ answer = <<>> /\ commands < MaxCommands
  /\ ask' = [frame |-> frame, op |-> op]
  /\ commands' = commands + 1
  /\ UNCHANGED <<panel, answer, status, refused, moves>>

SendArm(target) ==
  \/ Send(BuildArm(target), Op("arm", target))
  \/ Send(BuildDisarm(target), Op("disarm", target))
  \/ Send(BuildArmStay(target), Op("stay", target))
  \/ Send(BuildArmAway(target), Op("away", target))

SendFence ==
  \/ Send(BuildFenceArm(None), Op("arm", FENCE_PARTITION))
  \/ Send(BuildFenceDisarm(None), Op("disarm", FENCE_PARTITION))

\* An output that drives the fence is no ordinary switch.
SendPgm(caps, n) ==
  /\ \E c \in Configured : ~PgmDrivesFence(caps, n, c)
  /\ \/ Send(BuildPgmOn(n), Op("pgm_on", n))
     \/ Send(BuildPgmOff(n), Op("pgm_off", n))

\* 0x52 replaces the whole bitmap: one zone is changed in the set of the last
\* status.
SendBypass(n) ==
  /\ status # None
  /\ LET before == BypassedZones(status)
         after == (before \ {n}) \cup ({n} \ before)
     IN Send(BuildBypassBitmap(after), Op("bypass", after))

SendDate(t) ==
  DateOk(t) /\ Send(BuildSetDatetime(t), Op("clock", [t EXCEPT ![3] = @ % 100]))

SendAuth(digits) ==
  /\ ~refused /\ PasswordOk(digits)
  /\ \/ Send(BuildFenceArm(digits), Op("arm", FENCE_PARTITION))
     \/ Send(BuildFenceDisarm(digits), Op("disarm", FENCE_PARTITION))
     \/ \E i \in Partitions, arm \in BOOLEAN :
          Send(BuildAuthArm(digits, i, arm), Op(IF arm THEN "arm" ELSE "disarm", i))
     \/ \E n \in Pgms, on \in BOOLEAN :
          Send(BuildAuthPgm(digits, n, on), Op(IF on THEN "pgm_on" ELSE "pgm_off", n))
     \/ \E n \in Zones : Send(BuildAuthBypass(digits, n), Op("bypass_one", n))

SendRequest ==
  \E f \in {BuildStatusRequest, BuildMonitorStatusRequest, BuildLogin}
            \cup {BuildWirelessRead(page) : page \in 0..1} :
    Send(f, Op("none", 0))

AckFrame(ack) == <<123, 8, 1, Cmd.AUTH, 3, 192, ack, 85>>

\* A panel looks at the password before it looks at the command, and at no
\* password once it has refused five.
RightPassword(p, f) == SubSeq(f.payload, 3, 5) = Code /\ p.wrong < 5

AckTo(f, p) ==
  IF p.wrong = 5 THEN CommandAck.BLOCKED
  ELSE IF RightPassword(p, f) THEN CommandAck.ACK ELSE CommandAck.WRONG_PASSWORD

Executed(p, f) ==
  IF f.cmd = Cmd.AUTH => RightPassword(p, f) THEN Meant(p, Reads(f))
  ELSE [p EXCEPT !.wrong = Least(p.wrong + 1, 5)]

\* The answer to f from a panel that was p and is q.
AnswerFrame(f, p, q, v) ==
  CASE f.cmd = Cmd.AUTH -> AckFrame(AckTo(f, p))
    [] f.cmd = Cmd.MONITOR_STATUS -> MonitorFrame(q)
    [] f.cmd = Cmd.READ_WIRELESS -> InventoryFrame(f.payload[2])
    [] f.cmd = Cmd.LOGIN -> LoginFrame(f.payload)
    [] OTHER -> StatusFrame(q, v, Size[v])

\* The panel carries out the command and answers.  A status answer shows the
\* panel at once, before what the command sets off has happened.
PanelExecutes(v) ==
  /\ ask # None /\ answer = <<>>
  /\ LET f == ask.frame
         after == Executed(panel, f)
     IN /\ panel' = after
        /\ answer' = <<[cmd |-> f.cmd, raw |-> AnswerFrame(f, panel, after, v), panel |-> after,
                        version |-> v]>>
  /\ UNCHANGED <<ask, status, refused, commands, moves>>

\* decode() and what the client keeps of it.
TakeAnswer ==
  /\ answer # <<>>
  /\ answer' = <<>> /\ ask' = None
  /\ LET packet == Decode(answer[1].cmd, answer[1].raw)
     IN /\ status' = IF answer[1].cmd \in StatusCommands /\ packet # None THEN packet ELSE status
        /\ refused' = (refused \/ (answer[1].cmd = Cmd.AUTH /\ packet # None /\ LocksPanelOut(packet)))
  /\ UNCHANGED <<panel, commands, moves>>

\* The panel dials in again and introduces itself.
PanelConnects(v) ==
  /\ ask = None /\ answer = <<>>
  /\ answer' = <<[cmd |-> Cmd.CONNECTION, raw |-> ConnectionFrame(panel), panel |-> panel, version |-> v]>>
  /\ UNCHANGED <<panel, ask, status, refused, commands, moves>>

\* Somebody at the panel, or nobody: a zone changes, a zone is bypassed at the
\* keypad, an intrusion begins or ends.  Bound: not before the first command.
PanelMoves ==
  /\ 0 < commands /\ moves < MaxMoves /\ moves' = moves + 1
  /\ \/ \E e \in ZoneEvents : panel' = [panel EXCEPT !.zone[e[1]] = e[2]]
     \/ \E n \in Zones : panel' = [panel EXCEPT !.bypassed = (@ \ {n}) \cup ({n} \ @)]
     \/ \E i \in Partitions : panel' = [panel EXCEPT !.part[i].alarm = ~@]
     \/ panel' = [panel EXCEPT !.fence.alarm = ~@]
  /\ UNCHANGED <<ask, answer, status, refused, commands>>

OperateNext(v, caps) ==
  \/ \E i \in Partitions : SendArm(i)
  \/ SendFence \/ SendRequest
  \/ \E n \in Pgms : SendPgm(caps, n)
  \/ \E n \in Zones : SendBypass(n)
  \/ \E t \in Dates : SendDate(t)
  \/ \E digits \in Codes : SendAuth(digits)
  \/ PanelExecutes(v)
  \/ TakeAnswer \/ PanelConnects(v) \/ PanelMoves
=============================================================================
