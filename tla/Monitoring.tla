----------------------------- MODULE Monitoring -----------------------------
(***************************************************************************)
(* A client and its panel: it reads what it wants of the programming, then *)
(* it operates the panel, with what that reading and the last status told. *)
(* An installer may change the programming at any time.                    *)
(***************************************************************************)
EXTENDS ProgrammingRead, Operate, PanelMemory

CONSTANTS Settings,  \* what the installer set, for each version of the programming
          Terminals  \* to how many terminals the zones are wired, two to each with doubling

ASSUME MonitoringAssumption ==
  /\ Len(Settings) = Len(Image)
  /\ \A v \in 1..Len(Image) : Image[v] = Memory(Settings[v])
  /\ DOMAIN Size = 1..Len(Image) /\ DOMAIN Doubling = 1..Len(Image)

\* The installer sets what a panel's records can say; None is no level.
ASSUME SettingsAssumption ==
  /\ \A v \in 1..Len(Image) : Installable(Settings[v])
  /\ None \notin Levels \cup ZoneFlags

\* None is told apart from all that takes its place.
ASSUME NoneAssumption ==
  /\ None \notin Byte /\ None \notin BOOLEAN
  /\ \A v \in 1..Len(Image) :
       ParsePgms([j \in 1..65 |-> Cell(v, PGM_BASE + j - 1)], PGM_BASE) # None

\* A panel does what its programming says: an output drives the fence by its
\* function, which is the fifteenth byte of its record, and at most one does, as
\* _detect_fence_pgm takes for granted; zones are doubled by one bit.
ASSUME WiringAssumption ==
  \A v \in 1..Len(Image) :
    /\ FencePgms[v] = {n \in 1..MAX_PGMS : Cell(v, PgmAddress(n) + 14) \in {18, 25}}
    /\ \A m, n \in FencePgms[v] : m = n
    /\ Doubling[v] = Bit(Cell(v, GLOBAL_ZONE_OPTIONS_ADDRESS), 4)

\* It has no more zones than its model, and one to a terminal without doubling.
ASSUME ModelAssumption ==
  /\ Terminals \in Nat
  /\ Zones \subseteq 1..SpecFor(ModelByte).zones
  /\ Zones \ DoubledZones \subseteq 1..Terminals

\* Where a byte of an access code is found in the panel's memory, it is one of
\* an access code: so it can be told whether one comes out.
ASSUME CodesAssumption ==
  \A v \in 1..Len(Image) : \A n \in DOMAIN Settings[v].users :
    LET code == Settings[v].users[n].code
    IN code # None =>
         \A k \in 1..3, a \in DOMAIN Image[v] :
           code[k] # NAME_PAD /\ Image[v][a] = code[k] =>
             \E m \in 1..MAX_USERS : a \in (UserAddress(m) + 9)..(UserAddress(m) + 11)

VARIABLE learned \* what was read: pgms, options, each with its version; or None

vars == <<readVars, operateVars, learned>>

Init ==
  /\ ReadInit /\ OperateInit
  /\ learned = [pgms |-> None, options |-> None]

Known(part) == IF learned[part] = None THEN None ELSE learned[part].value
caps == Detect(SpecFor(ModelByte), status, Known("pgms"), Known("options"))

\* What a whole region taught; both regions below fit one block.
Learn ==
  LET b == gathered[1]
      told(value) == [version |-> b.checksum, value |-> value]
  IN learned' = CASE job = "pgms" /\ gathered # <<>> ->
                       [learned EXCEPT !.pgms = told(ParsePgms(b.data, b.address))]
                  [] job = "zone_options" /\ gathered # <<>> ->
                       [learned EXCEPT !.options = told(ParseGlobalZoneOptions(b.data, b.address))]
                  [] OTHER -> learned

\* Bound: no reading after the first command, and the two regions that teach
\* something are read once, in this order.
Reading ==
  /\ commands = 0 /\ answer = <<>>
  /\ \/ \E r \in DOMAIN REGIONS :
          /\ r = "pgms" => learned.pgms = None
          /\ r = "zone_options" => learned.pgms # None /\ learned.options = None
          /\ StartRegion(r)
     \/ \E w \in Windows : StartWindow(w)
     \/ \E cut \in Cuts, k \in Checksums : PanelReplies(cut, k)
     \/ ReadRefused \/ TakeReply
  /\ UNCHANGED <<operateVars, learned>>

ReadingDone == ReadDone /\ Learn /\ UNCHANGED operateVars

Operating ==
  /\ job = Idle /\ OperateNext(version, caps)
  /\ UNCHANGED <<readVars, learned>>

Installer == Reprogram /\ UNCHANGED <<operateVars, learned>>

Next == Reading \/ ReadingDone \/ Operating \/ Installer

Spec == Init /\ [][Next]_vars

-----------------------------------------------------------------------------
(* What the records of the settings tell, in the words of programming.py. *)

ZoneTold(r) ==
  LET a == r.attributes
      flags == {<<"bypass", AllowsBypass(a)>>, <<"pulsed", SirenPulsed(a)>>, <<"chime", Chime(a)>>,
                <<"open_door", OpenDoor(a)>>, <<"stay", Stay(a)>>, <<"smart", Smart(a)>>,
                <<"silent", Silent(a)>>, <<"auto", AutoBypass(a)>>}
      levels == [minimum |-> 8, medium |-> 16, maximum |-> 32]
  IN [name |-> r.name, type |-> ZoneTypeIndex(a), partitions |-> ZonePartitions(a),
      options |-> {f[1] : f \in {f \in flags : f[2]}},
      sensitivity |-> IF Sensitivity(a) = None THEN None
                      ELSE CHOOSE l \in DOMAIN levels : levels[l] = Sensitivity(a)]

PgmTold(r) ==
  LET a == r.attributes
  IN [name |-> r.name, on |-> OnAt(a), off |-> OffAt(a), seconds |-> DurationSeconds(a),
      function |-> Function(a)]

UserTold(r) ==
  LET p == UserPermissions(r.attributes)
      flags == {"disarm", "forced_arm", "bypass_zones", "remote_access", "operate_fence",
                "patrol", "schedule_tasks"}
  IN [name |-> r.name, has_code |-> r.has_code, may |-> {f \in flags : p[f]}, pgms |-> p.pgms,
      arms |-> p.arm_partitions]

UserSet(u) ==
  [name |-> u.name, has_code |-> u.code # None, may |-> u.may, pgms |-> u.pgms, arms |-> u.arms]

\* An interval with its unit, or None.
AutotestTold(t) ==
  IF t.autotest_interval = None THEN None
  ELSE <<t.autotest_interval, IF t.autotest_in_minutes THEN "minutes" ELSE "hours">>

OptionsTold(o) == {f \in DOMAIN o : o[f]}

\* A table's records in block b: those that are set tell what was set, and none
\* but the ones that it covers is there.
TableTells(parsed, set, b, Address(_), size, max, Told(_), Set(_)) ==
  /\ DOMAIN parsed = {n \in 1..max : Covers(b, Address(n), size)}
  /\ \A n \in DOMAIN parsed \cap DOMAIN set : Told(parsed[n]) = Set(set[n])

Tells(b, s) ==
  LET same(x) == x
      name(r) == r.name
      wireless(r) == [serial |-> r.serial, zone |-> r.zone]
      holiday(n) == 2 * (n - 1)
      timers == ParseTimers(b.data, b.address)
      options == ParseGlobalZoneOptions(b.data, b.address)
      autoArm == ParseAutoArmTime(b.data, b.address)
  IN /\ TableTells(ParseZones(b.data, b.address), s.zones, b, ZoneAddress, 16, 32, ZoneTold, same)
     /\ TableTells(ParsePgms(b.data, b.address), s.pgms, b, PgmAddress, 16, 4, PgmTold, same)
     /\ TableTells(ParseUsers(b.data, b.address), s.users, b, UserAddress, 16, 98, UserTold, UserSet)
     /\ TableTells(ParsePartitions(b.data, b.address), s.partition_names, b, PartitionAddress, 9, 4, name, same)
     /\ TableTells(ParseWireless(b.data, b.address), s.wireless, b, WirelessAddress, 8, 32, wireless, same)
     /\ TableTells(ParseHolidays(b.data, b.address), s.holidays, b, holiday, 2, 16, HolidayFormatted, same)
     /\ IF Covers(b, 288, 9)
          THEN /\ timers.timers = s.timers
               /\ AutotestTold(timers) = s.autotest
          ELSE timers = None
     /\ IF Covers(b, 1287, 1) THEN OptionsTold(options) = s.options ELSE options = None
     /\ IF Covers(b, 336, 2) THEN autoArm = s.auto_arm ELSE autoArm = None

-----------------------------------------------------------------------------
(* Invariants of the reading. *)

\* From any block, wherever it starts and ends, the parsers take the records
\* that it holds whole, and those say what the installer set; nothing is made
\* of the half of a record (parse_zones and its fellows).
RecordsTellTheSettings ==
  \A b \in Newest : Tells(b, Settings[b.checksum])

\* Where the panel's KP did not change between the reads of a region, their
\* blocks joined are one programming, and every record of it, though each read
\* took only a part (plan_region).
RegionIsASnapshot ==
  job \in DOMAIN REGIONS /\ plan = <<>> =>
    LET data == FlattenSeq([i \in DOMAIN gathered |-> gathered[i].data])
        whole == [address |-> REGIONS[job][1], count |-> Len(data), data |-> data]
        kps == {gathered[i].checksum : i \in DOMAIN gathered}
    IN \A v \in kps : kps = {v} => Tells(whole, Settings[v])

\* No byte of an access code gets into what the parsers return (parse_users).
CodesStayBehind ==
  \A b \in Newest :
    LET users == ParseUsers(b.data, b.address)
        set == Settings[b.checksum].users
        held(r) == {r.name[k] : k \in DOMAIN r.name} \cup {r.attributes[k] : k \in DOMAIN r.attributes}
    IN \A n \in DOMAIN users \cap DOMAIN set :
         set[n].code # None => \A k \in 1..3 : set[n].code[k] \notin held(users[n]) \ {NAME_PAD}

-----------------------------------------------------------------------------
(* Invariants of the operation. *)

\* What is decoded is what the panel was when it sent the frame, in each of
\* the frames' three orders of bits and on each of their lengths (decode).
AnswersTellThePanel ==
  answer # <<>> =>
    LET d == Decode(answer[1].cmd, answer[1].raw)
        p == answer[1].panel
    IN CASE answer[1].cmd \in StatusCommands -> d = StatusView(p, answer[1].version)
         [] answer[1].cmd \in {Cmd.MONITOR_STATUS, Cmd.CONNECTION} ->
              d.partitions = PartitionViews(p) /\ d.fence = FenceView(p.fence)
         [] answer[1].cmd = Cmd.LOGIN -> d.accepted
         [] answer[1].cmd = Cmd.READ_WIRELESS ->
              \A page \in 0..1 : ask.frame = BuildWirelessRead(page) => d = InventoryView(page)
         [] OTHER -> d \in {CommandAck.ACK, CommandAck.WRONG_PASSWORD, CommandAck.BLOCKED}

\* The panel reads from a command what the client meant by it: the zones, the
\* hour before the day, the fence as partition 99 (encode.py).
CommandsAreUnderstood == ask # None => Reads(ask.frame) = ask.op

\* Stopping at the first refusal keeps the panel from its lockout after five
\* (CommandResponse.locks_panel_out).
OneWrongPassword == panel.wrong <= 1

\* While what was read is what the panel holds, an output that switches the
\* fence is either kept from the client's switches or reported as a conflict
\* with the owner's setting (drives_fence, fence_pgm_conflict).
FenceOutputIsGuarded ==
  learned.pgms # None /\ learned.pgms.version = version =>
    \A n \in FencePgms[version], c \in Configured :
      PgmDrivesFence(caps, n, c) \/ FencePgmConflict(caps, c) = n

\* No zone that the panel reports is beyond the zones that the client counts
\* on, unless the programming was changed after the options were read
\* (JflCapabilities.zones).
NoZoneHidden ==
  status # None /\ (learned.options = None \/ status.checksum = <<0, learned.options.version>>) =>
    \A n \in DOMAIN status.zones : n <= caps.zones

-----------------------------------------------------------------------------
(* Action properties. *)

\* A bypass of one zone changes no other zone that the client's last status
\* still shows as the panel has it.  A bypass that somebody else made since is
\* lost: the command replaces the whole bitmap (build_bypass_bitmap).
BypassKeepsOthers ==
  [][ask # None /\ ask.frame.cmd = Cmd.BYPASS /\ answer = <<>> /\ answer' # <<>> =>
       LET seen == BypassedZones(status)
       IN \A k \in ZonesAt(version) :
            (k \in seen) = (k \in ask.op.target) /\ (k \in seen) = (k \in panel.bypassed)
              => (k \in panel'.bypassed) = (k \in panel.bypassed)]_vars
=============================================================================
