---------------------------- MODULE MCMonitoring ----------------------------
(* A small installation, programmed twice.  The bytes of the access codes    *)
(* occur nowhere else in it.                                                 *)
EXTENDS Monitoring

Zone(name, type, options, partitions, sensitivity) ==
  [name |-> name, type |-> type, options |-> options, partitions |-> partitions,
   sensitivity |-> sensitivity]
Pgm(name, on, off, seconds, function) ==
  [name |-> name, on |-> on, off |-> off, seconds |-> seconds, function |-> function]
User(name, code, may, pgms, arms) ==
  [name |-> name, code |-> code, may |-> may, pgms |-> pgms, arms |-> arms]

Zone1 == Zone(<<67, 32, 225>>, 0, {"bypass", "stay"}, {1}, "medium")
Zone7 == Zone(<<>>, None, {}, {}, None)
Zone8 == Zone(<<68, 69, 70, 71, 72, 73, 74, 75, 76>>, 9, {"chime", "pulsed", "open_door"}, {2, 4}, "minimum")
Zone17 == Zone(<<80>>, 2, {"bypass", "smart", "silent", "auto"}, {1, 2}, "maximum")
Zone32 == Zone(<<90, 57>>, 4, {"bypass"}, {3}, None)

FirstSettings ==
  [partition_names |-> (1 :> <<67, 97>> @@ 4 :> <<>>),
   pgms |-> (1 :> Pgm(<<71, 49>>, <<17, 45>>, <<22, 0>>, 2, 11)
             @@ 2 :> Pgm(<<>>, <<0, 0>>, <<0, 0>>, 60, 12)
             @@ 4 :> Pgm(<<71, 52>>, <<0, 0>>, <<0, 0>>, 200 * 60, 18)),
   users |-> (1 :> User(<<65, 110>>, <<145, 146, 255>>, {"disarm", "operate_fence", "remote_access"}, {1, 4}, {1, 2})
              @@ 8 :> User(<<66>>, <<147, 148, 149>>, {"forced_arm", "bypass_zones", "patrol", "schedule_tasks"}, {2}, {4})
              @@ 9 :> User(<<>>, None, {}, {}, {})
              @@ 98 :> User(<<90>>, None, {"disarm"}, {3}, {3})),
   zones |-> (1 :> Zone1 @@ 7 :> Zone7 @@ 8 :> Zone8 @@ 17 :> Zone17 @@ 32 :> Zone32),
   wireless |-> (1 :> [serial |-> <<178, 5, 175, 42>>, zone |-> 14]
                 @@ 15 :> [serial |-> <<255, 255, 255, 255>>, zone |-> 255]
                 @@ 32 :> [serial |-> <<180, 0, 0, 1>>, zone |-> 1]),
   holidays |-> (1 :> <<1, 1>> @@ 8 :> <<25, 12>> @@ 16 :> <<31, 10>>),
   timers |-> <<45, 90, 55, 120, 7, 30, 2, None>>, autotest |-> <<120, "minutes">>,
   auto_arm |-> <<6, 30>>,
   options |-> {"zone_doubling", "end_of_line_resistor"}]

SecondSettings ==
  [FirstSettings EXCEPT
     !.partition_names[4] = <<71>>,
     !.pgms[4] = Pgm(<<71, 52>>, <<6, 0>>, <<7, 15>>, 1, 13),
     !.pgms[2] = Pgm(<<71, 50>>, <<0, 0>>, <<0, 0>>, 55, 25),
     !.users[8] = User(<<66, 66>>, <<150, 255, 255>>, {"disarm"}, {}, {}),
     !.zones[1] = [Zone1 EXCEPT !.type = None], !.zones[32] = [Zone32 EXCEPT !.name = <<>>],
     !.wireless[32].zone = 17, !.holidays[16] = <<9, 9>>,
     !.timers[8] = 20, !.autotest = <<24, "hours">>, !.auto_arm = None,
     !.options = {"siren_on_short", "wired_tamper"}]

MCSettings == <<FirstSettings, SecondSettings>>
MCImage == <<Memory(FirstSettings), Memory(SecondSettings)>>
MCFencePgms ==
  [v \in DOMAIN MCSettings |->
    {n \in DOMAIN MCSettings[v].pgms : MCSettings[v].pgms[n].function \in {18, 25}}]
MCDoubling == [v \in DOMAIN MCSettings |-> "zone_doubling" \in MCSettings[v].options]

\* Windows that begin and end inside records, the smallest and the largest,
\* and two that the protocol does not allow.
Window(address, count) == [address |-> address, count |-> count]
MCWindows ==
  {Window(4100, 43), Window(4207, 18), Window(1515, 22), Window(1280, 112), Window(500, 13),
   Window(6250, 14), Window(288, 9), Window(65535, 1), Window(0, 113), Window(65536, 1)}

Device(zone, open, low, repeater, signal) ==
  [serial |-> <<178, 0, 0, zone>>, zone |-> zone, firmware |-> <<4, 1>>, open |-> open,
   last_seen |-> <<9, 8, 26, 17, 19, 30>>, low_battery |-> low, repeater |-> repeater, signal |-> signal]
MCDevices ==
  [s \in {1, 2, 3, 4, 5, 6, 10, 11, 32} |-> Device(s, s = 10, s = 3, s % 2, s % 5)]

\* The frame grew with the firmware.
MCSize == <<123, 127>>
MCZoneEvents == {<<1, "OPEN">>, <<8, "LOW_BATTERY">>, <<17, "TRIGGERED">>}
MCTroubles == {0, 7, 8, 31}
MCCode == <<18, 52, 255>>
MCCodes == {<<1, 2, 3, 4>>, <<1, 2, 3, 4, 5, 6>>, <<1, 2, 3>>}
MCDates == {<<31, 12, 2026, 23, 59, 58>>, <<32, 12, 2026, 23, 59, 58>>, <<1, 1, 2000, 24, 0, 0>>}
=============================================================================
