----------------------------- MODULE MCEventLog -----------------------------
(* The first event is of any code of the table, for zones, users, the fence *)
(* or nobody; later ones are those that keep, mix or cancel what is known.  *)
EXTENDS EventLog

Happening(code, partition, subject, who, thing, becomes) ==
  [code |-> code, partition |-> partition, subject |-> subject, who |-> who,
   thing |-> thing, becomes |-> becomes]

\* The house has the partition 1, the fence is partition 99.
ArmingsOf(p) ==
  {Happening(c, p, IF p = 99 THEN 99 ELSE 2, "user", <<"armed", p>>, c \in Armings)
     : c \in Armings \cup Disarmings}
MCArmings == ArmingsOf(1) \cup ArmingsOf(99)
MCAlarms ==
  {Happening(c, 1, 12, "zone", <<"alarm", 12>>, c < 2000) : c \in {1130, 3130}}
  \cup {Happening(c, 99, 0, "zone", <<"fence_alarm", 99>>, c < 2000) : c \in {1130, 3130}}
Sensor(zone) ==
  UNION {{Happening(1384 + r, 1, zone, "zone", <<"low_battery", zone>>, r = 0),
          Happening(1381 + r, 1, zone, "zone", <<"supervision", zone>>, r = 0),
          Happening(1383 + r, 1, zone, "zone", <<"tamper", zone>>, r = 0)}
         \cup {Happening(c + r, 1, zone, "zone", <<"trouble", c, zone>>, r = 0) : c \in ZoneTroubles}
         : r \in {0, 2000}}
MCTroubles ==
  UNION {{Happening(c + r, IF c = 1301 THEN 99 ELSE 1, 0, "none", <<"trouble", c, 0>>, r = 0)
            : c \in {1300, 1301, 1346}} : r \in {0, 2000}}
Others ==
  {Happening(c, 1, 7, "user", None, FALSE) : c \in {1123, 1421}}
  \cup {Happening(PutOff, p, IF p = 99 THEN 99 ELSE 2, "user", None, FALSE) : p \in {1, 99}}
  \cup {Happening(c, 1, 12, "zone", None, FALSE) : c \in {1570}}
  \cup {Happening(1999, 1, 200, "none", None, FALSE), Happening(1602, 1, 0, "none", None, FALSE)}

\* What ends what the first event began, and a few beginnings.
Ends == {h \in MCArmings \cup MCAlarms \cup Sensor(12) \cup MCTroubles : h.thing # None /\ ~h.becomes}
Few ==
  {h \in MCArmings : h.code \in {3407, 1401}}
  \cup {h \in Sensor(13) : h.code \in {1384, 3384, 1137, 3137}}
  \cup {h \in Others : h.code = PutOff /\ h.partition = 1}
Later == {h \in Few : h.subject = 13 => ~h.becomes}
Fewer == {h \in Few : h.partition = 1 /\ h.subject # 13}
MCHappenings ==
  <<MCArmings \cup MCAlarms \cup Sensor(12) \cup MCTroubles \cup Others, Ends \cup Few, Later, Fewer>>
=============================================================================
