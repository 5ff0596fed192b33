------------------------------ MODULE ContactId ------------------------------
(***************************************************************************)
(* contact_id.py: what the codes of events mean.  A code's four digits are *)
(* a number here, and the texts of partition and subject likewise; what is *)
(* no number is None.                                                      *)
(***************************************************************************)
EXTENDS Integers, Sequences

\* The number that a text of decimal digits spells.  The constant None is the
\* extending module's, hence a parameter.
NumberOf(text, none) ==
  LET value[i \in 0..Len(text)] == IF i = 0 THEN 0 ELSE value[i - 1] * 10 + text[i] - 48
  IN IF text = <<>> \/ \E i \in DOMAIN text : text[i] \notin 48..57 THEN none
     ELSE value[Len(text)]

\* The troubles whose restore is the code 2000 above theirs.
PairedTroubles ==
  {1139, 1300, 1301, 1302, 1312, 1321, 1322, 1330, 1333, 1338, 1342, 1345, 1351, 1360, 1361,
   1362, 1363, 1364, 1366, 1369, 1370, 1381, 1384, 1391}
Tampers == {1137, 1346, 1383}
Restored(codes) == {c + 2000 : c \in codes}

\* The table by the kind of event that a code announces.
Kinds ==
  [alarm |-> {1130, 1134}, alarm_restore |-> Restored({1130, 1134}),
   arm |-> {3401, 3403, 3404, 3407, 3408, 3409, 3441, 3464},
   disarm |-> {1401, 1403, 1407, 1409},
   bypass |-> {1570, 1573},
   trouble |-> PairedTroubles \cup {1311}, tamper |-> Tampers,
   trouble_restore |-> Restored(PairedTroubles \cup Tampers),
   panic |-> 1120..1123, medical |-> {1100}, fire |-> {1110},
   test |-> {1602, 1611, 1612},
   system |-> {1305, 1306, 1410, 1412, 1417, 1419, 1421, 1422, 3422, 1429, 1430, 1627, 1628}]

Codes == UNION {Kinds[k] : k \in DOMAIN Kinds}

KindOf(code) == IF code \in Codes THEN CHOOSE k \in DOMAIN Kinds : code \in Kinds[k] ELSE "unknown"

ZoneCodes ==
  LET wired == {1130, 1134, 1137, 1139, 1370, 1381, 1383, 1384}
  IN wired \cup Restored(wired) \cup Kinds.bypass

UserCodes ==
  (Kinds.panic \cup Kinds.medical \cup Kinds.fire \cup Kinds.arm \cup Kinds.disarm
    \cup Kinds.system \cup Kinds.test) \ {1305, 1417, 1602}

\* Fault: whoever is not a zone is a user.
SubjectOrUser(code) == IF code \in ZoneCodes THEN "zone" ELSE "user"

SubjectOf(code) ==
  IF code \in ZoneCodes THEN "zone" ELSE IF code \in UserCodes THEN "user" ELSE "none"

\* The code that cancels a code, or 0.
RestoreOf(code) ==
  CASE code \in Kinds.alarm \cup PairedTroubles \cup Tampers \cup {1422} -> code + 2000
    [] code \in {3401, 3403, 3407, 3409} -> code - 2000
    [] code \in {1429, 1627} -> code + 1
    [] OTHER -> 0

\* The codes that bracket a condition of a zone which its nibble cannot keep.
ZONE_ALERTS == [low_battery |-> 1384, supervision |-> 1381, tamper |-> 1383]

\* The alert that a code sets or clears, as a set of at most one.
ZoneAlert(code) ==
  {a \in [alert : DOMAIN ZONE_ALERTS, sets : BOOLEAN] :
     code = ZONE_ALERTS[a.alert] + (IF a.sets THEN 0 ELSE 2000)}

FENCE_PARTITION_TEXT == 99
IsFence(partition) == partition = FENCE_PARTITION_TEXT

\* Fault: the partition is not looked at.
ClassifyCodeOnly(code, partition) == KindOf(code)

\* Four kinds have a name of their own for the fence; every other code means
\* for the fence what it means elsewhere.
FENCE_KINDS == [arm |-> "fence_arm", disarm |-> "fence_disarm", alarm |-> "fence_alarm",
                alarm_restore |-> "fence_alarm_restore"]
Classify(code, partition) ==
  IF IsFence(partition) /\ KindOf(code) \in DOMAIN FENCE_KINDS THEN FENCE_KINDS[KindOf(code)]
  ELSE KindOf(code)
=============================================================================
