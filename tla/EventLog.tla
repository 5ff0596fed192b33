------------------------------ MODULE EventLog ------------------------------
(***************************************************************************)
(* A caller downloads the panel's event buffer, page by page, and makes    *)
(* out of it what is armed, in alarm or in trouble.  The buffer is a ring: *)
(* a record that the caller has not read yet may be overwritten, and a     *)
(* page may be lost on its way, after which the caller asks again.  The    *)
(* panel, its buffer and the caller are environment; what is between them  *)
(* is build_events_read, decode_events, decode_event and contact_id.py.    *)
(***************************************************************************)
EXTENDS Codec, ContactId, SequencesExt

CONSTANTS Happenings,  \* what may happen, as the first event, the second...
          Capacity,    \* how many records the ring holds
          PerPage,     \* how many records a request asks for
          FirstSerial, \* the serial of the first event
          MaxLosses    \* bound on the pages that get lost

-----------------------------------------------------------------------------
(* What the panel's codes say, from its manual and not from contact_id's     *)
(* tables.  A happening has a code, a partition, a subject, who that is, and *)
(* the thing that it changes, if any, with its new state.                    *)

Armings == {3401, 3403, 3404, 3407, 3408, 3409, 3441}
Disarmings == {1401, 1403, 1407, 1409}
ZoneAlarms == {1130, 1134}
SensorTroubles == [low_battery |-> 1384, supervision |-> 1381, tamper |-> 1383]
LastingTroubles == {1311}
ZoneTroubles == {1137, 1139, 1370}
PanelTroubles ==
  {1300, 1301, 1302, 1312, 1321, 1322, 1330, 1333, 1338, 1342, 1345, 1346, 1351, 1360, 1361,
   1362, 1363, 1364, 1366, 1369, 1391}

\* An auto-arming was put off: nothing is armed by it.
PutOff == 3464

\* The codes that change no thing a caller follows here, by their subject.
PassingCodes ==
  [user |-> {1100, 1110, 1120, 1121, 1122, 1123, 1306, 1410, 1412, 1419, 1421, 1422, 3422,
             1429, 1430, 1611, 1612, 1627, 1628, PutOff},
   zone |-> {1570, 1573}, none |-> {1305, 1417, 1602}]

\* A trouble's code, or that of its end, 2000 above.
Announces(h, trouble) == h.code = IF h.becomes THEN trouble ELSE trouble + 2000

Means(h) ==
  \/ /\ h.code \in (IF h.becomes THEN Armings ELSE Disarmings)
     /\ h.who = "user" /\ h.thing = <<"armed", h.partition>>
  \/ /\ \E c \in ZoneAlarms : Announces(h, c)
     /\ h.who = "zone"
     /\ h.thing = IF h.partition = 99 THEN <<"fence_alarm", 99>> ELSE <<"alarm", h.subject>>
  \/ \E t \in DOMAIN SensorTroubles :
       Announces(h, SensorTroubles[t]) /\ h.who = "zone" /\ h.thing = <<t, h.subject>>
  \/ \E c \in ZoneTroubles :
       Announces(h, c) /\ h.who = "zone" /\ h.thing = <<"trouble", c, h.subject>>
  \/ \E c \in PanelTroubles \cup LastingTroubles :
       /\ Announces(h, c) /\ h.who = "none" /\ h.thing = <<"trouble", c, 0>>
       /\ c \in LastingTroubles => h.becomes
  \/ h.thing = None /\ \E w \in DOMAIN PassingCodes : h.who = w /\ h.code \in PassingCodes[w]
  \/ h.thing = None /\ h.who = "none" /\ h.code \notin Codes

ASSUME EventLogAssumption ==
  /\ Capacity \in Nat \ {0} /\ PerPage \in 1..255
  /\ FirstSerial \in Nat \ {0} /\ MaxLosses \in Nat

\* Said without a number beyond TLC's.
FitsFourBytes(n) == n \div 2^24 <= 255

FourDigit == 0..9999

\* A code has four digits, a partition two, a subject is a byte; and the
\* serials stay below the one that marks a filled slot.
ASSUME HappeningsAssumption ==
  /\ Len(Happenings) \in Nat /\ Len(Happenings) <= 9999 /\ DOMAIN Happenings = 1..Len(Happenings)
  /\ FitsFourBytes(FirstSerial + Len(Happenings))
  /\ \A i \in DOMAIN Happenings : \A h \in Happenings[i] :
       /\ h.code \in FourDigit /\ h.partition \in 0..99 /\ h.subject \in 0..255
       /\ h.becomes \in BOOLEAN /\ Means(h)

\* None is told apart from the things.
ASSUME NoneIsNoThing ==
  /\ \A w \in {"armed", "alarm", "fence_alarm"} \cup DOMAIN SensorTroubles, n \in FourDigit :
       None # <<w, n>>
  /\ \A c \in FourDigit, n \in 0..255 : None # <<"trouble", c, n>>

VARIABLES
  log,     \* environment: all that has happened
  active,  \* environment: the things that are armed, in alarm or in trouble
  unread,  \* history: serials overwritten before the caller had them
  held,    \* the records that the caller has, in the order of their arrival
  cursor,  \* the highest serial it has, 0 before the first
  wire,    \* None, the request, or the reply
  losses   \* how many pages got lost

vars == <<log, active, unread, held, cursor, wire, losses>>

Init ==
  /\ log = <<>> /\ active = {} /\ unread = {}
  /\ held = <<>> /\ cursor = 0 /\ wire = None /\ losses = 0

Serial(i) == FirstSerial + i - 1
Newest == Serial(Len(log))
Oldest == Serial(IF Len(log) > Capacity THEN Len(log) - Capacity + 1 ELSE 1)

-----------------------------------------------------------------------------
(* The panel. *)

FenceByte ==
  (IF <<"armed", 99>> \in active' THEN 2 ELSE 1)
    + (IF <<"fence_alarm", 99>> \in active' THEN 128 ELSE 0)

Happen ==
  /\ Len(log) < Len(Happenings)
  /\ \E h \in Happenings[Len(log) + 1] :
       /\ h.thing # None => (h.thing \in active) # h.becomes
       /\ active' = IF h.thing = None THEN active
                    ELSE IF h.becomes THEN active \cup {h.thing} ELSE active \ {h.thing}
       /\ log' = Append(log, [what |-> h, fence |-> FenceByte])
  /\ unread' = IF Len(log) >= Capacity /\ Oldest > cursor THEN unread \cup {Oldest} ELSE unread
  /\ UNCHANGED <<held, cursor, wire, losses>>

Digit(n, place) == (n \div place) % 10
Digits4(n) == <<Digit(n, 1000), Digit(n, 100), Digit(n, 10), Digit(n, 1)>>
SerialBytes(n) == <<n \div 2^24, (n \div 2^16) % 256, (n \div 2^8) % 256, n % 256>>

NumberOfBytes(b) == ((b[1] * 256 + b[2]) * 256 + b[3]) * 256 + b[4]

\* The clock counts the events, so that it tells them apart.
Clock(i) == <<10, 12, 26, 0, i \div 100, i % 100>>

\* An event's record in the buffer, and its frame when it happened.
LogBytes(i) ==
  LET e == log[i].what
      code == Digits4(e.code)
  IN SerialBytes(Serial(i)) \o <<16 * code[1] + code[2], 16 * code[3] + code[4], e.subject, e.partition>>
     \o [k \in 1..6 |-> ToBcd(Clock(i)[k])]
LiveFrame(i) ==
  LET e == log[i].what
      text(digits) == [k \in DOMAIN digits |-> 48 + digits[k]]
      subject == SubSeq(Digits4(e.subject), 2, 4)
  IN <<123, 24, 1, Cmd.EVENT>> \o text(<<1, 2, 3, 4>>) \o text(Digits4(e.code))
     \o text(SubSeq(Digits4(e.partition), 3, 4)) \o text(subject)
     \o SerialBytes(Serial(i)) \o <<log[i].fence, 0, 85>>

\* Forward from the first record after the cursor that the ring still has.
PageFrame(after, perPage) ==
  LET kept == {i \in DOMAIN log : Serial(i) >= Oldest /\ Serial(i) > after}
      first == CHOOSE i \in kept : \A j \in kept : i <= j
      slot(k) == IF kept # {} /\ first + k - 1 \in kept THEN LogBytes(first + k - 1)
                 ELSE [b \in 1..14 |-> IF k % 2 = 0 THEN 0 ELSE 255]
  IN <<123, 7 + 14 * perPage, 1, Cmd.READ_EVENTS, perPage>>
     \o FlattenSeq([k \in 1..perPage |-> slot(k)]) \o <<85>>

PanelPages ==
  /\ wire # None /\ DOMAIN wire = {"cmd", "payload"}
  /\ LET p == wire.payload
     IN wire' = [raw |-> PageFrame(NumberOfBytes(Tail(p)), p[1])]
  /\ UNCHANGED <<log, active, unread, held, cursor, losses>>

-----------------------------------------------------------------------------
(* The caller. *)

AskPage ==
  /\ wire = None
  /\ wire' = BuildEventsRead(cursor, PerPage)
  /\ UNCHANGED <<log, active, unread, held, cursor, losses>>

TakePage ==
  /\ wire # None /\ DOMAIN wire = {"raw"}
  /\ LET page == Decode(Cmd.READ_EVENTS, wire.raw)
         serial(i) == NumberOfBytes(page[i].serial)
     IN /\ held' = held \o page
        /\ cursor' = IF page = <<>> THEN cursor ELSE serial(Len(page))
  /\ wire' = None
  /\ UNCHANGED <<log, active, unread, losses>>

\* The request or its reply is lost and the caller's wait times out.
LosePage ==
  /\ wire # None /\ losses < MaxLosses
  /\ wire' = None /\ losses' = losses + 1
  /\ UNCHANGED <<log, active, unread, held, cursor>>

Next == Happen \/ PanelPages \/ AskPage \/ TakePage \/ LosePage

\* The panel answers, and the caller goes on asking.
Fairness == WF_vars(AskPage) /\ WF_vars(PanelPages) /\ WF_vars(TakePage)

Spec == Init /\ [][Next]_vars /\ Fairness

-----------------------------------------------------------------------------
(* What a caller makes of the events: contact_id's functions say how. *)

CodeOfRecord(r) == NumberOf([k \in 1..4 |-> 48 + r.contact_id[k]], None)

Conclude(known, r) ==
  LET code == CodeOfRecord(r)
      kind == Classify(code, r.partition)
      alert == ZoneAlert(code)
      where == IF SubjectOf(code) = "zone" THEN r.subject ELSE 0
      set(thing, on) == IF on THEN known \cup {thing} ELSE known \ {thing}
  IN CASE kind \in {"arm", "disarm"} -> set(<<"armed", r.partition>>, kind = "arm")
       [] kind \in {"fence_arm", "fence_disarm"} -> set(<<"armed", 99>>, kind = "fence_arm")
       [] kind \in {"alarm", "alarm_restore"} -> set(<<"alarm", r.subject>>, kind = "alarm")
       [] kind \in {"fence_alarm", "fence_alarm_restore"} ->
            set(<<"fence_alarm", 99>>, kind = "fence_alarm")
       [] alert # {} -> LET a == CHOOSE a \in alert : TRUE IN set(<<a.alert, r.subject>>, a.sets)
       [] alert = {} /\ kind \in {"trouble", "tamper"} -> set(<<"trouble", code, where>>, TRUE)
       [] alert = {} /\ kind = "trouble_restore" ->
            known \ {t \in known : t[1] = "trouble" /\ RestoreOf(t[2]) = code /\ t[3] = where}
       [] OTHER -> known

\* From the records that it has, in their order.
Concluded ==
  LET known[i \in 0..Len(held)] == IF i = 0 THEN {} ELSE Conclude(known[i - 1], held[i])
  IN known[Len(held)]

-----------------------------------------------------------------------------
(* Invariants. *)

HeldSerials == {NumberOfBytes(held[i].serial) : i \in DOMAIN held}

\* The download is the log: in its order, nothing twice, whatever was lost or
\* happened between two pages; and what is missing below the cursor had been
\* overwritten (build_events_read's cursor, decode_events).
DownloadIsTheLog ==
  /\ \A i \in 1..(Len(held) - 1) :
       NumberOfBytes(held[i].serial) < NumberOfBytes(held[i + 1].serial)
  /\ \A i \in DOMAIN held :
       LET n == NumberOfBytes(held[i].serial) - FirstSerial + 1
       IN /\ n \in DOMAIN log
          /\ held[i].timestamp = Clock(n)
          /\ CodeOfRecord(held[i]) = log[n].what.code
  /\ (FirstSerial..cursor) \ HeldSerials \subseteq unread

\* All that a caller follows and that there is anything to say about, and the
\* events about a thing.
Things == (active \cup Concluded \cup {log[i].what.thing : i \in DOMAIN log}) \ {None}
About(t) == {i \in DOMAIN log : log[i].what.thing = t}

\* If the last event about a thing was downloaded, the caller concludes what is
\* so, and of what never happened it concludes nothing.
ReportIsTrue(t) ==
  LET last == CHOOSE i \in About(t) : \A j \in About(t) : j <= i
  IN IF About(t) = {} THEN t \notin Concluded
     ELSE Serial(last) \in HeldSerials => (t \in Concluded) = (t \in active)

\* The caller was told, after the last event about a thing, that its
\* auto-arming was put off.
PutOffSince(t) ==
  \E i \in DOMAIN log :
    /\ log[i].what.code = PutOff /\ t = <<"armed", log[i].what.partition>>
    /\ Serial(i) \in HeldSerials /\ \A j \in About(t) : j < i

\* About anything whose last event was downloaded the caller concludes what is
\* so, and of what never happened nothing: the fence is not taken for the
\* house, nor one zone's or sensor's restore for another's (classify,
\* subject_of, ZONE_ALERTS, ContactIdCode.restore).  Excepted is a partition
\* whose auto-arming was put off since: the table has that as an arming, and
\* whatever the partition is, the caller concludes that it is armed.
LastReportIsTrue ==
  \A t \in Things : IF PutOffSince(t) THEN t \in Concluded ELSE ReportIsTrue(t)

\* The frame that told an event when it happened says the same as its record:
\* the code, the partition, the subject and what that is; and the frame's own
\* byte about the fence agrees with them, unless an auto-arming was put off
\* (decode_event, subject_of).
LiveAgreesWithLog ==
  \A i \in DOMAIN held :
    LET n == NumberOfBytes(held[i].serial) - FirstSerial + 1
        live == DecodeEvent(LiveFrame(n))
        code == NumberOf(live.code, None)
        kind == Classify(code, NumberOf(live.partition, None))
    IN /\ code = CodeOfRecord(held[i])
       /\ kind = Classify(code, held[i].partition)
       /\ NumberOf(live.subject, None) = held[i].subject
       /\ SubjectOf(code) = log[n].what.who
       /\ kind \in {"fence_arm", "fence_disarm"} /\ code # PutOff => live.fence.armed = (kind = "fence_arm")
       /\ kind \in {"fence_alarm", "fence_alarm_restore"} => live.fence.triggered = (kind = "fence_alarm")

\* Paging forward reaches the newest record, and stays there (there is no
\* other way to it).
DownloadEnds == <>[](log # <<>> => cursor = Newest)
=============================================================================
