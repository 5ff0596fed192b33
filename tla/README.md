# A verification of pyjfl

pyjfl is the codec and the transport of JFL alarm panels: an asyncio TCP
listener that the panels dial in to, and the functions that turn frames into
records and back. This directory models its listener, its connections, its
stream reader, its codec and what a client does with them, checks the models
with TLC and proves their core with TLAPS.

## The system

| component (source) | state | operations | talks to | hard behaviour |
|---|---|---|---|---|
| `JflServer` (transport.py) | `_connections`, `_known`, `_pending_panels`, `_links`, the listening socket | start, stop, accept a socket, configure known serials, announce a new panel | creates connections and links; the owner calls it | stop against sockets that are just being accepted; configuration that changes between two awaits of a handshake |
| `JflPanelLink` (transport.py) | `_connection`, `info`, the listeners | bind, unbind, fan out packets, six kinds of request | called by connections (bind, unbind, packets) and by the owner (requests) | outlives its sockets; a panel that redials has two of them |
| `_PanelConnection`, life of a socket | `_closing`, `link`, the stream pair, the write lock | read, consume, acknowledge, identify, shut down | drives `FrameReader`, calls the link and the server | one coroutine per socket, interleaved at every await; losses, watchdog, listeners that raise |
| `_PanelConnection`, requests | `_tx`, four tables of futures, `Seq` | send and wait, resolve, transmit, cancel | callers through the link, replies from the panel | timeouts, late answers, byte wrap, shutdown |
| `FrameReader` (frames.py) | the buffer, the first-byte flag, two counters | feed, reset | called by `_consume` | frames cut anywhere, noise, phantoms |
| `build_frame`, builders, `Password` (frames.py, encode.py) | none | arguments to bytes | the link's builders; the panel reads them | ranges, BCD, bit order, a bitmap that replaces all zones |
| decode, models (decode.py, models.py) | none | bytes to records | `_handle_frame`, the owner | three bit orders, nibbles, frames of several lengths, truncated replies |
| programming (programming.py) | none | address map, read plans, record parsers | callers of `0x44` reads | region limits, blocks that cut records, programming that changes between reads |
| contact_id (contact_id.py) | none | what an event code means | decode, the owner | the fence under the house's codes, pairs of alert and restore |
| capabilities (capabilities.py) | none | what a panel can do | models, status and programming, any of them missing or out of date | which output drives the fence, how many zones there are |
| the event buffer (`0x48`) | the caller's cursor | page forward | encode, decode, contact_id | a ring that is written while it is read |
| `check_port_available`, `scripts/release.py`, package exports | none | I/O, tooling | - | - |

What makes each part correct:

* **links and connections**: the bound socket is being served and carries that
  panel; every other socket of the panel is going away; availability, as
  announced, is the truth; only the end of the bound socket ends availability;
  `info`, which a listener told of a panel may not find yet, is there once the
  panel's introduction has been answered.
* **events**: the panel stops repeating an event when it hears the
  acknowledgement, so an acknowledgement commits the listener to deliver.
* **stop and watchdog**: everything that was told to close, or was abandoned by
  its panel, ends, and `async_stop` returns unless it missed a socket.
* **requests**: a caller gets its own answer or none; nobody waits for an answer
  that cannot come; the tables do not grow; a refused frame is never sent.
* **codec**: what is decoded is what the panel was, what the panel reads is what
  the client meant, on every length of frame that panels send.
* **programming**: a block is the panel's bytes, a region is read once and whole,
  the parsers take whole records only and say what the installer set, and no byte
  of an access code comes out.
* **operation**: bypassing a zone leaves the others as they were; a client that
  obeys the first refusal is never locked out; an output that drives the fence is
  guarded; no zone is hidden.
* **events in the buffer**: the download is the log, and what is concluded from it
  is so.
* **reader**: no byte is lost or counted twice, nothing but frames comes out,
  genuine frames come out, memory is bounded and every call returns.

## Modules

| module | models | built on |
|---|---|---|
| `Transport` | the listener, the links and the coroutine of every socket, with the panels and the network as environment | - |
| `EventReport` | abstract: what the acknowledgement of an event promises | implemented by `Transport` (`Report`, whose `taken` are the events that a coroutine has in hand and whose `risked` are those acknowledged on a socket being closed) |
| `TransportProofs` | theorems: who is bound, who is closing, what was announced; acknowledged events, and the refinement of `EventReport` | `Transport` |
| `Requests` | the requests of one connection | - |
| `RequestsProofs` | theorems | `Requests` |
| `FrameReader` | the reader, one turn of its loops per step | - |
| `FrameReaderProofs` | theorems | `FrameReader` |
| `Programming` | programming.py: addresses, records, timers, plans; operators | - |
| `ProgrammingRead` | a caller, its plan, and a panel that is reprogrammed and whose replies may be short | `Programming` |
| `ProgrammingProofs` | theorems | `ProgrammingRead` |
| `Codec` | encode.py, decode.py and the derived states of models.py; operators | `Programming` |
| `Capabilities` | capabilities.py and the table of models; operators | `Codec` |
| `Operate` | a client that operates a panel, byte by byte in both directions | `Capabilities` |
| `PanelMemory` | external: the bytes in which a panel keeps what an installer sets | `Programming` |
| `Monitoring` | composition: the client reads the programming, then operates with what it learned | `ProgrammingRead`, `Operate`, `PanelMemory` |
| `CodecProofs` | lemmas: recursive functions, joined sequences, slices, text | `Codec` |
| `MonitoringProofs` | theorems: the status frame, commands, answers, passwords, bypass; the fence output, the zone count, the access codes | `Monitoring`, `ProgrammingProofs`, `CodecProofs` |
| `SettingsProofs` | theorems: what the parsers say of the installer's settings, from any block and from a region | `MonitoringProofs` |
| `ContactId` | contact_id.py; operators | - |
| `EventLog` | the download of the event buffer and what follows from it | `Codec`, `ContactId` |
| `EventLogProofs` | theorems: the download, what is concluded from it, the event's own frame | `EventLog`, `CodecProofs` |
| `MCTransport`, `MCRequests`, `MCFrameReader`, `MCMonitoring`, `MCEventLog` | instances for TLC | |

Definitions whose comment begins with `Fault:` are faulty versions of the
definition that follows them; they take its place only to show that a property
can fail, and belong to no specification.

### Transport

asyncio runs one coroutine at a time between two awaits. `pc[c]` is the await,
or the place between two awaits, at which the coroutine of socket `c` is, and
`loop` names the coroutine that runs; all other steps need `loop = NoConn`. So a
statement sequence without an await is atomic, and an await is a point where
everything else may happen: `reader.read` (`reading`), the write lock (`lock`),
`drain` (`drain`; `drained` once its frame is out), the cancelled transmit task
(`shutdown`) and `wait_closed` (`closing`). `accepted` is a socket that the
listener has accepted and whose `_on_client` task has not run yet.

| variables | code |
|---|---|
| `srv`, `conns`, `known`, `pendingPanels` | `JflServer._server` with the progress of `async_stop`, `_connections`, `_known`, `_pending_panels` |
| `bound`, `info`, `avail`, `delivered` | `JflPanelLink._connection`, `.info`; what the availability and the packet listeners were told |
| `pc`, `loop`, `reply`, `chunk`, `link`, `closing` | the coroutine, the frame it is writing, the frames it has from `feed`, `.link`, `._closing` |
| `sock`, `inbox`, `unsent`, `acks` | the transport: its state, what the stream reader holds, what the write buffer holds, what reached the wire |
| `dialler`, `cur`, `confirmed` | the panels |
| `late` | history: events whose acknowledgement was written to a transport being closed |

Actions are the segments between awaits, with every call they make: `Identify*`,
for instance, includes `bind` with its closing of the previous socket and its
announcement, and `Shutdown` includes `unbind` and `forget`. A frame is a kind
and, for an event, its number. Taken for granted: one serial per socket, the
stream reader keeps what arrived before a close, TCP delivers or fails.

A link's listeners are called in turn (`NotifyAvailability`, `FanOut`), and
`avail` and `delivered` say of each what it was told. One that raises
(`Raising`) keeps the call from those registered after it and ends the
coroutine's read loop, as any exception out of `_handle_frame` does; out of
`unbind` it also skips `forget`. So what is claimed of listeners is claimed of
those with none before them that may raise (`Reached`): it does not hold of the
others.

The transport is asyncio's. After `close()` it keeps its socket until its buffer
has gone out (`Gone`), and while there is something in the buffer it takes what
is written (`WriteFrame`, for a coroutine that waited for the lock meanwhile);
once it is gone it drops what is written. In both cases `drain` may raise. An
event that is acknowledged in this way is in `late`, and what is claimed of
acknowledged events is claimed of the others.

Left out as data:
`last_seen`, `last_status`, `address`, the ring buffer of raw frames, the
contents of acknowledgements, keep-alive minutes. What the transmit task writes
appears as the lock and the full buffer that an acknowledgement may have to wait
for; its queue is in `Requests`.

### Requests

The four tables are one function, `pending`, over slots: (table, sequence byte)
for `0x37`, `0x59` and `0x48`, selectors for `0x44`. A call is `waiting`, then
`answered`, `expired` or `cancelled` while its caller has not run yet, then
`done`: between the two its future is finished and its `finally` clause has not
popped its key. `Overlap` says whether callers may use a key in use;
`WaitingIsRegistered` and `HandedToWhoeverAsked` are claimed for callers that do
not (the run `selector` shows why), `AnswerIsOwn` for all callers.

### FrameReader

`Feed(n)` is the entry of `feed` with `n` more bytes of a fixed stream, and the
turns of the loops of `feed` and `_take_one` are the other actions, until
`Finish`. A stream comes with the genuine frames in it and the places where they
begin. `Framed` says that they stand there, one after the other. `Quiet` says that the
first byte is no foreign header and that a valid frame begins nowhere else, unless
inside a genuine one that ends before it: such a head is passed when the genuine frame is
taken. Header bytes in noise or frames do no harm otherwise. Bytes run from 0 to
`MaxByte`, and the checksum is any predicate, so that the proofs do not depend on it and
TLC uses the code's XOR on three-bit bytes. `refused` and `framed` only count, for
`Conserved`.

### Programming, ProgrammingRead, Codec, Capabilities

A block of bytes is a sequence over 0..255; a list of numbered records is a
function on their numbers, `None` is Python's, the empty time the empty sequence.
Record fields are functions of a record's attribute bytes, with the masks and the
guards against short records of the code. A frame is its raw bytes, from the
header at offset 0, as `Frame.byte` and `Frame.slice` take them; a frame to the
panel is its command byte and payload. Left out: labels and descriptions, IMEI,
MAC, hardware version, accounts, sequence bytes.

`ProgrammingRead`: `plan` holds the requests still to make, `gathered` the blocks
of this job, `wire` the reply on its way, `version` which programming the panel
holds, told by the KP in each reply. `PanelReplies(cut, k)` is a reply that lacks
`cut` of its bytes and ends in checksum `k`; one that decodes to an
`UnknownPacket` leaves the caller to its timeout, and it asks again. A reply
never answers another caller's selector: that is `Requests`.

### Operate and Monitoring

`Operate` is a client with one command out at a time (`ask`), a panel that reads
the command's bytes and writes the answer's (`answer`), the client's last
`status`, and `refused`, the flag that `locks_panel_out` asks its caller to keep.
The panel is environment and is written from the protocol as the code's comments
and captures describe it, not from the decoder: it holds a state without bytes
(`Meant` says what an operation does to it) and turns it into bytes with its own
sums of bits. `SendBypass` is the read-modify-write that `bypassed_zones` exists
for. `PanelMoves` are the people at the keypad.

`Monitoring` joins it with `ProgrammingRead`: `learned` is what the whole regions
of outputs and zone options taught, with the version that they were read at, and
`caps` is `JflCapabilities.detect` of the model byte, the last status and what
was learned. `PanelMemory` builds the image from an installer's settings with
addresses and bits written out a second time, so that `RecordsTellTheSettings` compares
two independent accounts. `Installable` is what an installer may set, which is what the
records have room for: names of up to nine bytes without the pad byte and without white space
at either end, which `decode_name` strips (`Whitespace` is what `str.strip` takes of
Latin-1), a pulse of up to 55 seconds or of whole minutes up to 200, timers below 255
or none. Two settings have the bytes of an unset one and are left out: an autotest every
127 minutes (255) and automatic arming at midnight (`00 00`).

### ContactId and EventLog

Codes are numbers. `EventLog` has the ring, which keeps the last `Capacity` of
the events that happened (`log`), the caller's records and cursor, and one page
on the wire; `Concluded` folds the downloaded events with `classify`,
`zone_alert` and `restore` into what is armed, in alarm or in trouble, and is
compared with what is (`active`). `unread` remembers the records that were
overwritten before the caller could have them.

What a code means is written out a second time here, too: `Means` says which happening
changes which thing (`Armings`, `Disarmings`, `ZoneAlarms`, `SensorTroubles`,
`PanelTroubles`, `LastingTroubles`, `PassingCodes`), in the numbers of the panel's manual
and not through contact_id's table, so that a slip in that table does not hide. Partition
99 is the fence: its alarm is `fence_alarm`, its arming `armed` 99. Three troubles are of
one zone though `ZONE_ALERTS` does not pair them (`ZoneTroubles`: 1137, 1139, 1370): a caller
tells them apart by `subject_of`, as `Conclude` does. 3464, "Auto-arm deferred", arms nothing
(`PutOff`), but `classify` has it as an arming: of the partition that a downloaded 3464 names
after its last event `LastReportIsTrue` says that it is concluded to be armed, whatever it is.

## Runs

| run | instance | shows |
|---|---|---|
| `sockets` | 1 panel, 3 sockets, inbox 1, 3 listeners of which the second may raise, stop and restart | `TypeOK`, `BoundIsServed`, `OthersAreClosing`, `AvailabilityIsTrue`, `UnregisteredIsClosing`, `OnlyOwnShutdownDetaches` |
| `report` | 1 panel, 2 sockets, 2 events, one undecodable, 3 listeners of which the second may raise | `AckedReachesListeners`; `Transport` implements `EventReport` |
| `live` | 1 panel, 2 sockets, policy reject, configuration changes, a listener that may raise, fairness | `NoInfoOnlyInHandshake`, `PendingIsUnknown`; `ClosingEnds`, `AbandonedEnds`, `StopReturnsIfNoneMissed` |
| `calls` | 3 calls, 2 sequence bytes, 1 selector | `WaitingIsRegistered`, `EntriesAreLive`, `AnswerIsOwn`, `RefusedIsNotSent`, `HandedToWhoeverAsked`, `LateAnswerIgnored` |
| `calls_end` | 2 calls, keys may be reused, fairness | `EveryCallEnds` |
| `frames` | two frames of 3 to 5 bytes with up to two bytes of noise, header bytes included, between them, or one behind noise: 5817 streams, of which 5691 are quiet, 2562 of these with a header byte in the noise; and every stream of up to 5 bytes over 5 values and up to 7 over the header and two lengths; in every cut | `Conserved`, `LessThanAFrame`, `OnlyFramesComeOut`, `FeedReturns`; on the quiet streams, `ExactlyTheFrames` |
| `monitor` | every region and ten windows, two programmings, replies short of 0, 2 or 9 bytes; then 2 commands and 1 move at the panel | `BlocksAreMemory`, `RecordsTellTheSettings`, `RegionIsContiguous`, `RegionIsASnapshot`, `CodesStayBehind`; `AnswersTellThePanel`, `CommandsAreUnderstood`, `OneWrongPassword`, `FenceOutputIsGuarded`, `NoZoneHidden`, `BypassKeepsOthers` |
| `eventlog` | 4 events, the first an arming or disarming by any code, an alarm, a trouble or a code that changes nothing, a ring of 3, pages of 2, serials across 2^16, 1 loss | `DownloadIsTheLog`, `LastReportIsTrue`, `LiveAgreesWithLog`, `DownloadEnds` |
| `rebind`, `stop`, `selector`, `truncated` | small | statements of the documentation that the code does not keep, below |

Why the bounds are enough. Three sockets are the bound one, its predecessor and
one more that redials while the predecessor is still shutting down; a fourth
would repeat the role of the third. One frame in the inbox beside what the
coroutine holds in `chunk` lets a frame arrive at every await; `Dial` puts a first frame
there without regard to the bound. Two events are one to repeat and the next. Three
listeners are one before the one that raises, that one, and one behind it; how long a
coroutine lives does not depend on more than one (`live`). Two
sequence bytes and three calls make the counter wrap past a call that is still
waiting. Deadlock is checked on every `Transport` run; the requests and the
reader really stop, when every call is done and the stream has been read, and
their configurations say so. The sockets of `Transport` are interchangeable, and
so are calls and selectors: symmetry is used in runs without liveness.

One panel is enough in `live`: what it checks there relates a panel to its own
sockets and to the set of known serials, and the two invariants are proved for
any number. In `monitor` the windows begin and end inside records of every table,
take the smallest and the largest count, and two are refused by the builder. Two
programmings differ in every table, in the output that drives the fence and in
zone doubling; the second has the longer of the two status frames. The model is
the Active 32 Duo (`ModelByte` 160), 16 `Terminals` and up to 32 zones, the one of which the
code says how doubling works; outputs 2 and 4 are the ones that drive the fence in one of
the programmings. The client
reads before it operates, one region of each kind that teaches something, so that
the two commands always meet every state of its knowledge: nothing, one part, both,
both out of date. Two commands are the least that a refusal followed by another
attempt, or a bypass after a status, takes, and one move at the panel falls before,
between or after them. The client only goes on to operate
when no read is out. `monitor` may stop when the commands are used up, and its
configuration says so. Every installation of the instance has one output that drives
the fence, as the code assumes (`_detect_fence_pgm`): of two, the second is not
guarded. In `eventlog` four events overrun the ring of three before the first page
is taken, or in the middle of the paging; serials start below 2^16 so that the
cursor uses more than its two low bytes.

Fairness. `SF(Task(c) \/ Settle(c))`: the event loop runs every task that is ready, and a
task may be ready, held up by a running one, and ready again; a pending read
ends at the latest by the watchdog, other awaits because TCP delivers what the
write buffer holds or fails (`Settle`).
`WF(StopReturns)`: a future whose condition holds wakes its task. Nothing is
assumed of panels, network or owner. In `Requests`, a timer fires, a woken
caller runs and a shutdown goes on; replies may never come. In `FrameReader`,
`feed` runs until it returns. In `EventLog` the panel answers and the caller goes on
asking and taking (`WF` of `AskPage`, `PanelPages`, `TakePage`); events and losses are
bounded and need no fairness.

### What the code does otherwise than documented

* `rebind`: `_identify` does not look at `_closing`. A `0x21` left in the stream
  buffer of a socket that was just replaced makes it the bound socket again,
  and closes the fresh one; both end and the panel is gone until it redials.
* `stop`: a socket accepted one turn before `async_stop` is in no set yet;
  `wait_closed` waits for its handler while its panel keeps talking.
* `selector`: two concurrent reads of one selector share one future.
* `truncated`: `decode_programming` takes as many bytes after offset 9 as the reply
  declares, and only tests whether it got them; the frame's checksum is a byte of the
  frame, too. A reply that is one byte short becomes a block whose last byte is the
  checksum. With any other number of bytes missing it is an `UnknownPacket`, as
  documented (`BlocksAreMemory` in `monitor`, and proved).

More are in the models, or next to them, and left without a run:

* Listeners are called in a plain loop, so that one that raises keeps the packet, or the
  announcement, from those registered after it (`FanOut`, `NotifyAvailability`), where
  `async_add_packet_listener` has "Call *listener* for every decoded packet." Of an event
  that is final: its acknowledgement was written before, and the panel does not repeat it.
* `_write_now` looks at `_closing` before it waits for the lock and not after. An
  acknowledgement that is written once `close()` was called may still go out, when the
  transport's buffer was not empty; then the transport ends, `drain` raises, and the event
  that was acknowledged is never decoded (`WriteFrame`, `Flush`, `DrainRaises`).
* 3464, "Auto-arm deferred", is `ARM` in contact_id's table (`FENCE_ARM` on partition 99), so
  that a partition that may never have been armed is reported armed (`LastReportIsTrue`
  states it).
* `bind` announces a panel before `info` is set, so that an availability listener that asks
  for it at once finds none (`NoInfoOnlyInHandshake` says for how long).
* On a closing connection an event's acknowledgement is skipped and the event
  delivered (`SkipWrite`, then `AfterAck`), although the module's documentation has
  the acknowledgement come first; the panel will report the event again, which
  `EventReport` allows.
* Garbage that looks like the beginning of a frame can take the next genuine frame
  with it. So can a read that ends inside a frame whose payload holds a whole valid
  frame: the head is taken for a phantom, where the comment at frames.py:272 says it
  is one.
* The reset after a foreign first byte has the first byte of the next read tested
  again (`Feed`), where the documentation of `feed` says once per connection.
* `parse_holidays` says that a byte that is not BCD leaves day or month out of range;
  `0x1A` becomes 20, which is in range.
* `parse_auto_arm_time` says `None` for what is not BCD, but computes with it; and a
  schedule at midnight is taken for none.
* `nibbles_to_zones` is documented to cap its result at the model's zone count;
  `decode_status`, its only caller, always passes 100. The cap is `JflCapabilities.zones`.
* `decode_status` guards each field of the tail by the frame's length, checksum
  included: on lengths that no firmware is known to send (118, 119, 121, 122) the
  checksum would be read as a field. The two lengths that are sent, 123 and 127, are
  those of the runs.
* `drives_fence` honours the owner's setting over what was detected, so that the
  detected output is then an ordinary switch, which the warning at `build_pgm_on`
  forbids; it is reported as a conflict instead (`FenceOutputIsGuarded` states both).

## Proofs

All theorems hold for every value of the constants under the modules' named
assumptions, which TLC evaluates on its instances.

`TransportProofs`. Assumptions: `NoConn` is no socket and `NoPanel` no serial, the bounds are
natural numbers, undecodable events are events, chatter frames and configured sets have their
types, the listeners that may raise are listeners. The inductive invariant is `IInv == TypeOK /\
Control /\ Attached`. `Control` says that a coroutine runs exactly when `loop` names it, that it
has frames in hand wherever it uses the head of `chunk`, and that a link, once set, is the one
of the panel that dialled: without it `bound` could be set for a panel other than the socket's.
`Attached` is `BoundIsServed`, `OthersAreClosing` and `AvailabilityIsTrue` with two facts they
need of each other: a coroutine that has reached `_shutdown` is closing (so the socket that
`Unbind` leaves behind is), and one that has not started has no link. A step that moves one
coroutine keeps both if it does so locally (`ControlMove`, `AttachedMove`). From `Invariance`:
`TypeCorrect`, `BoundServed`, `OneSocketPerPanel`, `AvailabilityTrue`, and the action property
`StaleShutdownHarmless`.

Three more are inductive with little beside `IInv`. `NeverOfferedTwice`: the two
steps that change `known` and `pendingPanels` each remove what they must.
`NobodyIsMissed` (`UnregisteredIsClosing`): `forget` comes after `_closing` is set,
and `async_stop` closes before it clears. `AvailableHasInfo` (`NoInfoOnlyInHandshake`) needs
`Introduced`: once a coroutine has its link, and until its shutdown, `info` is set or the
acceptance is the reply that it is writing, and a coroutine that is at its read, or has not
started, is writing none.

`AvailabilityTrue` is about the listeners in `Reached`: a call up to a listener that raises has
come to all of them (`ReachedFirst`, `NotifyFacts`). `AckedIsDelivered` and `ImplementsReport`
use the same of `FanOut` (`FanOutTypes`, `PacketFacts`).

`AckedIsDelivered` needs to know where an event is at every moment of
its handling. The invariant `Reaching` says of every event whose acknowledgement is in the
write buffer that its coroutine is still at that event, and of every one whose
acknowledgement is on the wire that the event is in the coroutine's hands; or that it is with
the listeners, or that `decode` refuses it. It rests on the order of the frames on a socket:
a panel introduces itself first and reports each event until it is acknowledged, so a
coroutine that holds an event has its link. What is written to a transport being closed
is in `late`, and maps to the abstract `Risk` (`Hazards`, `Risks`). `Ordered` says that a panel
repeats events but never anticipates one. `ImplementsReport` then is step simulation: each step of
`Transport` is a step of `EventReport` under the mapping (`Takes`) or leaves the
abstract state as it is (`Stutters`).

`FrameReaderProofs`. Assumptions: the header is a byte and no foreign header,
frames are at least two and at most `MaxByte` bytes long, streams are sequences
of bytes. `Conserved`, `LessThanAFrame` and `OnlyFramesComeOut` are inductive
with `TypeOK`; the argument for the bound is that the loops only end with an
empty buffer, a lone header, or a head that declares more than there is, so that
`_MAX_BUFFER` is never reached and `desyncs` stays zero.
`GenuineFramesComeOut` is the other direction: on every quiet stream, of any length and
however it is cut, what comes out are the genuine frames. The invariant `Synced` says
that the buffer is the stream behind what was consumed so far (`Buffered`), that `out` is
the genuine frames up to there (`Came`), that all others begin behind it (`Ahead`), and that
between two calls of `feed` none that has arrived whole is kept (`NoneKept`). A header that begins
no valid frame is passed by the scan; one that declares more than has arrived stays
until more comes, unless a valid frame follows, which on a quiet stream is the next
genuine one.

`RequestsProofs`. Assumptions: the sequence byte has at least one value, selectors and
`NoSlot` are told apart. `TypeCorrect` bounds the sequence byte. `TablesDoNotLeak` holds
whether or not callers reuse keys, and needs that a reply on its way has a key
(`RepliesHaveKeys`). `NobodyIsForgotten` assumes `Overlap = FALSE`: then no two
calls that are not done have the same key (`KeysDiffer`), a call under way has one,
and whoever waits is in the table; after `_shutdown` nobody waits. `RefusalIsFinal`
needs that a call is queued at most once (`CallsAreOnce`). `LateAnswersChangeNothing`
is an action property. `RepliesAreHandedOver` combines
type correctness with `WaitingIsRegistered`.

`AnswersAreOwn` is about the sequence byte that comes round, and holds whether or not
keys are reused. `stamp` numbers the requests. The invariant `StampInv` says that since a
byte was handed out at least as many were as lie between it and the next one
(`BytesComeRound`), so that two requests with one byte are a whole round of the counter
apart (`RoundsApart`), and that the entry of a table belongs to the last call that took
the key (`LastComerIsRegistered`): a reply goes to the call that asked, or to one that is
at least a round later, which is what the property allows.

`ProgrammingProofs`. Assumptions: there is an image, images hold bytes, windows have
integer fields, `Idle` is no region. `PlanReadTiles` is `plan_read` for every address,
length and chunk: division by the chunk bounds the last request, and each begins where
the one before it ends. `RecordIsOwnBytes` is `_record_at` for every block, base and
size. The invariant of a reading (`ReadInv`) says that the blocks gathered, followed by
the requests still to make, tile the region, and that the reply on the wire is the one
to the head of the plan; `ReadingIsContiguous` follows when the plan is empty.
`ReadingIsMemory` assumes `1 \notin Cuts`, which is what the run `truncated` shows to be
needed: a slice that meets the checksum is one byte longer than the data.

`CodecProofs`. Lemmas that the three modules after it share, without assumptions. The
folds of the code (sums of bits, pages put together, digits, text without its padding) are
recursive functions here, and what one computes for every input takes induction, which the
library states with an operator parameter. Here it is stated of sets instead: a set of numbers
that is not empty has a least one (`LeastNumber`), so a set that holds 0 and, with a number, the
next one holds them all (`InductionUpTo`, up to a bound).
`LoopExists` says of a recursive function, that of a loop with any state, that it exists and
satisfies its equation; each loop of the code is an instance. `FlattenIs` does the same for
`FlattenSeq`, and says where each byte of a joined sequence comes from.

`MonitoringProofs`. Assumptions: a zone has one of the 100 nibbles of the status frame,
partitions and outputs one of 16 places, and no frame is shorter than the 123 bytes of
the shortest that panels send (`OperateAssumption`, decode.py:238); a device's slot is none of
the padding values, and its fields have the widths of their bytes (`DevicesAssumption`).
The first lemmas say what sums of bits, pairs of nibbles and BCD bytes give back: a bit
of a byte that the panel put together is the member of the set it was made from, for every set,
in each of the three bit orders. `StatusIsRead` joins them: `decode_status` of the
frame of any panel, version and length from 123 on is the panel's state.

`ReadsLikeAReader`: every step of the composition is a step of
`ProgrammingRead` or leaves its variables alone, so the theorems about reading carry
over (`ClientReadsWholeRegions`, `ClientReadsMemory`). `ClientIsNotLockedOut`: a wrong password that
the panel has counted is either in the answer on its way or already known to the
client (`RefusalIsSeen`), so the next one is never sent. `CommandsMeanWhatTheySay` is proved
of every builder where its command is sent: what the panel reads from the bytes is what was
meant (a bitmap of `flags_to_bitmap` for every set of zones, the clock, the
password). `AnswersAreTrue` and `BypassLeavesOthers` rest on the invariant `Exchange`: the
panel's state has its type, the answer on its way was made from the panel it says it tells
of, and a status names no zone beyond the hundredth. `StatusIsRead` then gives what is decoded.

The last three theorems of the module are about what a client learns from the programming. They
assume, in `Monitoring`, that a panel does what its programming says (`WiringAssumption`: an
output drives the fence by the function byte of its record, and at most one does, as
`_detect_fence_pgm` takes for granted); that it has no more zones than its model, and without
doubling no more than its terminals (`ModelAssumption`); that `None` is not a value
(`NoneAssumption`); and that the bytes of access codes are recognisable, in that they are found
at no other address of the image (`CodesAssumption`), since otherwise it could not be told from
a parser's output whether one came out. They also assume `1 \notin Cuts`, like
`ReadingIsMemory`. The invariant `Learning` extends those of reading and exchange by what was
learned: the two regions that teach something are read in one block (`OneBlock`), a block tells
a version that the panel had (`KpsAreVersions`), and so `learned` is what the parsers make of
the panel's own bytes in the version it is filed under. `FenceIsGuarded` and `EveryZoneIsSeen`
follow with what the parsers say of those bytes. `EveryZoneIsSeen` has two parts. Of every
model, no zone is hidden while doubling is not known to be off (`SeenUnlessOff`). `NoZoneHidden`
itself is proved under `HalvesToTerminals`, that a model with an even number of zones has two to
a terminal: `_doubling_cap` halves whenever the number is even, and its docstring says of the
Active 32 Duo alone that half is what its terminals are. `NoCodeIsTold` is about every block,
wherever it starts and ends: the bytes `parse_users` returns stand at other places of the
16-byte records than the codes.

`SettingsProofs`. Assumptions: the image is the `Memory` of the settings
(`MonitoringAssumption`), the settings are `Installable` and `None` is none of their values
(`SettingsAssumption`, `NoneAssumption`), and `1 \notin Cuts`. The proof follows a setting
into the panel's bytes and back. A byte of flags is the sum of the flags that are set
(`SumIs`, one of the loops); the nine sections of the memory stand apart, so that each
byte is where its own table puts it (`MemoryIs`). For each kind of record a lemma says that
what the code reads from the bytes of a record is the setting they were made from
(`ZoneIsTold`, `PgmIsTold`, `UserIsTold`, `WirelessIsTold`, `HolidayIsTold`, `TimersAreTold`,
`OptionsAreTold`). `TableOfMemory` is `_record_at` for a whole table: of a block that holds
the panel's bytes, wherever it starts and ends, a parser takes the records that the block
covers and no other. `BlockTells` joins the nine. What a client has read are such blocks
(`BlocksHold`, from `ReadingIsMemory`) of a version that its KP tells (`KpsAreVersions`), which
gives `SettingsAreTold`. For `RegionTellsTheSettings` the blocks of a region are joined:
`PlaceInPart` finds the block and the place in it of each byte of the joined data, which is where
the tiling of `ReadInv` (`ReadingIsContiguous`) says it is (`JoinedIsMemory`), and if all KPs
are one, then the region is a block of that version.

`EventLogProofs`. Assumptions: the ring holds a record and a request asks for 1 to 255
(`EventLogAssumption`); the fields of a happening have the widths of their bytes, the serials
fit into four bytes, and a happening means what the manual says of its code
(`HappeningsAssumption`); `None` is no thing (`NoneIsNoThing`). The inductive invariant is
`DownloadInv`: `LogTyped` (the log is of happenings), `HeldIsLog` (the caller holds records of
the log in its order, and the cursor is the last one's serial), `NothingMissed` (an event
is held, or still in the ring, or was overwritten before the caller could have it) and `WireIs`
(a page on its way goes on after the cursor, and what it leaves out was overwritten). Without
the last the page could not be appended to what is held, and `NothingMissed` is what the panel
needs to make such a page. `DownloadIsRight` follows with what `decode_events` makes of a
page of any length: its loop drops the slots that hold nothing, and the bytes of a record
tell its serial, its clock and its code.

`ConclusionsAreTrue` adds two facts that are invariant by themselves. `ActiveIsTold`: what
is armed, in alarm or in trouble is what the last happening about each thing says
(`LastTold`). And on the caller's side one more record does to what was concluded what its
happening does to what is told (`HappeningIsTold`): here contact_id's table is compared with
the manual's codes, code by code (`KindTable`), and its pairs of alert and restore with the
2000 between them (`RestoredIs`). With `ToldIsLast` the caller's fold is the last word about
each thing of which it has the last record, and a deferred auto-arming counts as an
arming (`Heard`, `ConcludePutOff`). `LiveIsTheRecord` decodes the frame of an
event, in text, to the same numbers as its record; that its fence byte agrees is an
invariant of the log (`FenceIsTold`), since the byte is made when the event happens.

Only model-checked is liveness, which is beyond the prover: `ClosingEnds`,
`AbandonedEnds`, `StopReturnsIfNoneMissed`, `EveryCallEnds`, `FeedReturns` and
`DownloadEnds`. Every invariant and every action property of the passing runs is a theorem;
`NoZoneHidden` under `HalvesToTerminals`, and those that say so under `1 \notin Cuts`.
No `RECURSIVE` operator is declared in any module that theorems reach.

## Not modelled

Queued commands that are dropped when the connection closes or a write fails:
`async_send` promises nothing about them. The time a blocked `drain` takes:
TCP's own timeout ends it. Text: labels, descriptions, `repr`, error messages, MAC,
IMEI, hardware version, accounts. `ArmMode` and the properties of models.py that only
restate a field. What panels do that the code does not rely on: writing
programming (no builder exists), keypads, the routing envelope. I/O
probes, exports, tooling.

## Plan

1. Done: `Transport`, `EventReport`, `Requests`, `FrameReader`, `Programming`, `Codec`,
   `Capabilities`, `ContactId`, the compositions `Monitoring` and `EventLog`, their
   runs and the proofs above.
2. Done: every invariant and every action property that a passing run checks is a theorem,
   and so is the refinement of `EventReport`. Only liveness stays with TLC.
3. Open: `Requests` and `ProgrammingRead` in one model, with several readers of one
   panel and late replies between them.
