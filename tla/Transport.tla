----------------------------- MODULE Transport -----------------------------
(***************************************************************************)
(* The listener of transport.py: JflServer, the JflPanelLink of each panel *)
(* and the _PanelConnection of each accepted socket.                       *)
(*                                                                         *)
(* Every socket is served by one coroutine, JflServer._on_client, on one   *)
(* event loop.  Between two awaits a coroutine runs alone, so the model    *)
(* has a variable, loop, that names the coroutine that is between two      *)
(* awaits; every other step needs an idle loop, the network included,      *)
(* because the loop delivers data and resets only between coroutine steps. *)
(*                                                                         *)
(* A panel is the environment: it dials, introduces itself with 0x21 as    *)
(* the first frame of a socket, sends its events (0x24) in order,          *)
(* retransmits anything it has no acknowledgement for, and may drop a      *)
(* socket without the listener noticing.  One panel per socket: all the    *)
(* 0x21 frames of one socket carry the same serial.                        *)
(*                                                                         *)
(* The listeners of a link are called in turn, and one that raises keeps   *)
(* the call from those registered after it.                                *)
(***************************************************************************)
EXTENDS Integers, Sequences

CONSTANTS Panel,       \* serial numbers
          Conn,        \* the sockets that panels will open, each one used once
          NoConn,      \* Python None, where a connection is expected
          NoPanel,     \* Python None, where a link is expected
          MaxEvents,   \* bound: events that each panel reports
          Undecodable, \* the events whose frame decode() refuses
          Chatter,     \* the other kinds of frame that the panels send
          MaxInbox,    \* bound: frames of one socket waiting to be read
          Policy,      \* JflServer.unknown_panels
          Configured,  \* the sets of serials async_set_known_panels is given
          Listeners,   \* how many availability and packet listeners a link has,
                       \* numbered as they were registered
          Raising,     \* the listeners that may raise
          DiscoveryRaises  \* TRUE iff the discovery callback may raise

ASSUME ConnAssumption == NoConn \notin Conn /\ NoPanel \notin Panel
ASSUME BoundAssumption == MaxEvents \in Nat /\ MaxInbox \in Nat
ASSUME FrameAssumption == /\ Undecodable \subseteq 1..MaxEvents
                          /\ Chatter \subseteq {"alive", "status"}
ASSUME ServerAssumption == /\ Policy \in {"accept", "hold", "reject"}
                           /\ Configured \subseteq SUBSET Panel
ASSUME ListenerAssumption == /\ Listeners \in Nat /\ Raising \subseteq 1..Listeners
                             /\ DiscoveryRaises \in BOOLEAN

VARIABLES
  srv,           \* the listener: "running", "stopping" (async_stop awaits) or "stopped"
  loop,          \* the connection whose coroutine is between two awaits, or NoConn
  conns,         \* JflServer._connections
  known,         \* JflServer._known
  pendingPanels, \* the keys of JflServer._pending_panels
  bound,         \* JflPanelLink._connection of each panel
  avail,         \* what each availability listener of each panel heard last
  info,          \* whether JflPanelLink.info of each panel is set
  pc,            \* where the _on_client coroutine of each connection is
  reply,         \* the frame _write_now was called with
  closing,       \* _PanelConnection._closing
  sock,          \* the transport under the stream pair
  link,          \* the serial of _PanelConnection.link
  inbox,         \* frames of each socket that are not read yet
  chunk,         \* frames that feed() returned and _consume has not finished
  unsent,        \* events whose acknowledgement is in the transport's write buffer
  acks,          \* events whose acknowledgement went out on each socket
  delivered,     \* events of each panel handed to each of its packet listeners
  dialler,       \* environment: the panel that opened each socket
  cur,           \* environment: the socket each panel is using
  confirmed,     \* environment: how many events each panel saw acknowledged
  late           \* history: events acknowledged into a transport being closed

serverVars == <<srv, conns, known, pendingPanels>>
linkVars   == <<bound, avail, info, delivered>>
taskVars   == <<loop, pc, reply, link, chunk>>
socketVars == <<closing, sock, inbox, unsent, acks>>
panelVars  == <<dialler, cur, confirmed, late>>
vars == <<serverVars, linkVars, taskVars, socketVars, panelVars>>

Plain(k) == [kind |-> k, n |-> 0]
Event(n) == [kind |-> "event", n |-> n]
Frame == {Plain(k) : k \in {"conn", "alive", "status"}} \cup {Event(n) : n \in 1..MaxEvents}

PCs == {"idle",      \* the socket does not exist yet
        "accepted",  \* accepted by the listener, _on_client not started
        "reading",   \* awaits reader.read in _read_loop
        "handling",  \* _consume is about to handle the head of chunk
        "write",     \* entering _write_now
        "lock",      \* awaits _write_lock in _write_now
        "drain",     \* awaits writer.drain in _write_now
        "drained",   \* the frame is out and drain is about to return
        "resume",    \* _write_now has returned, or was not needed
        "shutdown",  \* awaits the cancelled _tx_task in _shutdown
        "closing",   \* awaits writer.wait_closed in _shutdown
        "done"}
Sockets == {"none", "open", "fin", "reset", "closed"}

TypeOK ==
  /\ srv \in {"running", "stopping", "stopped"}
  /\ loop \in Conn \cup {NoConn}
  /\ conns \subseteq Conn
  /\ known \subseteq Panel
  /\ pendingPanels \subseteq Panel
  /\ bound \in [Panel -> Conn \cup {NoConn}]
  /\ avail \in [Panel -> [1..Listeners -> BOOLEAN]]
  /\ info \in [Panel -> BOOLEAN]
  /\ pc \in [Conn -> PCs]
  /\ reply \in [Conn -> {"none", "ack", "accept", "refuse"}]
  /\ closing \in [Conn -> BOOLEAN]
  /\ sock \in [Conn -> Sockets]
  /\ link \in [Conn -> Panel \cup {NoPanel}]
  /\ inbox \in [Conn -> Seq(Frame)]
  /\ chunk \in [Conn -> Seq(Frame)]
  /\ unsent \in [Conn -> SUBSET (1..MaxEvents)]
  /\ acks \in [Conn -> SUBSET (1..MaxEvents)]
  /\ delivered \in [Panel -> [1..Listeners -> SUBSET (1..MaxEvents)]]
  /\ dialler \in [Conn -> Panel \cup {NoPanel}]
  /\ cur \in [Panel -> Conn \cup {NoConn}]
  /\ confirmed \in [Panel -> 0..MaxEvents]
  /\ late \in [Conn -> SUBSET (1..MaxEvents)]

Init ==
  /\ srv = "running" /\ loop = NoConn /\ conns = {}
  /\ known \in Configured \cup {{}} /\ pendingPanels = {}
  /\ bound = [p \in Panel |-> NoConn]
  /\ avail = [p \in Panel |-> [l \in 1..Listeners |-> FALSE]]
  /\ info = [p \in Panel |-> FALSE]
  /\ delivered = [p \in Panel |-> [l \in 1..Listeners |-> {}]]
  /\ pc = [c \in Conn |-> "idle"]
  /\ reply = [c \in Conn |-> "none"]
  /\ closing = [c \in Conn |-> FALSE]
  /\ sock = [c \in Conn |-> "none"]
  /\ link = [c \in Conn |-> NoPanel]
  /\ inbox = [c \in Conn |-> <<>>]
  /\ chunk = [c \in Conn |-> <<>>]
  /\ unsent = [c \in Conn |-> {}]
  /\ acks = [c \in Conn |-> {}]
  /\ dialler = [c \in Conn |-> NoPanel]
  /\ cur = [p \in Panel |-> NoConn]
  /\ confirmed = [p \in Panel |-> 0]
  /\ late = [c \in Conn |-> {}]

-----------------------------------------------------------------------------
(* The panels and the network. *)

IsUp(c) == sock[c] \in {"open", "fin"}

\* A panel opens a socket and introduces itself; a socket it used before is
\* simply forgotten, the way a panel behaves after a power cycle.
Dial(p, c) ==
  /\ loop = NoConn /\ srv = "running" /\ pc[c] = "idle"
  /\ pc' = [pc EXCEPT ![c] = "accepted"]
  /\ sock' = [sock EXCEPT ![c] = "open"]
  /\ inbox' = [inbox EXCEPT ![c] = <<Plain("conn")>>]
  /\ dialler' = [dialler EXCEPT ![c] = p]
  /\ cur' = [cur EXCEPT ![p] = c]
  /\ UNCHANGED <<serverVars, linkVars, loop, reply, link, chunk, closing, acks, unsent,
                 confirmed, late>>

\* The next event is sent again until it is confirmed; so is 0x21.
Sendable(p) ==
  {Plain("conn")} \cup {Plain(k) : k \in Chatter}
    \cup {Event(n) : n \in {confirmed[p] + 1} \cap 1..MaxEvents}

Send(p, f) ==
  /\ loop = NoConn /\ cur[p] # NoConn /\ f \in Sendable(p)
  /\ sock[cur[p]] = "open" /\ Len(inbox[cur[p]]) < MaxInbox
  /\ inbox' = [inbox EXCEPT ![cur[p]] = Append(@, f)]
  /\ UNCHANGED <<serverVars, linkVars, taskVars, closing, sock, acks, unsent, panelVars>>

HearAck(p) ==
  /\ loop = NoConn /\ cur[p] # NoConn
  /\ confirmed[p] + 1 \in acks[cur[p]]
  /\ confirmed' = [confirmed EXCEPT ![p] = @ + 1]
  /\ UNCHANGED <<serverVars, linkVars, taskVars, socketVars, dialler, cur, late>>

\* The panel ends its socket, or notices that the listener did.
HangUp(p) ==
  /\ loop = NoConn /\ cur[p] # NoConn
  /\ sock' = [sock EXCEPT ![cur[p]] = IF @ = "open" THEN "fin" ELSE @]
  /\ cur' = [cur EXCEPT ![p] = NoConn]
  /\ UNCHANGED <<serverVars, linkVars, taskVars, closing, inbox, acks, unsent, dialler,
                 confirmed, late>>

\* The transport, and the socket under it, are gone: nothing is left to send.
Gone(c) == ~IsUp(c) /\ unsent[c] = {}

\* The connection is lost, and what the write buffer held with it; also after
\* close(), while the buffer holds something.
NetworkReset(c) ==
  /\ loop = NoConn /\ ~Gone(c)
  /\ sock' = [sock EXCEPT ![c] = "reset"]
  /\ unsent' = [unsent EXCEPT ![c] = {}]
  /\ UNCHANGED <<serverVars, linkVars, taskVars, closing, inbox, acks, panelVars>>

\* The transport hands a frame of its buffer to the network, also after close();
\* the write the coroutine is waiting for lets its drain return, except that of
\* a frame written after close(), whose drain looks for the loss once more.
Flush(c) ==
  /\ loop = NoConn /\ sock[c] # "reset"
  /\ \E n \in unsent[c] :
       /\ unsent' = [unsent EXCEPT ![c] = @ \ {n}]
       /\ acks' = [acks EXCEPT ![c] = @ \cup {n}]
       /\ pc' = [pc EXCEPT ![c] =
                   IF @ = "drain" /\ Head(chunk[c]) = Event(n) /\ n \notin late[c]
                     THEN "drained" ELSE @]
  /\ UNCHANGED <<serverVars, linkVars, loop, reply, link, chunk, closing, sock, inbox,
                 panelVars>>

-----------------------------------------------------------------------------
(* JflPanelLink and the bookkeeping of JflServer, as effects of a step. *)

\* Fault: close() sets _closing and leaves the writer open.
CloseMarksOnly(cs) ==
  /\ closing' = [c \in Conn |-> closing[c] \/ c \in cs]
  /\ UNCHANGED sock

\* _PanelConnection.close(), called for every connection of the set cs.
Close(cs) ==
  /\ closing' = [c \in Conn |-> closing[c] \/ c \in cs]
  /\ sock' = [c \in Conn |-> IF c \in cs /\ IsUp(c) THEN "closed" ELSE sock[c]]

\* JflPanelLink._notify_availability, up to listener n: all of them, or the one
\* that raised.
NotifyAvailability(p, available, n) ==
  avail' = [avail EXCEPT ![p] =
              [l \in 1..Listeners |-> IF l <= n THEN available ELSE avail[p][l]]]

\* Fault: bind forgets to close the socket it replaces.
BindKeepsPrevious(p, c) ==
  /\ bound' = [bound EXCEPT ![p] = c]
  /\ NotifyAvailability(p, TRUE, Listeners)
  /\ UNCHANGED <<closing, sock>>

\* JflPanelLink.bind: the previous socket is closed, and only a panel that had
\* none is announced.
Bind(p, c) ==
  /\ bound' = [bound EXCEPT ![p] = c]
  /\ IF bound[p] \in {NoConn, c}
       THEN NotifyAvailability(p, TRUE, Listeners) /\ UNCHANGED <<closing, sock>>
       ELSE Close({bound[p]}) /\ UNCHANGED avail

\* Whether Bind calls the availability listeners.
Announces(p, c) == bound[p] \in {NoConn, c}

\* JflServer.accepts
Accepts(p) == p \in known \/ Policy # "reject"

\* Fault: notify_connected trusts the check that accepts() made before the write.
NotifyUnchecked(p) == pendingPanels' = pendingPanels \cup {p}

\* JflServer.notify_connected
NotifyConnected(p) ==
  pendingPanels' = IF p \in known THEN pendingPanels ELSE pendingPanels \cup {p}

\* An exception leaves the read loop: run() goes to _shutdown, which begins by
\* setting _closing and cancelling the transmit task.
Abort(c) ==
  /\ pc' = [pc EXCEPT ![c] = "shutdown"]
  /\ closing' = [closing EXCEPT ![c] = TRUE]
  /\ reply' = [reply EXCEPT ![c] = "none"]
  /\ chunk' = [chunk EXCEPT ![c] = <<>>]
  /\ loop' = NoConn

\* _consume goes on to the next frame of the chunk, or back to the read.
NextFrame(c) ==
  /\ chunk' = [chunk EXCEPT ![c] = Tail(@)]
  /\ reply' = [reply EXCEPT ![c] = "none"]
  /\ IF Len(chunk[c]) = 1
       THEN pc' = [pc EXCEPT ![c] = "reading"] /\ loop' = NoConn
       ELSE pc' = [pc EXCEPT ![c] = "handling"] /\ UNCHANGED loop

-----------------------------------------------------------------------------
(* The coroutine of a connection. *)

\* _on_client starts: the connection is registered and run() begins to read.
OnClient(c) ==
  /\ loop = NoConn /\ pc[c] = "accepted"
  /\ pc' = [pc EXCEPT ![c] = "reading"]
  /\ conns' = conns \cup {c}
  /\ UNCHANGED <<srv, known, pendingPanels, linkVars, loop, reply, link, chunk,
                 socketVars, panelVars>>

\* reader.read returns what has arrived.  A socket that close() was called on
\* still hands over what its StreamReader holds.
Read(c) ==
  /\ loop = NoConn /\ pc[c] = "reading"
  /\ inbox[c] # <<>> /\ sock[c] # "reset"
  /\ chunk' = [chunk EXCEPT ![c] = inbox[c]]
  /\ inbox' = [inbox EXCEPT ![c] = <<>>]
  /\ pc' = [pc EXCEPT ![c] = "handling"]
  /\ loop' = c
  /\ UNCHANGED <<serverVars, linkVars, reply, link, closing, sock, acks, unsent, panelVars>>

\* Fault: the read has no watchdog.
ReadEndsNoWatchdog(c) ==
  /\ loop = NoConn /\ pc[c] = "reading"
  /\ (inbox[c] = <<>> /\ sock[c] = "fin") \/ sock[c] \in {"closed", "reset"}
  /\ Abort(c)
  /\ UNCHANGED <<serverVars, linkVars, link, sock, inbox, acks, unsent, panelVars>>

\* The read ends the loop: end of file after everything was read, or at once
\* on a socket closed on our side; a reset; or the idle watchdog.
ReadEnds(c) ==
  /\ loop = NoConn /\ pc[c] = "reading"
  /\ inbox[c] = <<>> \/ sock[c] \in {"closed", "reset"}
  /\ Abort(c)
  /\ UNCHANGED <<serverVars, linkVars, link, sock, inbox, acks, unsent, panelVars>>

\* _handle_frame up to its write: an event and a keep-alive are acknowledged
\* first, and 0x24, 0x40 and 0x21 are the only frames that are answered.
HandleAnswered(c) ==
  /\ loop = c /\ pc[c] = "handling" /\ Head(chunk[c]).kind \in {"event", "alive"}
  /\ pc' = [pc EXCEPT ![c] = "write"]
  /\ reply' = [reply EXCEPT ![c] = "ack"]
  /\ UNCHANGED <<serverVars, linkVars, loop, link, chunk, socketVars, panelVars>>

HandleUnanswered(c) ==
  /\ loop = c /\ pc[c] = "handling" /\ Head(chunk[c]).kind = "status"
  /\ pc' = [pc EXCEPT ![c] = "resume"]
  /\ UNCHANGED <<serverVars, linkVars, loop, reply, link, chunk, socketVars, panelVars>>

\* _identify of a panel that the policy refuses.
IdentifyRefused(c) ==
  /\ loop = c /\ pc[c] = "handling" /\ Head(chunk[c]).kind = "conn"
  /\ ~Accepts(dialler[c])
  /\ pc' = [pc EXCEPT ![c] = "write"]
  /\ reply' = [reply EXCEPT ![c] = "refuse"]
  /\ UNCHANGED <<serverVars, linkVars, loop, link, chunk, socketVars, panelVars>>

\* _identify of an accepted panel: bound before the acknowledgement is written.
IdentifyAccepted(c) ==
  /\ loop = c /\ pc[c] = "handling" /\ Head(chunk[c]).kind = "conn"
  /\ Accepts(dialler[c])
  /\ link' = [link EXCEPT ![c] = dialler[c]]
  /\ Bind(dialler[c], c)
  /\ pc' = [pc EXCEPT ![c] = "write"]
  /\ reply' = [reply EXCEPT ![c] = "accept"]
  /\ UNCHANGED <<serverVars, info, delivered, loop, chunk, inbox, acks, unsent, panelVars>>

\* An availability listener raises out of bind; the ones after it are not called.
IdentifyRaises(c) ==
  /\ loop = c /\ pc[c] = "handling" /\ Head(chunk[c]).kind = "conn"
  /\ Accepts(dialler[c]) /\ Announces(dialler[c], c)
  /\ link' = [link EXCEPT ![c] = dialler[c]]
  /\ bound' = [bound EXCEPT ![dialler[c]] = c]
  /\ \E n \in Raising : NotifyAvailability(dialler[c], TRUE, n)
  /\ Abort(c)
  /\ UNCHANGED <<serverVars, info, delivered, sock, inbox, acks, unsent, panelVars>>

\* _write_now on a connection that is closing returns at once, without a write
\* and without an await.
SkipWrite(c) ==
  /\ loop = c /\ pc[c] = "write" /\ closing[c]
  /\ pc' = [pc EXCEPT ![c] = "resume"]
  /\ UNCHANGED <<serverVars, linkVars, loop, reply, link, chunk, socketVars, panelVars>>

\* Otherwise it takes the write lock, which the transmit task may hold.
AwaitLock(c) ==
  /\ loop = c /\ pc[c] = "write" /\ ~closing[c]
  /\ pc' = [pc EXCEPT ![c] = "lock"]
  /\ loop' = NoConn
  /\ UNCHANGED <<serverVars, linkVars, reply, link, chunk, socketVars, panelVars>>

\* With the lock held, the frame goes to the transport, whose buffer is flushed
\* behind the coroutine's back; a full buffer makes drain wait (no await before
\* the write looks at _closing again).  A transport on which close() was called
\* still takes a frame while its buffer is not empty, and one that is gone drops
\* it; in both cases drain awaits once, for the loss to be known.
WriteFrame(c) ==
  LET f == Head(chunk[c])
      events == IF f.kind = "event" THEN {f.n} ELSE {}
      Buffered == unsent' = [unsent EXCEPT ![c] = @ \cup events]
      Dropped == UNCHANGED unsent
  IN
  /\ loop = NoConn /\ pc[c] = "lock"
  /\ \/ IsUp(c) /\ Buffered /\ UNCHANGED late
     \/ sock[c] = "closed" /\ Buffered /\ late' = [late EXCEPT ![c] = @ \cup events]
     \/ ~IsUp(c) /\ Dropped /\ UNCHANGED late
  /\ \/ IsUp(c) /\ pc' = [pc EXCEPT ![c] = "resume"] /\ loop' = c
     \/ pc' = [pc EXCEPT ![c] = "drain"] /\ UNCHANGED loop
  /\ UNCHANGED <<serverVars, linkVars, reply, link, chunk, closing, sock, inbox, acks,
                 dialler, cur, confirmed>>

\* drain returns: enough of the buffer went out.
DrainReturns(c) ==
  /\ loop = NoConn
  /\ pc[c] = "drained" \/ (pc[c] = "drain" /\ sock[c] # "reset")
  /\ pc' = [pc EXCEPT ![c] = "resume"]
  /\ loop' = c
  /\ UNCHANGED <<serverVars, linkVars, reply, link, chunk, socketVars, panelVars>>

\* drain raises ConnectionResetError: the transport is gone, and what its
\* buffer held with it.  After close() it also raises when the buffer has just
\* been flushed.
DrainRaises(c) ==
  /\ loop = NoConn /\ pc[c] = "drain" /\ ~IsUp(c)
  /\ Abort(c)
  /\ unsent' = [unsent EXCEPT ![c] = {}]
  /\ UNCHANGED <<serverVars, linkVars, link, sock, inbox, acks, panelVars>>

Decodable(f) == ~(f.kind = "event" /\ f.n \in Undecodable)

\* The packet listeners of panel p get event f, up to listener n.
FanOut(p, f, n) ==
  delivered' = [delivered EXCEPT ![p] =
                  [l \in 1..Listeners |-> IF l <= n THEN delivered[p][l] \cup {f.n}
                                                   ELSE delivered[p][l]]]

\* Fault: packets of a socket that was replaced are ignored.
HandlePacketIfBound(c, n) ==
  LET f == Head(chunk[c]) IN
  IF link[c] # NoPanel /\ bound[link[c]] = c /\ f.kind = "event" /\ Decodable(f)
    THEN FanOut(link[c], f, n)
    ELSE UNCHANGED delivered

\* JflPanelLink.handle_packet, for a frame that decode() accepts on a socket
\* that has identified itself, up to listener n.
HandlePacket(c, n) ==
  LET f == Head(chunk[c]) IN
  IF link[c] # NoPanel /\ f.kind = "event" /\ Decodable(f)
    THEN FanOut(link[c], f, n)
    ELSE UNCHANGED delivered

\* Fault: an acknowledged frame is given up when the socket closes meanwhile.
AfterAckUnlessClosing(c) ==
  /\ loop = c /\ pc[c] = "resume" /\ reply[c] \in {"none", "ack"}
  /\ IF closing[c] THEN UNCHANGED delivered ELSE HandlePacket(c, Listeners)
  /\ NextFrame(c)
  /\ UNCHANGED <<serverVars, bound, avail, info, closing, link, sock, inbox, acks, unsent,
                 panelVars>>

\* _handle_frame after the acknowledgement; a packet listener may raise.
AfterAck(c) ==
  /\ loop = c /\ pc[c] = "resume" /\ reply[c] \in {"none", "ack"}
  /\ \/ HandlePacket(c, Listeners) /\ NextFrame(c) /\ UNCHANGED closing
     \/ /\ link[c] # NoPanel /\ Decodable(Head(chunk[c]))
        /\ \E n \in Raising : HandlePacket(c, n)
        /\ Abort(c)
  /\ UNCHANGED <<serverVars, bound, avail, info, link, sock, inbox, acks, unsent, panelVars>>

\* Fault: a configured panel returns before handle_packet(info).
AfterAcceptSkipsInfo(c) ==
  /\ loop = c /\ pc[c] = "resume" /\ reply[c] = "accept"
  /\ info' = [info EXCEPT ![link[c]] = @ \/ link[c] \notin known]
  /\ NextFrame(c) /\ NotifyConnected(link[c])
  /\ UNCHANGED <<srv, conns, known, bound, avail, delivered, closing, link, sock,
                 inbox, acks, unsent, panelVars>>

\* _identify after its acknowledgement: handle_packet(info), which may raise,
\* then notify_connected, whose discovery callback may.
AfterAccept(c) ==
  /\ loop = c /\ pc[c] = "resume" /\ reply[c] = "accept"
  /\ info' = [info EXCEPT ![link[c]] = TRUE]
  /\ \/ NextFrame(c) /\ NotifyConnected(link[c]) /\ UNCHANGED closing
     \/ Raising # {} /\ Abort(c) /\ UNCHANGED pendingPanels
     \/ /\ DiscoveryRaises /\ link[c] \notin known /\ Policy = "accept"
        /\ Abort(c) /\ NotifyConnected(link[c])
  /\ UNCHANGED <<srv, conns, known, bound, avail, delivered, link, sock, inbox,
                 acks, unsent, panelVars>>

AfterRefuse(c) ==
  /\ loop = c /\ pc[c] = "resume" /\ reply[c] = "refuse"
  /\ Close({c})
  /\ NextFrame(c)
  /\ UNCHANGED <<serverVars, linkVars, link, inbox, acks, unsent, panelVars>>

\* Fault: the end of a socket removes the panel's link.
UnbindDropsLink(c, n) ==
  IF link[c] # NoPanel /\ bound[link[c]] = c
    THEN /\ bound' = [p \in Panel \ {link[c]} |-> bound[p]]
         /\ NotifyAvailability(link[c], FALSE, n)
    ELSE UNCHANGED <<bound, avail>>

\* Fault: unbind returns early for the bound connection, not for a stale one.
UnbindNobody(c, n) == UNCHANGED <<bound, avail>>

\* Fault: unbind does not ask whether the connection is still the bound one.
UnbindAnyone(c, n) ==
  IF link[c] # NoPanel
    THEN /\ bound' = [bound EXCEPT ![link[c]] = NoConn]
         /\ NotifyAvailability(link[c], FALSE, n)
    ELSE UNCHANGED <<bound, avail>>

\* Fault: unbind announces the loss before it asks.
UnbindAnnouncesFirst(c, n) ==
  IF link[c] # NoPanel
    THEN /\ bound' = [bound EXCEPT ![link[c]] = IF @ = c THEN NoConn ELSE @]
         /\ NotifyAvailability(link[c], FALSE, n)
    ELSE UNCHANGED <<bound, avail>>

\* JflPanelLink.unbind, up to listener n.
Unbind(c, n) ==
  IF link[c] # NoPanel /\ bound[link[c]] = c
    THEN /\ bound' = [bound EXCEPT ![link[c]] = NoConn]
         /\ NotifyAvailability(link[c], FALSE, n)
    ELSE UNCHANGED <<bound, avail>>

\* The rest of _shutdown, once the transmit task has ended: unbind, forget and
\* close the writer.  A listener that raises out of unbind keeps the news from
\* the ones after it and skips forget; the handler in _on_client then closes the
\* connection.  What has not been read is lost with the coroutine.
Shutdown(c) ==
  /\ loop = NoConn /\ pc[c] = "shutdown"
  /\ Close({c})
  /\ inbox' = [inbox EXCEPT ![c] = <<>>]
  /\ \/ /\ Unbind(c, Listeners)
        /\ pc' = [pc EXCEPT ![c] = "closing"] /\ conns' = conns \ {c}
     \/ /\ link[c] # NoPanel /\ bound[link[c]] = c
        /\ \E n \in Raising : Unbind(c, n)
        /\ pc' = [pc EXCEPT ![c] = "done"] /\ UNCHANGED conns
  /\ UNCHANGED <<srv, known, pendingPanels, info, delivered, loop, reply, link,
                 chunk, acks, unsent, panelVars>>

\* writer.wait_closed returns and _on_client ends.
Closed(c) ==
  /\ loop = NoConn /\ pc[c] = "closing" /\ Gone(c)
  /\ pc' = [pc EXCEPT ![c] = "done"]
  /\ UNCHANGED <<serverVars, linkVars, loop, reply, link, chunk, socketVars, panelVars>>

-----------------------------------------------------------------------------
(* The owner of the listener. *)

\* Fault: the set of connections is cleared before it is walked.
StopClearsFirst ==
  /\ loop = NoConn /\ srv = "running"
  /\ srv' = "stopping"
  /\ conns' = {}
  /\ UNCHANGED <<known, pendingPanels, linkVars, taskVars, socketVars, panelVars>>

\* async_stop up to its await of Server.wait_closed.
Stop ==
  /\ loop = NoConn /\ srv = "running"
  /\ srv' = "stopping"
  /\ Close(conns)
  /\ conns' = {}
  /\ UNCHANGED <<known, pendingPanels, linkVars, taskVars, inbox, acks, unsent, panelVars>>

\* wait_closed returns once every transport of the listener is gone.
StopReturns ==
  /\ loop = NoConn /\ srv = "stopping"
  /\ \A c \in Conn : Gone(c)
  /\ srv' = "stopped"
  /\ UNCHANGED <<conns, known, pendingPanels, linkVars, taskVars, socketVars, panelVars>>

\* async_start
Start ==
  /\ loop = NoConn /\ srv = "stopped"
  /\ srv' = "running"
  /\ UNCHANGED <<conns, known, pendingPanels, linkVars, taskVars, socketVars, panelVars>>

\* async_set_known_panels
SetKnown(serials) ==
  /\ loop = NoConn /\ known # serials
  /\ known' = serials
  /\ pendingPanels' = pendingPanels \ serials
  /\ UNCHANGED <<srv, conns, linkVars, taskVars, socketVars, panelVars>>

-----------------------------------------------------------------------------
Task(c) ==
  \/ OnClient(c) \/ Read(c) \/ ReadEnds(c)
  \/ HandleAnswered(c) \/ HandleUnanswered(c)
  \/ IdentifyRefused(c) \/ IdentifyAccepted(c) \/ IdentifyRaises(c)
  \/ SkipWrite(c) \/ AwaitLock(c) \/ WriteFrame(c)
  \/ DrainReturns(c) \/ DrainRaises(c)
  \/ AfterAck(c) \/ AfterAccept(c) \/ AfterRefuse(c)
  \/ Shutdown(c) \/ Closed(c)

PanelStep ==
  \/ \E p \in Panel, c \in Conn : Dial(p, c)
  \/ \E p \in Panel, f \in Frame : Send(p, f)
  \/ \E p \in Panel : HearAck(p) \/ HangUp(p)
  \/ \E c \in Conn : NetworkReset(c) \/ Flush(c)

OwnerStep == Stop \/ StopReturns \/ Start \/ \E serials \in Configured : SetKnown(serials)

Next == PanelStep \/ OwnerStep \/ \E c \in Conn : Task(c)

Spec == Init /\ [][Next]_vars

(* The event loop runs every coroutine that is ready, so a coroutine that is *)
(* ready again and again is run; a pending read, lock, drain or wait_closed  *)
(* ends because TCP delivers what the buffer holds or fails, and a silent    *)
(* read because of the watchdog.  Nothing is assumed of the panels or of the *)
(* owner's calls.                                                            *)
Settle(c) == unsent[c] # {} /\ (Flush(c) \/ NetworkReset(c))

FairSpec ==
  /\ Spec
  /\ \A c \in Conn : SF_vars(Task(c) \/ Settle(c))
  /\ WF_vars(StopReturns)

-----------------------------------------------------------------------------
(* Properties. *)

\* From the moment it identifies itself until its own unbind: the part of a
\* coroutine's life in which its connection may be bound.
Serving == {"reading", "handling", "write", "lock", "drain", "drained", "resume",
            "shutdown"}

\* A link never points at a connection whose coroutine has ended or belongs to
\* another panel: commands are never queued on a socket nobody serves (bind,
\* unbind and _shutdown).
BoundIsServed ==
  \A p \in Panel : bound[p] # NoConn => link[bound[p]] = p /\ pc[bound[p]] \in Serving

\* Of all the sockets a panel has introduced itself on, only the bound one may
\* still be open for business: the others are closing (bind closes the one it
\* replaces, _shutdown closes its own).
OthersAreClosing ==
  \A c \in Conn : link[c] # NoPanel /\ bound[link[c]] # c => closing[c]

\* The listeners with none before them that may raise.
Reached == {l \in 1..Listeners : \A k \in Raising : l <= k}

\* What an availability listener heard last is what JflPanelLink.connected says,
\* although bind keeps silent about a replacement and unbind about a stale
\* socket.  It is so up to the first listener that may raise, that one included.
AvailabilityIsTrue ==
  \A p \in Panel : \A l \in Reached : avail[p][l] <=> bound[p] # NoConn

\* Every served connection that async_stop can no longer find in _connections
\* has already been told to close.
UnregisteredIsClosing ==
  \A c \in Conn : pc[c] \in Serving /\ c \notin conns => closing[c]

\* bind announces a panel before the await of its acknowledgement and
\* JflPanelLink.info is set only after it, so that a listener may find none.
\* That window is closed by the time the coroutine goes on to anything else: a
\* bound panel without info is one whose introduction is still being answered,
\* or whose coroutine is on its way out.
NoInfoOnlyInHandshake ==
  \A p \in Panel : bound[p] # NoConn =>
    info[p] \/ reply[bound[p]] = "accept" \/ pc[bound[p]] = "shutdown"

\* A configured panel is never offered as a new one, whatever the order of
\* async_set_known_panels and of notify_connected, which runs after an await.
PendingIsUnknown == pendingPanels \cap known = {}

\* The coroutine holds event n and has no way left but to hand it over.
InHand(c, n) == pc[c] \in {"drained", "resume"} /\ Head(chunk[c]) = Event(n)

\* The panel stops repeating an event when it hears the acknowledgement, so an
\* acknowledgement on the wire means that the listeners got the event or are
\* about to (_handle_frame writes it first, and its drain may wait), or cannot
\* get it because decode() refuses it.  Again up to the first listener that may
\* raise, and not of what was written to a transport being closed.
AckedReachesListeners ==
  \A c \in Conn : \A n \in acks[c] \ late[c] :
    \/ n \in Undecodable \/ InHand(c, n)
    \/ \A l \in Reached : n \in delivered[dialler[c]][l]

\* The panels and the listeners get what EventReport promises, sockets lost,
\* replaced and closed or not.
committed == [p \in Panel |->
                {n \in 1..MaxEvents : \E c \in Conn : link[c] = p /\ InHand(c, n)}]
hazarded == [p \in Panel |->
               UNION {late[c] : c \in {d \in Conn : link[d] = p}}]
Report == INSTANCE EventReport
            WITH Listener <- 1..Listeners, taken <- committed, risked <- hazarded
ReportSpec == Report!Spec

\* A panel is reported gone only by the end of the socket it is bound to: the
\* shutdown of a stale socket changes nothing (unbind).
OnlyOwnShutdownDetaches ==
  [][\A p \in Panel : bound[p] # NoConn /\ bound'[p] = NoConn =>
       pc[bound[p]] = "shutdown" /\ pc'[bound[p]] # "shutdown"]_vars

\* A socket that was told to close, by a replacement, a refusal, async_stop or
\* its own shutdown, does come to its end.
ClosingEnds == \A c \in Conn : closing[c] ~> pc[c] = "done"

\* A socket the panel walked away from without a word is not served for ever:
\* the watchdog, or the panel's redial, ends it.
AbandonedEnds ==
  \A c \in Conn : (dialler[c] # NoPanel /\ cur[dialler[c]] # c) ~> pc[c] = "done"

\* async_stop returns unless it missed a socket: it closes and clears
\* _connections, so that a socket whose _on_client has not run yet, or has put it
\* there since, is one that it did not close.
StopReturnsIfNoneMissed ==
  (srv = "stopping" /\ conns = {} /\ \A c \in Conn : pc[c] # "accepted")
    ~> srv = "stopped"

(* What the documentation says and the code does not do. *)

\* bind: "Attach a freshly identified socket".
BindsFreshSocket ==
  [][\A p \in Panel : bound'[p] \notin {bound[p], NoConn} => ~closing[bound'[p]]]_vars

\* async_stop: "Close the listener and every panel socket".
StopReturnsAlways == srv = "stopping" ~> srv = "stopped"

=============================================================================
