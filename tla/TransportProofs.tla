-------------------------- MODULE TransportProofs --------------------------
(***************************************************************************)
(* Proofs about Transport, for any number of panels, sockets and events.   *)
(*                                                                         *)
(* Control ties the program counter of each coroutine to the event loop    *)
(* and to the frames it is working on; Attached adds what bind, unbind and *)
(* close keep true between a link and its sockets.  Together with TypeOK   *)
(* they are inductive.                                                     *)
(***************************************************************************)
EXTENDS Transport, SequenceTheorems, TLAPS

\* A coroutine is between two awaits exactly when the loop runs it, and only
\* then, or inside _write_now, does it have frames in hand.
Running == {"handling", "write", "resume"}
HasFrames == Running \cup {"lock", "drain", "drained"}
Control ==
  /\ \A c \in Conn : loop = c <=> pc[c] \in Running
  /\ \A c \in Conn : pc[c] \in HasFrames => chunk[c] # <<>>
  /\ \A c \in Conn : link[c] # NoPanel => link[c] = dialler[c]
  /\ \A c \in Conn : pc[c] # "idle" => dialler[c] # NoPanel
  /\ \A c \in Conn : reply[c] = "accept" => link[c] # NoPanel

\* A coroutine that has reached _shutdown is closing.
Attached ==
  /\ BoundIsServed
  /\ OthersAreClosing
  /\ AvailabilityIsTrue
  /\ \A c \in Conn : pc[c] \in {"shutdown", "closing", "done"} => closing[c]
  /\ \A c \in Conn : pc[c] \in {"idle", "accepted"} => link[c] = NoPanel

IInv == TypeOK /\ Control /\ Attached

\* Facts about frames and sequences of frames.
LEMMA FrameFacts ==
  /\ Plain("conn") \in Frame
  /\ \A f \in Frame : f.kind = "event" => f.n \in 1..MaxEvents
BY BoundAssumption DEF Frame, Plain, Event

\* Sequences of one frame, grown by one, and without their head.
LEMMA SeqFacts ==
  ASSUME NEW S
  PROVE  /\ <<>> \in Seq(S)
         /\ \A f \in S : <<f>> \in Seq(S) /\ <<f>> # <<>>
         /\ \A s \in Seq(S), f \in S : Append(s, f) \in Seq(S) /\ Append(s, f) # <<>>
         /\ \A s \in Seq(S) : s # <<>> => Head(s) \in S /\ Tail(s) \in Seq(S)
BY EmptySeq, AppendProperties, HeadTailProperties

\* More than one frame leaves some behind the head.
LEMMA TailNotEmpty ==
  ASSUME NEW S, NEW s \in Seq(S), s # <<>>, Len(s) # 1
  PROVE  Tail(s) # <<>>
<1>1. Len(s) \in Nat /\ Len(Tail(s)) = Len(s) - 1
  BY LenProperties, HeadTailProperties
<1>2. Len(<<>>) = 0
  BY EmptySeq
<1>3. Len(Tail(s)) # 0
  BY <1>1
<1>4. QED
  BY <1>2, <1>3, Zenon

\* Type correctness of the effects that several actions share.
LEMMA AbortTypes ==
  ASSUME TypeOK, NEW c \in Conn, Abort(c)
  PROVE  /\ pc' \in [Conn -> PCs]
         /\ loop' \in Conn \cup {NoConn}
         /\ chunk' \in [Conn -> Seq(Frame)]
         /\ reply' \in [Conn -> {"none", "ack", "accept", "refuse"}]
         /\ closing' \in [Conn -> BOOLEAN]
<1>1. <<>> \in Seq(Frame)
  BY SeqFacts
<1>2. QED
  BY <1>1 DEF TypeOK, Abort, PCs

\* Going on to the next frame in hand keeps the types.
LEMMA NextFrameTypes ==
  ASSUME TypeOK, NEW c \in Conn, NextFrame(c), chunk[c] # <<>>
  PROVE  /\ pc' \in [Conn -> PCs]
         /\ loop' \in Conn \cup {NoConn}
         /\ chunk' \in [Conn -> Seq(Frame)]
         /\ reply' \in [Conn -> {"none", "ack", "accept", "refuse"}]
<1>1. Tail(chunk[c]) \in Seq(Frame)
  BY SeqFacts DEF TypeOK
<1>2. QED
  BY <1>1 DEF TypeOK, NextFrame, PCs

\* So does closing sockets,
LEMMA CloseTypes ==
  ASSUME TypeOK, NEW cs, Close(cs)
  PROVE  closing' \in [Conn -> BOOLEAN] /\ sock' \in [Conn -> Sockets]
BY DEF TypeOK, Close, Sockets

\* The listeners ahead of every one that may raise are told by every call.
LEMMA ReachedFirst ==
  ASSUME NEW l \in Reached, NEW n \in Raising \cup {Listeners}
  PROVE  l \in 1..Listeners /\ l <= n
BY ListenerAssumption DEF Reached

\* So do the availability listeners' calls, which reach those listeners,
LEMMA NotifyFacts ==
  ASSUME TypeOK, NEW p \in Panel, NEW b \in BOOLEAN, NEW n \in Raising \cup {Listeners},
         NotifyAvailability(p, b, n)
  PROVE  /\ avail' \in [Panel -> [1..Listeners -> BOOLEAN]]
         /\ \A q \in Panel \ {p} : avail'[q] = avail[q]
         /\ \A l \in Reached : avail'[p][l] = b
<1> DEFINE heard == [l \in 1..Listeners |-> IF l <= n THEN b ELSE avail[p][l]]
<1>1. heard \in [1..Listeners -> BOOLEAN]
  <2>1. ASSUME NEW l \in 1..Listeners
        PROVE  (IF l <= n THEN b ELSE avail[p][l]) \in BOOLEAN
    <3>1. avail[p] \in [1..Listeners -> BOOLEAN]
      BY DEF TypeOK
    <3>2. avail[p][l] \in BOOLEAN
      BY <3>1
    <3>3. QED
      BY <3>2, Zenon
  <2>2. QED
    BY <2>1
<1>2. avail' = [avail EXCEPT ![p] = heard]
  BY DEF NotifyAvailability
<1>3. avail'[p] = heard /\ \A q \in Panel \ {p} : avail'[q] = avail[q]
  BY <1>2 DEF TypeOK
<1>4. avail' \in [Panel -> [1..Listeners -> BOOLEAN]]
  <2> HIDE DEF heard
  <2> QED
    BY <1>1, <1>2 DEF TypeOK
<1>5. \A l \in Reached : heard[l] = b
  BY ReachedFirst
<1>6. QED
  BY <1>3, <1>4, <1>5

\* the packet listeners' calls,
LEMMA FanOutTypes ==
  ASSUME TypeOK, NEW p \in Panel, NEW f \in Frame, f.kind = "event", NEW n, FanOut(p, f, n)
  PROVE  delivered' \in [Panel -> [1..Listeners -> SUBSET (1..MaxEvents)]]
<1> DEFINE told == [l \in 1..Listeners |-> IF l <= n THEN delivered[p][l] \cup {f.n}
                                                     ELSE delivered[p][l]]
<1>1. f.n \in 1..MaxEvents
  BY FrameFacts
<1>2. told \in [1..Listeners -> SUBSET (1..MaxEvents)]
  <2>1. ASSUME NEW l \in 1..Listeners
        PROVE  (IF l <= n THEN delivered[p][l] \cup {f.n} ELSE delivered[p][l])
                 \in SUBSET (1..MaxEvents)
    <3>1. delivered[p] \in [1..Listeners -> SUBSET (1..MaxEvents)]
      BY DEF TypeOK
    <3>2. delivered[p][l] \subseteq 1..MaxEvents
      BY <3>1
    <3>3. QED
      BY <1>1, <3>2, Zenon
  <2>2. QED
    BY <2>1
<1>3. delivered' = [delivered EXCEPT ![p] = told]
  BY DEF FanOut
<1> HIDE DEF told
<1>4. QED
  BY <1>2, <1>3 DEF TypeOK

\* letting a socket go,
LEMMA UnbindFacts ==
  ASSUME TypeOK, NEW c \in Conn, NEW n \in Raising \cup {Listeners}, Unbind(c, n)
  PROVE  /\ bound' \in [Panel -> Conn \cup {NoConn}]
         /\ avail' \in [Panel -> [1..Listeners -> BOOLEAN]]
         /\ \A q \in Panel :
              IF link[c] = q /\ bound[q] = c
                THEN bound'[q] = NoConn /\ \A l \in Reached : ~avail'[q][l]
                ELSE bound'[q] = bound[q] /\ avail'[q] = avail[q]
<1>1. CASE link[c] # NoPanel /\ bound[link[c]] = c
  <2>1. link[c] \in Panel
    BY <1>1 DEF TypeOK
  <2>2. bound' = [bound EXCEPT ![link[c]] = NoConn] /\ NotifyAvailability(link[c], FALSE, n)
    BY <1>1 DEF Unbind
  <2>3. /\ avail' \in [Panel -> [1..Listeners -> BOOLEAN]]
        /\ \A q \in Panel \ {link[c]} : avail'[q] = avail[q]
        /\ \A l \in Reached : avail'[link[c]][l] = FALSE
    BY <2>1, <2>2, NotifyFacts
  <2>4. QED
    BY <1>1, <2>1, <2>2, <2>3 DEF TypeOK
<1>2. CASE ~(link[c] # NoPanel /\ bound[link[c]] = c)
  BY <1>2, ConnAssumption DEF TypeOK, Unbind
<1>3. QED
  BY <1>1, <1>2

\* and binding one to its panel.
LEMMA BindTypes ==
  ASSUME TypeOK, NEW p \in Panel, NEW c \in Conn, Bind(p, c)
  PROVE  /\ bound' \in [Panel -> Conn \cup {NoConn}]
         /\ avail' \in [Panel -> [1..Listeners -> BOOLEAN]]
         /\ closing' \in [Conn -> BOOLEAN]
         /\ sock' \in [Conn -> Sockets]
<1>1. CASE bound[p] \in {NoConn, c}
  <2>1. NotifyAvailability(p, TRUE, Listeners)
    BY <1>1 DEF Bind
  <2>2. avail' \in [Panel -> [1..Listeners -> BOOLEAN]]
    BY <2>1, NotifyFacts
  <2>3. QED
    BY <1>1, <2>2 DEF TypeOK, Bind
<1>2. CASE bound[p] \notin {NoConn, c}
  BY <1>2, CloseTypes DEF TypeOK, Bind
<1>3. QED
  BY <1>1, <1>2

\* Every step keeps the types.
LEMMA TypeStep == ASSUME IInv, [Next]_vars PROVE TypeOK'
<1> USE DEF IInv
<1>1. ASSUME NEW p \in Panel, NEW c \in Conn,
             Dial(p, c)
      PROVE  TypeOK'
  <2>1. pc' \in [Conn -> PCs]
    BY <1>1 DEF TypeOK, Dial, PCs
  <2>2. sock' \in [Conn -> Sockets]
    BY <1>1 DEF TypeOK, Dial, Sockets
  <2>3. inbox' \in [Conn -> Seq(Frame)]
    BY <1>1, SeqFacts, FrameFacts DEF TypeOK, Dial
  <2>4. dialler' \in [Conn -> Panel \cup {NoPanel}]
    BY <1>1 DEF TypeOK, Dial
  <2>5. cur' \in [Panel -> Conn \cup {NoConn}]
    BY <1>1 DEF TypeOK, Dial
  <2>6. QED
    BY <1>1, <2>1, <2>2, <2>3, <2>4, <2>5 DEF TypeOK, Dial, serverVars, linkVars, taskVars, socketVars, panelVars
<1>2. ASSUME NEW p \in Panel, NEW f \in Frame,
             Send(p, f)
      PROVE  TypeOK'
  <2>1. inbox' \in [Conn -> Seq(Frame)]
    BY <1>2, SeqFacts DEF TypeOK, Send
  <2>2. QED
    BY <1>2, <2>1 DEF TypeOK, Send, serverVars, linkVars, taskVars, socketVars, panelVars
<1>3. ASSUME NEW p \in Panel,
             HearAck(p)
      PROVE  TypeOK'
  <2>1. confirmed' \in [Panel -> 0..MaxEvents]
    BY <1>3 DEF TypeOK, HearAck
  <2>2. QED
    BY <1>3, <2>1 DEF TypeOK, HearAck, serverVars, linkVars, taskVars, socketVars, panelVars
<1>4. ASSUME NEW p \in Panel,
             HangUp(p)
      PROVE  TypeOK'
  BY <1>4 DEF TypeOK, HangUp, Sockets, serverVars, linkVars, taskVars, socketVars, panelVars
<1>5. ASSUME NEW c \in Conn,
             NetworkReset(c)
      PROVE  TypeOK'
  BY <1>5 DEF TypeOK, NetworkReset, Sockets, serverVars, linkVars, taskVars, socketVars, panelVars
<1>5a. ASSUME NEW c \in Conn,
              Flush(c)
       PROVE  TypeOK'
  BY <1>5a DEF TypeOK, Flush, PCs, serverVars, linkVars, panelVars
<1>6. ASSUME Stop
      PROVE  TypeOK'
  <2>1. closing' \in [Conn -> BOOLEAN] /\ sock' \in [Conn -> Sockets]
    BY <1>6, CloseTypes DEF Stop
  <2>2. QED
    BY <1>6, <2>1 DEF TypeOK, Stop, linkVars, taskVars, panelVars
<1>7. ASSUME StopReturns
      PROVE  TypeOK'
  BY <1>7 DEF TypeOK, StopReturns, serverVars, linkVars, taskVars, socketVars, panelVars
<1>8. ASSUME Start
      PROVE  TypeOK'
  BY <1>8 DEF TypeOK, Start, serverVars, linkVars, taskVars, socketVars, panelVars
<1>9. ASSUME NEW s \in Configured,
             SetKnown(s)
      PROVE  TypeOK'
  BY <1>9, ServerAssumption DEF TypeOK, SetKnown, serverVars, linkVars, taskVars, socketVars, panelVars
<1>10. ASSUME NEW c \in Conn,
              OnClient(c)
       PROVE  TypeOK'
  BY <1>10 DEF TypeOK, OnClient, PCs, serverVars, linkVars, taskVars, socketVars, panelVars
<1>11. ASSUME NEW c \in Conn,
              Read(c)
       PROVE  TypeOK'
  <2>1. chunk' \in [Conn -> Seq(Frame)]
    BY <1>11, SeqFacts DEF TypeOK, Read
  <2>2. inbox' \in [Conn -> Seq(Frame)]
    BY <1>11, SeqFacts DEF TypeOK, Read
  <2>3. pc' \in [Conn -> PCs]
    BY <1>11 DEF TypeOK, Read, PCs
  <2>4. loop' \in Conn \cup {NoConn}
    BY <1>11 DEF TypeOK, Read
  <2>5. QED
    BY <1>11, <2>1, <2>2, <2>3, <2>4 DEF TypeOK, Read, serverVars, linkVars, taskVars, socketVars, panelVars
<1>12. ASSUME NEW c \in Conn,
              ReadEnds(c)
       PROVE  TypeOK'
  <2>1. /\ pc' \in [Conn -> PCs]
       /\ closing' \in [Conn -> BOOLEAN]
       /\ reply' \in [Conn -> {"none", "ack", "accept", "refuse"}]
       /\ chunk' \in [Conn -> Seq(Frame)]
       /\ loop' \in Conn \cup {NoConn}
    BY <1>12, AbortTypes DEF ReadEnds
  <2>2. QED
    BY <1>12, <2>1 DEF TypeOK, ReadEnds, serverVars, linkVars, taskVars, socketVars, panelVars
<1>13. ASSUME NEW c \in Conn,
              HandleAnswered(c)
       PROVE  TypeOK'
  BY <1>13 DEF TypeOK, HandleAnswered, PCs, serverVars, linkVars, taskVars, socketVars, panelVars
<1>14. ASSUME NEW c \in Conn,
              HandleUnanswered(c)
       PROVE  TypeOK'
  BY <1>14 DEF TypeOK, HandleUnanswered, PCs, serverVars, linkVars, taskVars, socketVars, panelVars
<1>15. ASSUME NEW c \in Conn,
              IdentifyRefused(c)
       PROVE  TypeOK'
  BY <1>15 DEF TypeOK, IdentifyRefused, PCs, serverVars, linkVars, taskVars, socketVars, panelVars
<1>16. ASSUME NEW c \in Conn,
              IdentifyAccepted(c)
       PROVE  TypeOK'
  <2>1. dialler[c] \in Panel
    BY <1>16 DEF TypeOK, Control, IdentifyAccepted
  <2>2. link' \in [Conn -> Panel \cup {NoPanel}]
    BY <1>16, <2>1 DEF TypeOK, IdentifyAccepted
  <2>3. /\ bound' \in [Panel -> Conn \cup {NoConn}]
       /\ avail' \in [Panel -> [1..Listeners -> BOOLEAN]]
       /\ closing' \in [Conn -> BOOLEAN]
       /\ sock' \in [Conn -> Sockets]
    BY <1>16, <2>1, BindTypes DEF IdentifyAccepted
  <2>4. pc' \in [Conn -> PCs]
    BY <1>16, <2>1 DEF TypeOK, IdentifyAccepted, PCs
  <2>5. reply' \in [Conn -> {"none", "ack", "accept", "refuse"}]
    BY <1>16, <2>1 DEF TypeOK, IdentifyAccepted
  <2>6. QED
    BY <1>16, <2>1, <2>2, <2>3, <2>4, <2>5 DEF TypeOK, IdentifyAccepted, serverVars, linkVars, taskVars, socketVars, panelVars
<1>17. ASSUME NEW c \in Conn,
              IdentifyRaises(c)
       PROVE  TypeOK'
  <2>1. dialler[c] \in Panel
    BY <1>17 DEF TypeOK, Control, IdentifyRaises
  <2>2. link' \in [Conn -> Panel \cup {NoPanel}]
    BY <1>17, <2>1 DEF TypeOK, IdentifyRaises
  <2>3. bound' \in [Panel -> Conn \cup {NoConn}]
    BY <1>17, <2>1 DEF TypeOK, IdentifyRaises
  <2>4. avail' \in [Panel -> [1..Listeners -> BOOLEAN]]
    <3>1. PICK n \in Raising : NotifyAvailability(dialler[c], TRUE, n)
      BY <1>17 DEF IdentifyRaises
    <3>2. QED
      BY <2>1, <3>1, NotifyFacts
  <2>5. /\ pc' \in [Conn -> PCs]
       /\ closing' \in [Conn -> BOOLEAN]
       /\ reply' \in [Conn -> {"none", "ack", "accept", "refuse"}]
       /\ chunk' \in [Conn -> Seq(Frame)]
       /\ loop' \in Conn \cup {NoConn}
    BY <1>17, AbortTypes DEF IdentifyRaises
  <2>6. QED
    BY <1>17, <2>1, <2>2, <2>3, <2>4, <2>5 DEF TypeOK, IdentifyRaises, serverVars, linkVars, taskVars, socketVars, panelVars
<1>18. ASSUME NEW c \in Conn,
              SkipWrite(c)
       PROVE  TypeOK'
  BY <1>18 DEF TypeOK, SkipWrite, PCs, serverVars, linkVars, taskVars, socketVars, panelVars
<1>19. ASSUME NEW c \in Conn,
              AwaitLock(c)
       PROVE  TypeOK'
  BY <1>19 DEF TypeOK, AwaitLock, PCs, serverVars, linkVars, taskVars, socketVars, panelVars
<1>20. ASSUME NEW c \in Conn,
              WriteFrame(c)
       PROVE  TypeOK'
  <2>1. chunk[c] # <<>> /\ Head(chunk[c]) \in Frame
    BY <1>20, SeqFacts DEF TypeOK, Control, Running, HasFrames, WriteFrame
  <2> DEFINE f == Head(chunk[c])
             events == IF f.kind = "event" THEN {f.n} ELSE {}
  <2>2. events \subseteq 1..MaxEvents
    BY <2>1, FrameFacts
  <2>3. \/ unsent' = [unsent EXCEPT ![c] = @ \cup events]
        \/ unsent' = unsent
    BY <1>20 DEF WriteFrame
  <2>4. late' = late \/ late' = [late EXCEPT ![c] = @ \cup events]
    BY <1>20 DEF WriteFrame
  <2> HIDE DEF events
  <2>5. /\ unsent' \in [Conn -> SUBSET (1..MaxEvents)]
        /\ late' \in [Conn -> SUBSET (1..MaxEvents)]
    <3>1. ASSUME NEW held, held \in [Conn -> SUBSET (1..MaxEvents)]
          PROVE  [held EXCEPT ![c] = @ \cup events] \in [Conn -> SUBSET (1..MaxEvents)]
      BY <2>2, <3>1
    <3>2. /\ unsent \in [Conn -> SUBSET (1..MaxEvents)]
          /\ late \in [Conn -> SUBSET (1..MaxEvents)]
      BY DEF TypeOK
    <3>3. QED
      BY <2>3, <2>4, <3>1, <3>2
  <2>6. pc' \in [Conn -> PCs] /\ loop' \in Conn \cup {NoConn}
    BY <1>20 DEF TypeOK, WriteFrame, PCs
  <2>7. QED
    BY <1>20, <2>5, <2>6 DEF TypeOK, WriteFrame, serverVars, linkVars
<1>21. ASSUME NEW c \in Conn,
              DrainReturns(c)
       PROVE  TypeOK'
  BY <1>21 DEF TypeOK, DrainReturns, PCs, serverVars, linkVars, socketVars, panelVars
<1>22. ASSUME NEW c \in Conn,
              DrainRaises(c)
       PROVE  TypeOK'
  <2>1. /\ pc' \in [Conn -> PCs]
        /\ closing' \in [Conn -> BOOLEAN]
        /\ reply' \in [Conn -> {"none", "ack", "accept", "refuse"}]
        /\ chunk' \in [Conn -> Seq(Frame)]
        /\ loop' \in Conn \cup {NoConn}
    BY <1>22, AbortTypes DEF DrainRaises
  <2>2. unsent' \in [Conn -> SUBSET (1..MaxEvents)]
    BY <1>22 DEF TypeOK, DrainRaises
  <2>3. QED
    BY <1>22, <2>1, <2>2 DEF TypeOK, DrainRaises, serverVars, linkVars, panelVars
<1>23. ASSUME NEW c \in Conn,
              AfterAck(c)
       PROVE  TypeOK'
  <2>1. chunk[c] # <<>> /\ Head(chunk[c]) \in Frame
    BY <1>23, SeqFacts DEF TypeOK, Control, Running, HasFrames, AfterAck
  <2>2. delivered' \in [Panel -> [1..Listeners -> SUBSET (1..MaxEvents)]]
    <3>1. PICK n : HandlePacket(c, n)
      BY <1>23 DEF AfterAck
    <3>2. CASE link[c] # NoPanel /\ Head(chunk[c]).kind = "event" /\ Decodable(Head(chunk[c]))
      <4>1. link[c] \in Panel /\ FanOut(link[c], Head(chunk[c]), n)
        BY <3>1, <3>2 DEF TypeOK, HandlePacket
      <4>2. QED
        BY <2>1, <3>2, <4>1, FanOutTypes
    <3>3. CASE ~(link[c] # NoPanel /\ Head(chunk[c]).kind = "event" /\ Decodable(Head(chunk[c])))
      BY <3>1, <3>3 DEF TypeOK, HandlePacket
    <3>4. QED
      BY <3>2, <3>3
  <2>3. /\ pc' \in [Conn -> PCs]
       /\ loop' \in Conn \cup {NoConn}
       /\ chunk' \in [Conn -> Seq(Frame)]
       /\ reply' \in [Conn -> {"none", "ack", "accept", "refuse"}]
       /\ closing' \in [Conn -> BOOLEAN]
    <3>1. CASE NextFrame(c) /\ UNCHANGED closing
      BY <3>1, <2>1, NextFrameTypes DEF TypeOK
    <3>2. CASE Abort(c)
      BY <3>2, AbortTypes
    <3>3. QED
      BY <1>23, <3>1, <3>2 DEF AfterAck
  <2>4. QED
    BY <1>23, <2>1, <2>2, <2>3 DEF TypeOK, AfterAck, serverVars, linkVars, taskVars, socketVars, panelVars
<1>24. ASSUME NEW c \in Conn,
              AfterAccept(c)
       PROVE  TypeOK'
  <2>1. chunk[c] # <<>>
    BY <1>24 DEF TypeOK, Control, Running, HasFrames, AfterAccept
  <2>2. link[c] \in Panel
    BY <1>24 DEF TypeOK, Control, AfterAccept
  <2>3. info' \in [Panel -> BOOLEAN]
    BY <1>24, <2>2 DEF TypeOK, AfterAccept
  <2>4. pendingPanels' \in SUBSET Panel
    BY <1>24, <2>2 DEF TypeOK, AfterAccept, NotifyConnected, serverVars
  <2>5. /\ pc' \in [Conn -> PCs]
       /\ loop' \in Conn \cup {NoConn}
       /\ chunk' \in [Conn -> Seq(Frame)]
       /\ reply' \in [Conn -> {"none", "ack", "accept", "refuse"}]
       /\ closing' \in [Conn -> BOOLEAN]
    <3>1. CASE NextFrame(c) /\ UNCHANGED closing
      BY <3>1, <2>1, NextFrameTypes DEF TypeOK
    <3>2. CASE Abort(c)
      BY <3>2, AbortTypes
    <3>3. QED
      BY <1>24, <3>1, <3>2 DEF AfterAccept
  <2>6. QED
    BY <1>24, <2>1, <2>2, <2>3, <2>4, <2>5 DEF TypeOK, AfterAccept, serverVars, linkVars, taskVars, socketVars, panelVars
<1>25. ASSUME NEW c \in Conn,
              AfterRefuse(c)
       PROVE  TypeOK'
  <2>1. chunk[c] # <<>>
    BY <1>25 DEF TypeOK, Control, Running, HasFrames, AfterRefuse
  <2>2. /\ closing' \in [Conn -> BOOLEAN]
       /\ sock' \in [Conn -> Sockets]
    BY <1>25, CloseTypes DEF AfterRefuse
  <2>3. /\ chunk' \in [Conn -> Seq(Frame)]
       /\ reply' \in [Conn -> {"none", "ack", "accept", "refuse"}]
       /\ pc' \in [Conn -> PCs]
       /\ loop' \in Conn \cup {NoConn}
    BY <1>25, <2>1, NextFrameTypes DEF AfterRefuse
  <2>4. QED
    BY <1>25, <2>1, <2>2, <2>3 DEF TypeOK, AfterRefuse, serverVars, linkVars, taskVars, socketVars, panelVars
<1>26. ASSUME NEW c \in Conn,
              Shutdown(c)
       PROVE  TypeOK'
  <2>1. PICK n \in Raising \cup {Listeners} : Unbind(c, n)
    BY <1>26 DEF Shutdown
  <2>2. /\ bound' \in [Panel -> Conn \cup {NoConn}]
        /\ avail' \in [Panel -> [1..Listeners -> BOOLEAN]]
    BY <2>1, UnbindFacts
  <2>3. /\ closing' \in [Conn -> BOOLEAN]
       /\ sock' \in [Conn -> Sockets]
    BY <1>26, CloseTypes DEF Shutdown
  <2>4. pc' \in [Conn -> PCs]
    BY <1>26 DEF TypeOK, Shutdown, PCs
  <2>5. conns' \in SUBSET Conn
    BY <1>26 DEF TypeOK, Shutdown
  <2>6. QED
    BY <1>26, <2>2, <2>3, <2>4, <2>5 DEF TypeOK, Shutdown, serverVars, linkVars, taskVars, socketVars, panelVars
<1>27. ASSUME NEW c \in Conn,
              Closed(c)
       PROVE  TypeOK'
  BY <1>27 DEF TypeOK, Closed, PCs, serverVars, linkVars, taskVars, socketVars, panelVars
<1>28. CASE UNCHANGED vars
  BY <1>28 DEF TypeOK, vars, serverVars, linkVars, taskVars, socketVars, panelVars
<1>29. QED
  BY <1>1, <1>2, <1>3, <1>4, <1>5, <1>5a, <1>6, <1>7, <1>8, <1>9, <1>10, <1>11, <1>12, <1>13, <1>14, <1>15, <1>16, <1>17, <1>18, <1>19, <1>20, <1>21, <1>22, <1>23, <1>24, <1>25, <1>26, <1>27, <1>28 DEF Next, PanelStep, OwnerStep, Task

\* A step of one coroutine keeps Control when it keeps it for that coroutine.
LEMMA ControlMove ==
  ASSUME Control, TypeOK, NEW c \in Conn,
         \A d \in Conn \ {c} : /\ pc'[d] = pc[d] /\ chunk'[d] = chunk[d]
                               /\ link'[d] = link[d] /\ reply'[d] = reply[d]
                               /\ dialler'[d] = dialler[d],
         loop \in {NoConn, c}, loop' \in {NoConn, c},
         loop' = c <=> pc'[c] \in Running,
         pc'[c] \in HasFrames => chunk'[c] # <<>>,
         link'[c] # NoPanel => link'[c] = dialler'[c],
         pc'[c] # "idle" => dialler'[c] # NoPanel,
         reply'[c] = "accept" => link'[c] # NoPanel
  PROVE  Control'
<1>1. ASSUME NEW d \in Conn \ {c}
      PROVE  /\ loop' = d <=> pc'[d] \in Running
             /\ pc'[d] \in HasFrames => chunk'[d] # <<>>
             /\ link'[d] # NoPanel => link'[d] = dialler'[d]
             /\ pc'[d] # "idle" => dialler'[d] # NoPanel
             /\ reply'[d] = "accept" => link'[d] # NoPanel
  BY <1>1, ConnAssumption DEF Control
<1>2. QED
  BY <1>1 DEF Control, Running, HasFrames

\* Neither does a step that binds and unbinds nobody disturb Attached, provided
\* that no connection stops closing.
LEMMA AttachedMove ==
  ASSUME Attached, TypeOK, NEW c \in Conn,
         UNCHANGED <<bound, avail, link>>,
         \A d \in Conn : closing[d] => closing'[d],
         \A d \in Conn \ {c} : pc'[d] = pc[d],
         pc[c] \in Serving, pc'[c] \in Serving,
         pc'[c] = "shutdown" => closing'[c]
  PROVE  Attached'
<1>1. BoundIsServed' /\ AvailabilityIsTrue'
  <2>1. ASSUME NEW p \in Panel, bound[p] # NoConn
        PROVE  link[bound[p]] = p /\ pc'[bound[p]] \in Serving
    <3>1. bound[p] \in Conn /\ link[bound[p]] = p /\ pc[bound[p]] \in Serving
      BY <2>1 DEF Attached, BoundIsServed, TypeOK
    <3>2. QED
      BY <3>1
  <2>2. QED
    BY <2>1 DEF Attached, BoundIsServed, AvailabilityIsTrue
<1>2. OthersAreClosing'
  BY DEF Attached, OthersAreClosing, TypeOK
<1>3. /\ \A d \in Conn : pc'[d] \in {"shutdown", "closing", "done"} => closing'[d]
      /\ \A d \in Conn : pc'[d] \in {"idle", "accepted"} => link'[d] = NoPanel
  BY DEF Attached, Serving, TypeOK
<1>4. QED
  BY <1>1, <1>2, <1>3 DEF Attached

\* Every step keeps what is known of the coroutines.
LEMMA ControlStep == ASSUME IInv, [Next]_vars PROVE Control'
<1> USE DEF IInv
<1>1. ASSUME NEW p \in Panel, NEW c \in Conn,
             Dial(p, c)
      PROVE  Control'
  <2>1. /\ \A d \in Conn \ {c} : /\ pc'[d] = pc[d] /\ chunk'[d] = chunk[d]
                                 /\ link'[d] = link[d] /\ reply'[d] = reply[d]
                                 /\ dialler'[d] = dialler[d]
        /\ loop \in {NoConn, c} /\ loop' \in {NoConn, c}
    BY <1>1 DEF TypeOK, Dial, taskVars, panelVars
  <2>2. /\ loop' = c <=> pc'[c] \in Running
        /\ pc'[c] \in HasFrames => chunk'[c] # <<>>
        /\ link'[c] # NoPanel => link'[c] = dialler'[c]
        /\ pc'[c] # "idle" => dialler'[c] # NoPanel
        /\ reply'[c] = "accept" => link'[c] # NoPanel
    BY <1>1, SeqFacts, FrameFacts, ConnAssumption DEF TypeOK, Control, Attached, Running, HasFrames, Dial, taskVars, panelVars
  <2>3. QED
    BY <2>1, <2>2, ControlMove
<1>2. ASSUME NEW p \in Panel, NEW f \in Frame,
             Send(p, f)
      PROVE  Control'
  BY <1>2 DEF Control, Running, HasFrames, TypeOK, Send, Sendable, serverVars, linkVars, taskVars, socketVars, panelVars
<1>3. ASSUME NEW p \in Panel,
             HearAck(p)
      PROVE  Control'
  BY <1>3 DEF Control, Running, HasFrames, TypeOK, HearAck, serverVars, linkVars, taskVars, socketVars, panelVars
<1>4. ASSUME NEW p \in Panel,
             HangUp(p)
      PROVE  Control'
  BY <1>4 DEF Control, Running, HasFrames, TypeOK, HangUp, serverVars, linkVars, taskVars, socketVars, panelVars
<1>5. ASSUME NEW c \in Conn,
             NetworkReset(c)
      PROVE  Control'
  BY <1>5 DEF Control, Running, HasFrames, TypeOK, NetworkReset, serverVars, linkVars, taskVars, socketVars, panelVars
<1>5a. ASSUME NEW c \in Conn,
              Flush(c)
       PROVE  Control'
  BY <1>5a DEF Control, Running, HasFrames, TypeOK, Flush, PCs, serverVars, linkVars, panelVars
<1>6. ASSUME Stop
      PROVE  Control'
  BY <1>6 DEF Control, Running, HasFrames, TypeOK, Stop, Close, serverVars, linkVars, taskVars, socketVars, panelVars
<1>7. ASSUME StopReturns
      PROVE  Control'
  BY <1>7 DEF Control, Running, HasFrames, TypeOK, StopReturns, serverVars, linkVars, taskVars, socketVars, panelVars
<1>8. ASSUME Start
      PROVE  Control'
  BY <1>8 DEF Control, Running, HasFrames, TypeOK, Start, serverVars, linkVars, taskVars, socketVars, panelVars
<1>9. ASSUME NEW s \in Configured,
             SetKnown(s)
      PROVE  Control'
  BY <1>9 DEF Control, Running, HasFrames, TypeOK, SetKnown, serverVars, linkVars, taskVars, socketVars, panelVars
<1>10. ASSUME NEW c \in Conn,
              OnClient(c)
       PROVE  Control'
  BY <1>10 DEF Control, Running, HasFrames, TypeOK, OnClient, serverVars, linkVars, taskVars, socketVars, panelVars
<1>11. ASSUME NEW c \in Conn,
              Read(c)
       PROVE  Control'
  <2>1. /\ \A d \in Conn \ {c} : /\ pc'[d] = pc[d] /\ chunk'[d] = chunk[d]
                                 /\ link'[d] = link[d] /\ reply'[d] = reply[d]
                                 /\ dialler'[d] = dialler[d]
        /\ loop \in {NoConn, c} /\ loop' \in {NoConn, c}
    BY <1>11 DEF TypeOK, Read, taskVars, panelVars
  <2>2. /\ loop' = c <=> pc'[c] \in Running
        /\ pc'[c] \in HasFrames => chunk'[c] # <<>>
        /\ link'[c] # NoPanel => link'[c] = dialler'[c]
        /\ pc'[c] # "idle" => dialler'[c] # NoPanel
        /\ reply'[c] = "accept" => link'[c] # NoPanel
    BY <1>11, ConnAssumption DEF TypeOK, Control, Running, HasFrames, Read, taskVars, panelVars
  <2>3. QED
    BY <2>1, <2>2, ControlMove
<1>12. ASSUME NEW c \in Conn,
              ReadEnds(c)
       PROVE  Control'
  BY <1>12 DEF Control, Running, HasFrames, TypeOK, ReadEnds, Abort, serverVars, linkVars, taskVars, socketVars, panelVars
<1>13. ASSUME NEW c \in Conn,
              HandleAnswered(c)
       PROVE  Control'
  BY <1>13 DEF Control, Running, HasFrames, TypeOK, HandleAnswered, serverVars, linkVars, taskVars, socketVars, panelVars
<1>14. ASSUME NEW c \in Conn,
              HandleUnanswered(c)
       PROVE  Control'
  BY <1>14 DEF Control, Running, HasFrames, TypeOK, HandleUnanswered, serverVars, linkVars, taskVars, socketVars, panelVars
<1>15. ASSUME NEW c \in Conn,
              IdentifyRefused(c)
       PROVE  Control'
  BY <1>15 DEF Control, Running, HasFrames, TypeOK, IdentifyRefused, serverVars, linkVars, taskVars, socketVars, panelVars
<1>16. ASSUME NEW c \in Conn,
              IdentifyAccepted(c)
       PROVE  Control'
  BY <1>16 DEF Control, Running, HasFrames, TypeOK, IdentifyAccepted, Bind, Close, Accepts, serverVars, linkVars, taskVars, socketVars, panelVars
<1>17. ASSUME NEW c \in Conn,
              IdentifyRaises(c)
       PROVE  Control'
  <2>1. /\ \A d \in Conn \ {c} : /\ pc'[d] = pc[d] /\ chunk'[d] = chunk[d]
                                 /\ link'[d] = link[d] /\ reply'[d] = reply[d]
                                 /\ dialler'[d] = dialler[d]
        /\ loop \in {NoConn, c} /\ loop' \in {NoConn, c}
    BY <1>17 DEF TypeOK, IdentifyRaises, Abort, taskVars, panelVars
  <2>2. /\ loop' = c <=> pc'[c] \in Running
        /\ pc'[c] \in HasFrames => chunk'[c] # <<>>
        /\ link'[c] # NoPanel => link'[c] = dialler'[c]
        /\ pc'[c] # "idle" => dialler'[c] # NoPanel
        /\ reply'[c] = "accept" => link'[c] # NoPanel
    BY <1>17, ConnAssumption DEF TypeOK, Control, Running, HasFrames, IdentifyRaises, Abort, taskVars, panelVars
  <2>3. QED
    BY <2>1, <2>2, ControlMove
<1>18. ASSUME NEW c \in Conn,
              SkipWrite(c)
       PROVE  Control'
  BY <1>18 DEF Control, Running, HasFrames, TypeOK, SkipWrite, serverVars, linkVars, taskVars, socketVars, panelVars
<1>19. ASSUME NEW c \in Conn,
              AwaitLock(c)
       PROVE  Control'
  <2>1. /\ \A d \in Conn \ {c} : /\ pc'[d] = pc[d] /\ chunk'[d] = chunk[d]
                                 /\ link'[d] = link[d] /\ reply'[d] = reply[d]
                                 /\ dialler'[d] = dialler[d]
        /\ loop \in {NoConn, c} /\ loop' \in {NoConn, c}
    BY <1>19 DEF TypeOK, AwaitLock, taskVars, panelVars
  <2>2. /\ loop' = c <=> pc'[c] \in Running
        /\ pc'[c] \in HasFrames => chunk'[c] # <<>>
        /\ link'[c] # NoPanel => link'[c] = dialler'[c]
        /\ pc'[c] # "idle" => dialler'[c] # NoPanel
        /\ reply'[c] = "accept" => link'[c] # NoPanel
    BY <1>19, ConnAssumption DEF TypeOK, Control, Running, HasFrames, AwaitLock, taskVars, panelVars
  <2>3. QED
    BY <2>1, <2>2, ControlMove
<1>20. ASSUME NEW c \in Conn,
              WriteFrame(c)
       PROVE  Control'
  <2>1. /\ \A d \in Conn \ {c} : /\ pc'[d] = pc[d] /\ chunk'[d] = chunk[d]
                                 /\ link'[d] = link[d] /\ reply'[d] = reply[d]
                                 /\ dialler'[d] = dialler[d]
        /\ loop \in {NoConn, c} /\ loop' \in {NoConn, c}
    BY <1>20 DEF TypeOK, WriteFrame, taskVars, panelVars
  <2>2. /\ loop' = c <=> pc'[c] \in Running
        /\ pc'[c] \in HasFrames => chunk'[c] # <<>>
        /\ link'[c] # NoPanel => link'[c] = dialler'[c]
        /\ pc'[c] # "idle" => dialler'[c] # NoPanel
        /\ reply'[c] = "accept" => link'[c] # NoPanel
    BY <1>20, ConnAssumption DEF TypeOK, Control, Running, HasFrames, WriteFrame, taskVars, panelVars
  <2>3. QED
    BY <2>1, <2>2, ControlMove
<1>21. ASSUME NEW c \in Conn,
              DrainReturns(c)
       PROVE  Control'
  <2>1. /\ \A d \in Conn \ {c} : /\ pc'[d] = pc[d] /\ chunk'[d] = chunk[d]
                                 /\ link'[d] = link[d] /\ reply'[d] = reply[d]
                                 /\ dialler'[d] = dialler[d]
        /\ loop \in {NoConn, c} /\ loop' \in {NoConn, c}
    BY <1>21 DEF TypeOK, DrainReturns, taskVars, panelVars
  <2>2. /\ loop' = c <=> pc'[c] \in Running
        /\ pc'[c] \in HasFrames => chunk'[c] # <<>>
        /\ link'[c] # NoPanel => link'[c] = dialler'[c]
        /\ pc'[c] # "idle" => dialler'[c] # NoPanel
        /\ reply'[c] = "accept" => link'[c] # NoPanel
    BY <1>21, ConnAssumption DEF TypeOK, Control, Running, HasFrames, DrainReturns, taskVars, panelVars
  <2>3. QED
    BY <2>1, <2>2, ControlMove
<1>22. ASSUME NEW c \in Conn,
              DrainRaises(c)
       PROVE  Control'
  BY <1>22 DEF Control, Running, HasFrames, TypeOK, DrainRaises, Abort, serverVars, linkVars, taskVars, socketVars, panelVars
<1>23. ASSUME NEW c \in Conn,
              AfterAck(c)
       PROVE  Control'
  <2>1. /\ \A d \in Conn \ {c} : /\ pc'[d] = pc[d] /\ chunk'[d] = chunk[d]
                                 /\ link'[d] = link[d] /\ reply'[d] = reply[d]
                                 /\ dialler'[d] = dialler[d]
        /\ loop \in {NoConn, c} /\ loop' \in {NoConn, c}
    BY <1>23 DEF TypeOK, AfterAck, NextFrame, Abort, taskVars, panelVars
  <2>2. /\ link'[c] # NoPanel => link'[c] = dialler'[c]
        /\ dialler'[c] # NoPanel
        /\ reply'[c] # "accept"
    BY <1>23 DEF TypeOK, Control, AfterAck, NextFrame, Abort, taskVars, panelVars
  <2>3. /\ loop' = c <=> pc'[c] \in Running
        /\ pc'[c] \in HasFrames => chunk'[c] # <<>>
    <3>1. CASE NextFrame(c)
      <4>1. chunk[c] # <<>> /\ chunk[c] \in Seq(Frame)
        BY <1>23 DEF TypeOK, Control, Running, HasFrames, AfterAck
      <4>2. Len(chunk[c]) # 1 => Tail(chunk[c]) # <<>>
        BY <4>1, TailNotEmpty
      <4>3. QED
        BY <1>23, <3>1, <4>2, ConnAssumption DEF TypeOK, Running, HasFrames, NextFrame, AfterAck
    <3>2. CASE Abort(c)
      BY <1>23, <3>2, ConnAssumption DEF TypeOK, Running, HasFrames, Abort
    <3>3. QED
      BY <1>23, <3>1, <3>2 DEF AfterAck
  <2>4. QED
    BY <2>1, <2>2, <2>3, ControlMove
<1>24. ASSUME NEW c \in Conn,
              AfterAccept(c)
       PROVE  Control'
  <2>1. /\ \A d \in Conn \ {c} : /\ pc'[d] = pc[d] /\ chunk'[d] = chunk[d]
                                 /\ link'[d] = link[d] /\ reply'[d] = reply[d]
                                 /\ dialler'[d] = dialler[d]
        /\ loop \in {NoConn, c} /\ loop' \in {NoConn, c}
    BY <1>24 DEF TypeOK, AfterAccept, NextFrame, Abort, taskVars, panelVars
  <2>2. /\ link'[c] # NoPanel => link'[c] = dialler'[c]
        /\ dialler'[c] # NoPanel
        /\ reply'[c] # "accept"
    BY <1>24 DEF TypeOK, Control, AfterAccept, NextFrame, Abort, taskVars, panelVars
  <2>3. /\ loop' = c <=> pc'[c] \in Running
        /\ pc'[c] \in HasFrames => chunk'[c] # <<>>
    <3>1. CASE NextFrame(c)
      <4>1. chunk[c] # <<>> /\ chunk[c] \in Seq(Frame)
        BY <1>24 DEF TypeOK, Control, Running, HasFrames, AfterAccept
      <4>2. Len(chunk[c]) # 1 => Tail(chunk[c]) # <<>>
        BY <4>1, TailNotEmpty
      <4>3. QED
        BY <1>24, <3>1, <4>2, ConnAssumption DEF TypeOK, Running, HasFrames, NextFrame, AfterAccept
    <3>2. CASE Abort(c)
      BY <1>24, <3>2, ConnAssumption DEF TypeOK, Running, HasFrames, Abort
    <3>3. QED
      BY <1>24, <3>1, <3>2 DEF AfterAccept
  <2>4. QED
    BY <2>1, <2>2, <2>3, ControlMove
<1>25. ASSUME NEW c \in Conn,
              AfterRefuse(c)
       PROVE  Control'
  <2>1. /\ \A d \in Conn \ {c} : /\ pc'[d] = pc[d] /\ chunk'[d] = chunk[d]
                                 /\ link'[d] = link[d] /\ reply'[d] = reply[d]
                                 /\ dialler'[d] = dialler[d]
        /\ loop \in {NoConn, c} /\ loop' \in {NoConn, c}
    BY <1>25 DEF TypeOK, AfterRefuse, NextFrame, Abort, taskVars, panelVars
  <2>2. /\ link'[c] # NoPanel => link'[c] = dialler'[c]
        /\ dialler'[c] # NoPanel
        /\ reply'[c] # "accept"
    BY <1>25 DEF TypeOK, Control, AfterRefuse, NextFrame, Abort, taskVars, panelVars
  <2>3. /\ loop' = c <=> pc'[c] \in Running
        /\ pc'[c] \in HasFrames => chunk'[c] # <<>>
    <3>1. CASE NextFrame(c)
      <4>1. chunk[c] # <<>> /\ chunk[c] \in Seq(Frame)
        BY <1>25 DEF TypeOK, Control, Running, HasFrames, AfterRefuse
      <4>2. Len(chunk[c]) # 1 => Tail(chunk[c]) # <<>>
        BY <4>1, TailNotEmpty
      <4>3. CASE Len(chunk[c]) = 1
        <5>1. pc' = [pc EXCEPT ![c] = "reading"] /\ loop' = NoConn
          BY <3>1, <4>3 DEF NextFrame
        <5>2. pc'[c] = "reading" /\ loop' # c
          BY <5>1, ConnAssumption DEF TypeOK
        <5>3. QED
          BY <5>2 DEF Running, HasFrames
      <4>4. CASE Len(chunk[c]) # 1
        <5>1. /\ pc' = [pc EXCEPT ![c] = "handling"] /\ loop' = c
              /\ chunk' = [chunk EXCEPT ![c] = Tail(@)]
          BY <1>25, <3>1, <4>4 DEF NextFrame, AfterRefuse
        <5>2. pc'[c] = "handling" /\ chunk'[c] = Tail(chunk[c])
          BY <5>1 DEF TypeOK
        <5>3. QED
          BY <4>2, <4>4, <5>1, <5>2 DEF Running
      <4>5. QED
        BY <4>3, <4>4
    <3>2. QED
      BY <1>25, <3>1 DEF AfterRefuse
  <2>4. QED
    BY <2>1, <2>2, <2>3, ControlMove
<1>26. ASSUME NEW c \in Conn,
              Shutdown(c)
       PROVE  Control'
  BY <1>26 DEF Control, Running, HasFrames, TypeOK, Shutdown, Unbind, Close, serverVars, linkVars, taskVars, socketVars, panelVars
<1>27. ASSUME NEW c \in Conn,
              Closed(c)
       PROVE  Control'
  BY <1>27 DEF Control, Running, HasFrames, TypeOK, Closed, serverVars, linkVars, taskVars, socketVars, panelVars
<1>28. CASE UNCHANGED vars
  BY <1>28 DEF Control, Running, HasFrames, TypeOK, vars, serverVars, linkVars, taskVars, socketVars, panelVars
<1>29. QED
  BY <1>1, <1>2, <1>3, <1>4, <1>5, <1>5a, <1>6, <1>7, <1>8, <1>9, <1>10, <1>11, <1>12, <1>13, <1>14, <1>15, <1>16, <1>17, <1>18, <1>19, <1>20, <1>21, <1>22, <1>23, <1>24, <1>25, <1>26, <1>27, <1>28 DEF Next, PanelStep, OwnerStep, Task

\* Every step keeps links and sockets together.
LEMMA AttachedStep == ASSUME IInv, [Next]_vars PROVE Attached'
<1> USE DEF IInv
<1>1. ASSUME NEW p \in Panel, NEW c \in Conn,
             Dial(p, c)
      PROVE  Attached'
  BY <1>1 DEF Attached, BoundIsServed, OthersAreClosing, AvailabilityIsTrue, Serving, TypeOK, Dial, Plain, serverVars, linkVars, taskVars, socketVars, panelVars
<1>2. ASSUME NEW p \in Panel, NEW f \in Frame,
             Send(p, f)
      PROVE  Attached'
  BY <1>2 DEF Attached, BoundIsServed, OthersAreClosing, AvailabilityIsTrue, Serving, TypeOK, Send, Sendable, serverVars, linkVars, taskVars, socketVars, panelVars
<1>3. ASSUME NEW p \in Panel,
             HearAck(p)
      PROVE  Attached'
  BY <1>3 DEF Attached, BoundIsServed, OthersAreClosing, AvailabilityIsTrue, Serving, TypeOK, HearAck, serverVars, linkVars, taskVars, socketVars, panelVars
<1>4. ASSUME NEW p \in Panel,
             HangUp(p)
      PROVE  Attached'
  BY <1>4 DEF Attached, BoundIsServed, OthersAreClosing, AvailabilityIsTrue, Serving, TypeOK, HangUp, serverVars, linkVars, taskVars, socketVars, panelVars
<1>5. ASSUME NEW c \in Conn,
             NetworkReset(c)
      PROVE  Attached'
  BY <1>5 DEF Attached, BoundIsServed, OthersAreClosing, AvailabilityIsTrue, Serving, TypeOK, NetworkReset, serverVars, linkVars, taskVars, socketVars, panelVars
<1>5a. ASSUME NEW c \in Conn,
              Flush(c)
       PROVE  Attached'
  BY <1>5a DEF Attached, BoundIsServed, OthersAreClosing, AvailabilityIsTrue, Serving, TypeOK, Flush, serverVars, linkVars, panelVars
<1>6. ASSUME Stop
      PROVE  Attached'
  BY <1>6 DEF Attached, BoundIsServed, OthersAreClosing, AvailabilityIsTrue, Serving, TypeOK, Stop, Close, serverVars, linkVars, taskVars, socketVars, panelVars
<1>7. ASSUME StopReturns
      PROVE  Attached'
  BY <1>7 DEF Attached, BoundIsServed, OthersAreClosing, AvailabilityIsTrue, Serving, TypeOK, StopReturns, serverVars, linkVars, taskVars, socketVars, panelVars
<1>8. ASSUME Start
      PROVE  Attached'
  BY <1>8 DEF Attached, BoundIsServed, OthersAreClosing, AvailabilityIsTrue, Serving, TypeOK, Start, serverVars, linkVars, taskVars, socketVars, panelVars
<1>9. ASSUME NEW s \in Configured,
             SetKnown(s)
      PROVE  Attached'
  BY <1>9 DEF Attached, BoundIsServed, OthersAreClosing, AvailabilityIsTrue, Serving, TypeOK, SetKnown, serverVars, linkVars, taskVars, socketVars, panelVars
<1>10. ASSUME NEW c \in Conn,
              OnClient(c)
       PROVE  Attached'
  BY <1>10 DEF Attached, BoundIsServed, OthersAreClosing, AvailabilityIsTrue, Serving, TypeOK, OnClient, serverVars, linkVars, taskVars, socketVars, panelVars
<1>11. ASSUME NEW c \in Conn,
              Read(c)
       PROVE  Attached'
  BY <1>11 DEF Attached, BoundIsServed, OthersAreClosing, AvailabilityIsTrue, Serving, TypeOK, Read, serverVars, linkVars, taskVars, socketVars, panelVars
<1>12. ASSUME NEW c \in Conn,
              ReadEnds(c)
       PROVE  Attached'
  BY <1>12 DEF Attached, BoundIsServed, OthersAreClosing, AvailabilityIsTrue, Serving, TypeOK, ReadEnds, Abort, serverVars, linkVars, taskVars, socketVars, panelVars
<1>13. ASSUME NEW c \in Conn,
              HandleAnswered(c)
       PROVE  Attached'
  BY <1>13 DEF Attached, BoundIsServed, OthersAreClosing, AvailabilityIsTrue, Serving, TypeOK, HandleAnswered, serverVars, linkVars, taskVars, socketVars, panelVars
<1>14. ASSUME NEW c \in Conn,
              HandleUnanswered(c)
       PROVE  Attached'
  BY <1>14 DEF Attached, BoundIsServed, OthersAreClosing, AvailabilityIsTrue, Serving, TypeOK, HandleUnanswered, serverVars, linkVars, taskVars, socketVars, panelVars
<1>15. ASSUME NEW c \in Conn,
              IdentifyRefused(c)
       PROVE  Attached'
  BY <1>15 DEF Attached, BoundIsServed, OthersAreClosing, AvailabilityIsTrue, Serving, TypeOK, IdentifyRefused, serverVars, linkVars, taskVars, socketVars, panelVars
<1>16. ASSUME NEW c \in Conn,
              IdentifyAccepted(c)
       PROVE  Attached'
  <2> DEFINE p == dialler[c]
  <2>1. p \in Panel /\ link'[c] = p /\ bound' = [bound EXCEPT ![p] = c]
    BY <1>16 DEF TypeOK, Control, IdentifyAccepted, Bind
  <2>2. /\ \A d \in Conn \ {c} : pc'[d] = pc[d] /\ link'[d] = link[d]
        /\ pc[c] = "handling" /\ pc'[c] \in {"write", "shutdown"}
        /\ \A d \in Conn : closing[d] => closing'[d]
        /\ pc'[c] = "shutdown" => closing'[c]
        /\ link[c] \in {NoPanel, p}
    BY <1>16 DEF TypeOK, Control, IdentifyAccepted, Bind, Abort, Close
  <2>3. BoundIsServed'
    <3> SUFFICES ASSUME NEW q \in Panel, bound'[q] # NoConn
                 PROVE  link'[bound'[q]] = q /\ pc'[bound'[q]] \in Serving
      BY DEF BoundIsServed
    <3>1. CASE q = p
      BY <2>1, <2>2, <3>1 DEF TypeOK, Serving
    <3>2. CASE q # p
      <4>1. bound'[q] = bound[q] /\ bound[q] \in Conn
        BY <2>1, <3>2 DEF TypeOK
      <4>2. link[bound[q]] = q /\ pc[bound[q]] \in Serving
        BY <4>1 DEF Attached, BoundIsServed
      <4>3. bound[q] # c
        BY <4>2, <2>2, <3>2, ConnAssumption
      <4>4. QED
        BY <4>1, <4>2, <4>3, <2>2
    <3>3. QED
      BY <3>1, <3>2
  <2>4. bound[p] \notin {NoConn, c} => closing'[bound[p]]
    BY <1>16, <2>1 DEF TypeOK, IdentifyAccepted, Bind, Close
  <2>5. OthersAreClosing'
    <3> SUFFICES ASSUME NEW d \in Conn, link'[d] # NoPanel, bound'[link'[d]] # d
                 PROVE  closing'[d]
      BY DEF OthersAreClosing
    <3>1. d # c /\ link'[d] = link[d] /\ link[d] \in Panel
      BY <2>1, <2>2 DEF TypeOK
    <3>2. CASE bound[link[d]] # d
      BY <2>2, <3>1, <3>2 DEF Attached, OthersAreClosing
    <3>3. CASE bound[link[d]] = d
      BY <2>1, <2>4, <3>1, <3>3, ConnAssumption DEF TypeOK
    <3>4. QED
      BY <3>2, <3>3
  <2>6. AvailabilityIsTrue'
    <3>1. \A q \in Panel \ {p} : bound'[q] = bound[q]
      BY <2>1 DEF TypeOK
    <3>2. bound'[p] # NoConn
      BY <2>1, ConnAssumption DEF TypeOK
    <3>3. CASE bound[p] \in {NoConn, c}
      <4>1. NotifyAvailability(p, TRUE, Listeners)
        BY <1>16, <3>3 DEF IdentifyAccepted, Bind
      <4>2. /\ \A q \in Panel \ {p} : avail'[q] = avail[q]
            /\ \A l \in Reached : avail'[p][l] = TRUE
        BY <2>1, <4>1, NotifyFacts
      <4>3. QED
        BY <3>1, <3>2, <4>2 DEF Attached, AvailabilityIsTrue
    <3>4. CASE bound[p] \notin {NoConn, c}
      <4>1. avail' = avail
        BY <1>16, <3>4 DEF IdentifyAccepted, Bind
      <4>2. QED
        BY <3>1, <3>2, <3>4, <4>1 DEF Attached, AvailabilityIsTrue
    <3>5. QED
      BY <3>3, <3>4
  <2>7. /\ \A d \in Conn : pc'[d] \in {"shutdown", "closing", "done"} => closing'[d]
        /\ \A d \in Conn : pc'[d] \in {"idle", "accepted"} => link'[d] = NoPanel
    BY <2>2 DEF Attached
  <2>8. QED
    BY <2>3, <2>5, <2>6, <2>7 DEF Attached
<1>17. ASSUME NEW c \in Conn,
              IdentifyRaises(c)
       PROVE  Attached'
  <2> DEFINE p == dialler[c]
  <2>1. p \in Panel /\ link'[c] = p /\ bound' = [bound EXCEPT ![p] = c]
    BY <1>17 DEF TypeOK, Control, IdentifyRaises
  <2>2. /\ \A d \in Conn \ {c} : pc'[d] = pc[d] /\ link'[d] = link[d]
        /\ pc[c] = "handling" /\ pc'[c] \in {"write", "shutdown"}
        /\ \A d \in Conn : closing[d] => closing'[d]
        /\ pc'[c] = "shutdown" => closing'[c]
        /\ link[c] \in {NoPanel, p}
    BY <1>17 DEF TypeOK, Control, IdentifyRaises, Abort
  <2>3. BoundIsServed'
    <3> SUFFICES ASSUME NEW q \in Panel, bound'[q] # NoConn
                 PROVE  link'[bound'[q]] = q /\ pc'[bound'[q]] \in Serving
      BY DEF BoundIsServed
    <3>1. CASE q = p
      BY <2>1, <2>2, <3>1 DEF TypeOK, Serving
    <3>2. CASE q # p
      <4>1. bound'[q] = bound[q] /\ bound[q] \in Conn
        BY <2>1, <3>2 DEF TypeOK
      <4>2. link[bound[q]] = q /\ pc[bound[q]] \in Serving
        BY <4>1 DEF Attached, BoundIsServed
      <4>3. bound[q] # c
        BY <4>2, <2>2, <3>2, ConnAssumption
      <4>4. QED
        BY <4>1, <4>2, <4>3, <2>2
    <3>3. QED
      BY <3>1, <3>2
  <2>4. bound[p] \notin {NoConn, c} => closing'[bound[p]]
    BY <1>17, <2>1 DEF TypeOK, IdentifyRaises, Announces
  <2>5. OthersAreClosing'
    <3> SUFFICES ASSUME NEW d \in Conn, link'[d] # NoPanel, bound'[link'[d]] # d
                 PROVE  closing'[d]
      BY DEF OthersAreClosing
    <3>1. d # c /\ link'[d] = link[d] /\ link[d] \in Panel
      BY <2>1, <2>2 DEF TypeOK
    <3>2. CASE bound[link[d]] # d
      BY <2>2, <3>1, <3>2 DEF Attached, OthersAreClosing
    <3>3. CASE bound[link[d]] = d
      BY <2>1, <2>4, <3>1, <3>3, ConnAssumption DEF TypeOK
    <3>4. QED
      BY <3>2, <3>3
  <2>6. AvailabilityIsTrue'
    <3>1. \A q \in Panel \ {p} : bound'[q] = bound[q]
      BY <2>1 DEF TypeOK
    <3>2. bound'[p] # NoConn
      BY <2>1, ConnAssumption DEF TypeOK
    <3>3. PICK n \in Raising : NotifyAvailability(p, TRUE, n)
      BY <1>17 DEF IdentifyRaises
    <3>4. /\ \A q \in Panel \ {p} : avail'[q] = avail[q]
          /\ \A l \in Reached : avail'[p][l] = TRUE
      BY <2>1, <3>3, NotifyFacts
    <3>5. QED
      BY <3>1, <3>2, <3>4 DEF Attached, AvailabilityIsTrue
  <2>7. /\ \A d \in Conn : pc'[d] \in {"shutdown", "closing", "done"} => closing'[d]
        /\ \A d \in Conn : pc'[d] \in {"idle", "accepted"} => link'[d] = NoPanel
    BY <2>2 DEF Attached
  <2>8. QED
    BY <2>3, <2>5, <2>6, <2>7 DEF Attached
<1>18. ASSUME NEW c \in Conn,
              SkipWrite(c)
       PROVE  Attached'
  BY <1>18 DEF Attached, BoundIsServed, OthersAreClosing, AvailabilityIsTrue, Serving, TypeOK, SkipWrite, serverVars, linkVars, taskVars, socketVars, panelVars
<1>19. ASSUME NEW c \in Conn,
              AwaitLock(c)
       PROVE  Attached'
  BY <1>19 DEF Attached, BoundIsServed, OthersAreClosing, AvailabilityIsTrue, Serving, TypeOK, AwaitLock, serverVars, linkVars, taskVars, socketVars, panelVars
<1>20. ASSUME NEW c \in Conn,
              WriteFrame(c)
       PROVE  Attached'
  <2>1. /\ UNCHANGED <<bound, avail, link>>
        /\ \A d \in Conn : closing[d] => closing'[d]
        /\ \A d \in Conn \ {c} : pc'[d] = pc[d]
        /\ pc[c] \in Serving /\ pc'[c] \in Serving
        /\ pc'[c] = "shutdown" => closing'[c]
    BY <1>20 DEF TypeOK, Serving, WriteFrame, linkVars, taskVars, socketVars
  <2>2. QED
    BY <2>1, AttachedMove
<1>21. ASSUME NEW c \in Conn,
              DrainReturns(c)
       PROVE  Attached'
  BY <1>21 DEF Attached, BoundIsServed, OthersAreClosing, AvailabilityIsTrue, Serving, TypeOK, DrainReturns, serverVars, linkVars, taskVars, socketVars, panelVars
<1>22. ASSUME NEW c \in Conn,
              DrainRaises(c)
       PROVE  Attached'
  BY <1>22 DEF Attached, BoundIsServed, OthersAreClosing, AvailabilityIsTrue, Serving, TypeOK, DrainRaises, Abort, serverVars, linkVars, taskVars, socketVars, panelVars
<1>23. ASSUME NEW c \in Conn,
              AfterAck(c)
       PROVE  Attached'
  <2>1. /\ UNCHANGED <<bound, avail, link>>
        /\ \A d \in Conn : closing[d] => closing'[d]
        /\ \A d \in Conn \ {c} : pc'[d] = pc[d]
        /\ pc[c] \in Serving /\ pc'[c] \in Serving
        /\ pc'[c] = "shutdown" => closing'[c]
    <3>1. CASE NextFrame(c) /\ UNCHANGED closing
      BY <1>23, <3>1 DEF TypeOK, Serving, AfterAck, NextFrame
    <3>2. CASE Abort(c)
      BY <1>23, <3>2 DEF TypeOK, Serving, AfterAck, Abort
    <3>3. QED
      BY <1>23, <3>1, <3>2 DEF AfterAck
  <2>2. QED
    BY <2>1, AttachedMove
<1>24. ASSUME NEW c \in Conn,
              AfterAccept(c)
       PROVE  Attached'
  <2>1. /\ UNCHANGED <<bound, avail, link>>
        /\ \A d \in Conn : closing[d] => closing'[d]
        /\ \A d \in Conn \ {c} : pc'[d] = pc[d]
        /\ pc[c] \in Serving /\ pc'[c] \in Serving
        /\ pc'[c] = "shutdown" => closing'[c]
    BY <1>24 DEF TypeOK, Serving, AfterAccept, NextFrame, Abort, linkVars, taskVars, socketVars
  <2>2. QED
    BY <2>1, AttachedMove
<1>25. ASSUME NEW c \in Conn,
              AfterRefuse(c)
       PROVE  Attached'
  <2>1. /\ UNCHANGED <<bound, avail, link>>
        /\ \A d \in Conn : closing[d] => closing'[d]
        /\ \A d \in Conn \ {c} : pc'[d] = pc[d]
        /\ pc[c] \in Serving /\ pc'[c] \in Serving
        /\ pc'[c] = "shutdown" => closing'[c]
    BY <1>25 DEF TypeOK, Serving, AfterRefuse, NextFrame, Close, linkVars, taskVars, socketVars
  <2>2. QED
    BY <2>1, AttachedMove
<1>26. ASSUME NEW c \in Conn,
              Shutdown(c)
       PROVE  Attached'
  <2>1. /\ \A d \in Conn : closing[d] => closing'[d]
        /\ closing'[c]
        /\ \A d \in Conn \ {c} : pc'[d] = pc[d]
        /\ pc[c] = "shutdown" /\ pc'[c] \in {"closing", "done"}
        /\ link' = link
    BY <1>26 DEF TypeOK, Shutdown, Close, taskVars
  <2>2. ASSUME NEW q \in Panel
        PROVE  /\ bound[q] = c => bound'[q] = NoConn /\ \A l \in Reached : ~avail'[q][l]
               /\ bound[q] # c => bound'[q] = bound[q] /\ avail'[q] = avail[q]
    <3>1. bound[q] = c => link[c] = q
      BY ConnAssumption DEF Attached, BoundIsServed
    <3>2. PICK n \in Raising \cup {Listeners} : Unbind(c, n)
      BY <1>26 DEF Shutdown
    <3>3. IF link[c] = q /\ bound[q] = c
            THEN bound'[q] = NoConn /\ \A l \in Reached : ~avail'[q][l]
            ELSE bound'[q] = bound[q] /\ avail'[q] = avail[q]
      BY <3>2, UnbindFacts
    <3>4. QED
      BY <3>1, <3>3
  <2>3. BoundIsServed' /\ AvailabilityIsTrue'
    <3>1. ASSUME NEW q \in Panel
          PROVE  /\ bound'[q] # NoConn => link[bound'[q]] = q /\ pc'[bound'[q]] \in Serving
                 /\ \A l \in Reached : avail'[q][l] <=> bound'[q] # NoConn
      <4>1. CASE bound[q] = c
        BY <2>2, <4>1
      <4>2. CASE bound[q] # c
        <5>1. bound'[q] = bound[q] /\ avail'[q] = avail[q]
          BY <2>2, <4>2
        <5>2. /\ bound[q] # NoConn => link[bound[q]] = q /\ pc[bound[q]] \in Serving
              /\ \A l \in Reached : avail[q][l] <=> bound[q] # NoConn
          BY DEF Attached, BoundIsServed, AvailabilityIsTrue
        <5>3. bound[q] # NoConn => bound[q] \in Conn \ {c}
          BY <4>2 DEF TypeOK
        <5> QED
          BY <2>1, <5>1, <5>2, <5>3
      <4> QED
        BY <4>1, <4>2
    <3> QED
      BY <2>1, <3>1 DEF BoundIsServed, AvailabilityIsTrue
  <2>4. OthersAreClosing'
    <3> SUFFICES ASSUME NEW d \in Conn, link[d] # NoPanel, bound'[link[d]] # d
                 PROVE  closing'[d]
      BY <2>1 DEF OthersAreClosing
    <3>1. CASE d = c
      BY <2>1, <3>1
    <3>2. CASE d # c
      BY <2>1, <2>2, <3>2 DEF TypeOK, Attached, OthersAreClosing
    <3>3. QED
      BY <3>1, <3>2
  <2>5. /\ \A d \in Conn : pc'[d] \in {"shutdown", "closing", "done"} => closing'[d]
        /\ \A d \in Conn : pc'[d] \in {"idle", "accepted"} => link'[d] = NoPanel
    BY <2>1 DEF Attached
  <2>6. QED
    BY <2>3, <2>4, <2>5 DEF Attached
<1>27. ASSUME NEW c \in Conn,
              Closed(c)
       PROVE  Attached'
  BY <1>27 DEF Attached, BoundIsServed, OthersAreClosing, AvailabilityIsTrue, Serving, TypeOK, Closed, serverVars, linkVars, taskVars, socketVars, panelVars
<1>28. CASE UNCHANGED vars
  BY <1>28 DEF Attached, BoundIsServed, OthersAreClosing, AvailabilityIsTrue, Serving, TypeOK, vars, serverVars, linkVars, taskVars, socketVars, panelVars
<1>29. QED
  BY <1>1, <1>2, <1>3, <1>4, <1>5, <1>5a, <1>6, <1>7, <1>8, <1>9, <1>10, <1>11, <1>12, <1>13, <1>14, <1>15, <1>16, <1>17, <1>18, <1>19, <1>20, <1>21, <1>22, <1>23, <1>24, <1>25, <1>26, <1>27, <1>28 DEF Next, PanelStep, OwnerStep, Task

\* No socket has been accepted at first.
LEMMA InitIInv == Init => IInv
<1> SUFFICES ASSUME Init PROVE IInv
  OBVIOUS
<1>1. TypeOK
  BY BoundAssumption, ServerAssumption, SeqFacts DEF Init, TypeOK, PCs, Sockets
<1>2. Control
  BY ConnAssumption DEF Init, Control, Running, HasFrames
<1>3. Attached
  <2>1. \A p \in Panel : \A l \in Reached : ~avail[p][l]
    BY DEF Init, Reached
  <2>2. QED
    BY <2>1 DEF Init, Attached, BoundIsServed, OthersAreClosing, AvailabilityIsTrue
<1>4. QED
  BY <1>1, <1>2, <1>3 DEF IInv

\* The three parts of the invariant hold together, whatever the panels, the network and the owner do.
THEOREM Invariance == Spec => []IInv
<1>1. Init => IInv
  BY InitIInv
<1>2. IInv /\ [Next]_vars => IInv'
  BY TypeStep, ControlStep, AttachedStep DEF IInv
<1>3. QED
  BY <1>1, <1>2, PTL DEF Spec

-----------------------------------------------------------------------------
\* Every state of the listener is well typed.
THEOREM TypeCorrect == Spec => []TypeOK
BY Invariance, PTL DEF IInv

\* A link never points at a socket that nobody serves or that carries another
\* panel (JflPanelLink.bind and unbind, _PanelConnection._shutdown).
THEOREM BoundServed == Spec => []BoundIsServed
<1>1. IInv => BoundIsServed
  BY DEF IInv, Attached
<1>2. QED
  BY <1>1, Invariance, PTL

\* Every socket a panel introduced itself on, other than the bound one, is
\* closing: a panel never has two sockets in business (JflPanelLink.bind).
THEOREM OneSocketPerPanel == Spec => []OthersAreClosing
<1>1. IInv => OthersAreClosing
  BY DEF IInv, Attached
<1>2. QED
  BY <1>1, Invariance, PTL

\* The availability listeners were told the truth, in spite of the replacements
\* that bind and unbind keep from them: all of them if none may raise, otherwise
\* those up to the first that may (_notify_availability).
THEOREM AvailabilityTrue == Spec => []AvailabilityIsTrue
<1>1. IInv => AvailabilityIsTrue
  BY DEF IInv, Attached
<1>2. QED
  BY <1>1, Invariance, PTL

\* A panel loses its socket only in that socket's own shutdown.
LEMMA DetachStep ==
  ASSUME IInv, [Next]_vars, NEW p \in Panel, bound[p] # NoConn, bound'[p] = NoConn
  PROVE  pc[bound[p]] = "shutdown" /\ pc'[bound[p]] # "shutdown"
<1> USE DEF IInv
<1>1. ASSUME NEW c \in Conn, IdentifyAccepted(c) \/ IdentifyRaises(c)
      PROVE  FALSE
  <2>1. bound' = [bound EXCEPT ![dialler[c]] = c]
    BY <1>1 DEF IdentifyAccepted, IdentifyRaises, Bind
  <2>2. QED
    BY <2>1, ConnAssumption DEF TypeOK
<1>2. ASSUME NEW c \in Conn, Shutdown(c)
      PROVE  pc[bound[p]] = "shutdown" /\ pc'[bound[p]] # "shutdown"
  <2>1. PICK n \in Raising \cup {Listeners} : Unbind(c, n)
    BY <1>2 DEF Shutdown
  <2>2. bound[p] = c
    BY <2>1, UnbindFacts
  <2>3. QED
    BY <1>2, <2>2 DEF TypeOK, Shutdown
<1>3. UNCHANGED bound \/ \E c \in Conn : \/ IdentifyAccepted(c) \/ IdentifyRaises(c)
                                         \/ Shutdown(c)
  BY DEF Next, PanelStep, OwnerStep, Task, Dial, Send, HearAck, HangUp, NetworkReset, Flush,
         OnClient, Read, ReadEnds, HandleAnswered, HandleUnanswered, IdentifyRefused,
         SkipWrite, AwaitLock, WriteFrame, DrainReturns, DrainRaises, AfterAck,
         AfterAccept, AfterRefuse, Closed, Stop, StopReturns, Start, SetKnown, vars,
         linkVars
<1>4. QED
  BY <1>1, <1>2, <1>3

\* A panel is reported gone only by the shutdown of the socket it is bound to,
\* never by that of a stale one (JflPanelLink.unbind).
THEOREM StaleShutdownHarmless == Spec => OnlyOwnShutdownDetaches
<1>1. IInv /\ [Next]_vars =>
        [\A p \in Panel : bound[p] # NoConn /\ bound'[p] = NoConn =>
           pc[bound[p]] = "shutdown" /\ pc'[bound[p]] # "shutdown"]_vars
  BY DetachStep
<1>2. QED
  BY <1>1, Invariance, PTL DEF Spec, OnlyOwnShutdownDetaches

-----------------------------------------------------------------------------
\* A panel that was configured is never offered as a new one, whatever the order
\* of async_set_known_panels and of the discoveries (notify_connected).
THEOREM NeverOfferedTwice == Spec => []PendingIsUnknown
<1>1. Init => PendingIsUnknown
  BY DEF Init, PendingIsUnknown
<1>2. PendingIsUnknown /\ [Next]_vars => PendingIsUnknown'
  <2> SUFFICES ASSUME PendingIsUnknown, [Next]_vars PROVE PendingIsUnknown'
    OBVIOUS
  <2>1. ASSUME NEW c \in Conn, AfterAccept(c) PROVE PendingIsUnknown'
    BY <2>1 DEF AfterAccept, NotifyConnected, PendingIsUnknown
  <2>2. ASSUME NEW s \in Configured, SetKnown(s) PROVE PendingIsUnknown'
    BY <2>2 DEF SetKnown, PendingIsUnknown
  <2>3. CASE UNCHANGED <<known, pendingPanels>>
    BY <2>3 DEF PendingIsUnknown
  <2> QED
    BY <2>1, <2>2, <2>3
       DEF Next, PanelStep, OwnerStep, Task, Dial, Send, HearAck, HangUp, NetworkReset, Flush,
           OnClient, Read, ReadEnds, HandleAnswered, HandleUnanswered, IdentifyRefused,
           IdentifyAccepted, IdentifyRaises, SkipWrite, AwaitLock, WriteFrame, DrainReturns,
           DrainRaises, AfterAck, AfterRefuse, Shutdown, Closed, Stop, StopReturns, Start,
           vars, serverVars
<1> QED
  BY <1>1, <1>2, PTL DEF Spec

-----------------------------------------------------------------------------
\* A step that moves one served coroutine, and takes nothing back, misses nobody.
LEMMA MissedMove ==
  ASSUME UnregisteredIsClosing, NEW c \in Conn, pc[c] \in Serving, conns' = conns,
         \A d \in Conn : d # c => pc'[d] = pc[d],
         \A d \in Conn : closing[d] => closing'[d]
  PROVE  UnregisteredIsClosing'
BY DEF UnregisteredIsClosing

\* Where _consume goes next, or a failure takes it, other coroutines stay.
LEMMA OthersStay ==
  ASSUME TypeOK, NEW c \in Conn, NextFrame(c) \/ Abort(c)
  PROVE  \A d \in Conn : d # c => pc'[d] = pc[d]
BY DEF TypeOK, NextFrame, Abort

\* An aborted transport opens nothing that was closing.
LEMMA AbortCloses ==
  ASSUME TypeOK, NEW c \in Conn, Abort(c)
  PROVE  \A d \in Conn : closing[d] => closing'[d]
BY DEF TypeOK, Abort

\* async_stop misses no connection that is still served, unless that one is
\* closing already (_on_client registers, _shutdown forgets).
THEOREM NobodyIsMissed == Spec => []UnregisteredIsClosing
<1>1. Init => UnregisteredIsClosing
  BY DEF Init, UnregisteredIsClosing, Serving
<1>2. IInv /\ UnregisteredIsClosing /\ [Next]_vars => UnregisteredIsClosing'
  <2> SUFFICES ASSUME IInv, UnregisteredIsClosing, [Next]_vars PROVE UnregisteredIsClosing'
    OBVIOUS
  <2> USE DEF IInv
  <2>1. ASSUME NEW p \in Panel, NEW c \in Conn, Dial(p, c) PROVE UnregisteredIsClosing'
    BY <2>1 DEF Dial, UnregisteredIsClosing, Serving, TypeOK, serverVars, linkVars,
         taskVars, socketVars, panelVars
  <2>2. ASSUME NEW p \in Panel, NEW f \in Frame, Send(p, f) PROVE UnregisteredIsClosing'
    BY <2>2 DEF Send, UnregisteredIsClosing, Serving, TypeOK, serverVars, linkVars,
         taskVars, socketVars, panelVars
  <2>3. ASSUME NEW p \in Panel, HearAck(p) PROVE UnregisteredIsClosing'
    BY <2>3 DEF HearAck, UnregisteredIsClosing, Serving, TypeOK, serverVars, linkVars,
         taskVars, socketVars, panelVars
  <2>4. ASSUME NEW p \in Panel, HangUp(p) PROVE UnregisteredIsClosing'
    BY <2>4 DEF HangUp, UnregisteredIsClosing, Serving, TypeOK, serverVars, linkVars,
         taskVars, socketVars, panelVars
  <2>5. ASSUME NEW c \in Conn, NetworkReset(c) PROVE UnregisteredIsClosing'
    BY <2>5 DEF NetworkReset, UnregisteredIsClosing, Serving, TypeOK, serverVars,
         linkVars, taskVars, socketVars, panelVars
  <2>6. ASSUME NEW c \in Conn, Flush(c) PROVE UnregisteredIsClosing'
    BY <2>6 DEF Flush, UnregisteredIsClosing, Serving, TypeOK, serverVars, linkVars,
         taskVars, socketVars, panelVars
  <2>7. ASSUME NEW c \in Conn, OnClient(c) PROVE UnregisteredIsClosing'
    BY <2>7 DEF OnClient, UnregisteredIsClosing, Serving, TypeOK, serverVars, linkVars,
         taskVars, socketVars, panelVars
  <2>8. ASSUME NEW c \in Conn, Read(c) PROVE UnregisteredIsClosing'
    BY <2>8 DEF Read, UnregisteredIsClosing, Serving, TypeOK, serverVars, linkVars,
         taskVars, socketVars, panelVars
  <2>9. ASSUME NEW c \in Conn, ReadEnds(c) PROVE UnregisteredIsClosing'
    BY <2>9 DEF ReadEnds, UnregisteredIsClosing, Serving, TypeOK, Abort, serverVars,
         linkVars, taskVars, socketVars, panelVars
  <2>10. ASSUME NEW c \in Conn, HandleAnswered(c) PROVE UnregisteredIsClosing'
    BY <2>10 DEF HandleAnswered, UnregisteredIsClosing, Serving, TypeOK, serverVars,
         linkVars, taskVars, socketVars, panelVars
  <2>11. ASSUME NEW c \in Conn, HandleUnanswered(c) PROVE UnregisteredIsClosing'
    BY <2>11 DEF HandleUnanswered, UnregisteredIsClosing, Serving, TypeOK, serverVars,
         linkVars, taskVars, socketVars, panelVars
  <2>12. ASSUME NEW c \in Conn, IdentifyRefused(c) PROVE UnregisteredIsClosing'
    BY <2>12 DEF IdentifyRefused, UnregisteredIsClosing, Serving, TypeOK, serverVars,
         linkVars, taskVars, socketVars, panelVars
  <2>13. ASSUME NEW c \in Conn, IdentifyAccepted(c) PROVE UnregisteredIsClosing'
    BY <2>13 DEF IdentifyAccepted, UnregisteredIsClosing, Serving, TypeOK, Bind, Close,
         serverVars, linkVars, taskVars, socketVars, panelVars
  <2>14. ASSUME NEW c \in Conn, IdentifyRaises(c) PROVE UnregisteredIsClosing'
    BY <2>14 DEF IdentifyRaises, UnregisteredIsClosing, Serving, TypeOK, Abort,
         serverVars, linkVars, taskVars, socketVars, panelVars
  <2>15. ASSUME NEW c \in Conn, SkipWrite(c) PROVE UnregisteredIsClosing'
    BY <2>15 DEF SkipWrite, UnregisteredIsClosing, Serving, TypeOK, serverVars, linkVars,
         taskVars, socketVars, panelVars
  <2>16. ASSUME NEW c \in Conn, AwaitLock(c) PROVE UnregisteredIsClosing'
    BY <2>16 DEF AwaitLock, UnregisteredIsClosing, Serving, TypeOK, serverVars, linkVars,
         taskVars, socketVars, panelVars
  <2>17. ASSUME NEW c \in Conn, WriteFrame(c) PROVE UnregisteredIsClosing'
    BY <2>17 DEF WriteFrame, UnregisteredIsClosing, Serving, TypeOK, serverVars, linkVars,
         taskVars, socketVars, panelVars
  <2>18. ASSUME NEW c \in Conn, DrainReturns(c) PROVE UnregisteredIsClosing'
    BY <2>18 DEF DrainReturns, UnregisteredIsClosing, Serving, TypeOK, serverVars,
         linkVars, taskVars, socketVars, panelVars
  <2>19. ASSUME NEW c \in Conn, DrainRaises(c) PROVE UnregisteredIsClosing'
    BY <2>19 DEF DrainRaises, UnregisteredIsClosing, Serving, TypeOK, Abort, serverVars,
         linkVars, taskVars, socketVars, panelVars
  <2>20. ASSUME NEW c \in Conn, AfterAck(c) PROVE UnregisteredIsClosing'
    <3>1. pc[c] \in Serving /\ conns' = conns
      BY <2>20 DEF AfterAck, Serving, serverVars
    <3>2. CASE NextFrame(c) /\ UNCHANGED closing
      BY <3>1, <3>2, OthersStay, MissedMove
    <3>3. CASE Abort(c)
      BY <3>1, <3>3, OthersStay, AbortCloses, MissedMove
    <3> QED
      BY <2>20, <3>2, <3>3 DEF AfterAck
  <2>21. ASSUME NEW c \in Conn, AfterAccept(c) PROVE UnregisteredIsClosing'
    BY <2>21 DEF AfterAccept, UnregisteredIsClosing, Serving, TypeOK, Abort, NextFrame,
         serverVars, linkVars, taskVars, socketVars, panelVars
  <2>22. ASSUME NEW c \in Conn, AfterRefuse(c) PROVE UnregisteredIsClosing'
    BY <2>22 DEF AfterRefuse, UnregisteredIsClosing, Serving, TypeOK, Close, NextFrame,
         serverVars, linkVars, taskVars, socketVars, panelVars
  <2>23. ASSUME NEW c \in Conn, Shutdown(c) PROVE UnregisteredIsClosing'
    BY <2>23 DEF Shutdown, UnregisteredIsClosing, Serving, TypeOK, Close, serverVars,
         linkVars, taskVars, socketVars, panelVars
  <2>24. ASSUME NEW c \in Conn, Closed(c) PROVE UnregisteredIsClosing'
    BY <2>24 DEF Closed, UnregisteredIsClosing, Serving, TypeOK, serverVars, linkVars,
         taskVars, socketVars, panelVars
  <2>25. ASSUME Stop PROVE UnregisteredIsClosing'
    BY <2>25 DEF Stop, UnregisteredIsClosing, Serving, TypeOK, Close, serverVars,
         linkVars, taskVars, socketVars, panelVars
  <2>26. ASSUME StopReturns PROVE UnregisteredIsClosing'
    BY <2>26 DEF StopReturns, UnregisteredIsClosing, Serving, TypeOK, serverVars,
         linkVars, taskVars, socketVars, panelVars
  <2>27. ASSUME Start PROVE UnregisteredIsClosing'
    BY <2>27 DEF Start, UnregisteredIsClosing, Serving, TypeOK, serverVars, linkVars,
         taskVars, socketVars, panelVars
  <2>28. ASSUME NEW s \in Configured, SetKnown(s) PROVE UnregisteredIsClosing'
    BY <2>28 DEF SetKnown, UnregisteredIsClosing, Serving, TypeOK, serverVars, linkVars,
         taskVars, socketVars, panelVars
  <2>29. CASE UNCHANGED vars
    BY <2>29 DEF vars, UnregisteredIsClosing, Serving, TypeOK, serverVars, linkVars,
         taskVars, socketVars, panelVars
  <2> QED
    BY <2>1, <2>2, <2>3, <2>4, <2>5, <2>6, <2>7, <2>8, <2>9, <2>10, <2>11, <2>12, <2>13,
         <2>14, <2>15, <2>16, <2>17, <2>18, <2>19, <2>20, <2>21, <2>22, <2>23, <2>24,
         <2>25, <2>26, <2>27, <2>28, <2>29 DEF Next, PanelStep, OwnerStep, Task
<1> QED
  BY <1>1, <1>2, Invariance, PTL DEF Spec

-----------------------------------------------------------------------------
\* From the acceptance that follows an introduction on, the information of the
\* panel is set, and a coroutine that awaits a frame owes no answer.
Introduced ==
  /\ \A c \in Conn : link[c] # NoPanel /\ pc[c] \notin {"shutdown", "closing", "done"}
                     /\ reply[c] # "accept" => info[link[c]]
  /\ \A c \in Conn : pc[c] \in {"reading", "handling"} => reply[c] = "none"
  /\ \A c \in Conn : pc[c] \in {"idle", "accepted"} => reply[c] = "none"

\* Whoever finds a panel available finds its information too, except while its
\* introduction is being answered, in which bind announces it and a drain may
\* wait before the information is set, and on the way out (_identify).
THEOREM AvailableHasInfo == Spec => []NoInfoOnlyInHandshake
<1>1. Init => Introduced
  BY DEF Init, Introduced
<1>2. IInv /\ Introduced /\ [Next]_vars => Introduced'
  <2> SUFFICES ASSUME IInv, Introduced, [Next]_vars PROVE Introduced'
    OBVIOUS
  <2> USE DEF IInv
  <2>1. ASSUME NEW p \in Panel, NEW c \in Conn, Dial(p, c) PROVE Introduced'
    BY <2>1 DEF Dial, Introduced, TypeOK, serverVars, linkVars, taskVars, socketVars, panelVars
  <2>2. ASSUME NEW p \in Panel, NEW f \in Frame, Send(p, f) PROVE Introduced'
    BY <2>2 DEF Send, Introduced, TypeOK, serverVars, linkVars, taskVars, socketVars, panelVars
  <2>3. ASSUME NEW p \in Panel, HearAck(p) PROVE Introduced'
    BY <2>3 DEF HearAck, Introduced, TypeOK, serverVars, linkVars, taskVars, socketVars,
         panelVars
  <2>4. ASSUME NEW p \in Panel, HangUp(p) PROVE Introduced'
    BY <2>4 DEF HangUp, Introduced, TypeOK, serverVars, linkVars, taskVars, socketVars,
         panelVars
  <2>5. ASSUME NEW c \in Conn, NetworkReset(c) PROVE Introduced'
    BY <2>5 DEF NetworkReset, Introduced, TypeOK, serverVars, linkVars, taskVars,
         socketVars, panelVars
  <2>6. ASSUME NEW c \in Conn, Flush(c) PROVE Introduced'
    BY <2>6 DEF Flush, Introduced, TypeOK, serverVars, linkVars, taskVars, socketVars, panelVars
  <2>7. ASSUME NEW c \in Conn, OnClient(c) PROVE Introduced'
    BY <2>7 DEF OnClient, Introduced, TypeOK, serverVars, linkVars, taskVars, socketVars,
         panelVars
  <2>8. ASSUME NEW c \in Conn, Read(c) PROVE Introduced'
    BY <2>8 DEF Read, Introduced, TypeOK, serverVars, linkVars, taskVars, socketVars, panelVars
  <2>9. ASSUME NEW c \in Conn, ReadEnds(c) PROVE Introduced'
    BY <2>9 DEF ReadEnds, Introduced, TypeOK, Abort, serverVars, linkVars, taskVars,
         socketVars, panelVars
  <2>10. ASSUME NEW c \in Conn, HandleAnswered(c) PROVE Introduced'
    BY <2>10 DEF HandleAnswered, Introduced, TypeOK, serverVars, linkVars, taskVars,
         socketVars, panelVars
  <2>11. ASSUME NEW c \in Conn, HandleUnanswered(c) PROVE Introduced'
    BY <2>11 DEF HandleUnanswered, Introduced, TypeOK, serverVars, linkVars, taskVars,
         socketVars, panelVars
  <2>12. ASSUME NEW c \in Conn, IdentifyRefused(c) PROVE Introduced'
    BY <2>12 DEF IdentifyRefused, Introduced, TypeOK, serverVars, linkVars, taskVars,
         socketVars, panelVars
  <2>13. ASSUME NEW c \in Conn, IdentifyAccepted(c) PROVE Introduced'
    BY <2>13 DEF IdentifyAccepted, Introduced, TypeOK, serverVars, linkVars, taskVars,
         socketVars, panelVars
  <2>14. ASSUME NEW c \in Conn, IdentifyRaises(c) PROVE Introduced'
    BY <2>14 DEF IdentifyRaises, Introduced, TypeOK, Abort, serverVars, linkVars,
         taskVars, socketVars, panelVars
  <2>15. ASSUME NEW c \in Conn, SkipWrite(c) PROVE Introduced'
    BY <2>15 DEF SkipWrite, Introduced, TypeOK, serverVars, linkVars, taskVars,
         socketVars, panelVars
  <2>16. ASSUME NEW c \in Conn, AwaitLock(c) PROVE Introduced'
    BY <2>16 DEF AwaitLock, Introduced, TypeOK, serverVars, linkVars, taskVars,
         socketVars, panelVars
  <2>17. ASSUME NEW c \in Conn, WriteFrame(c) PROVE Introduced'
    <3>1. /\ UNCHANGED <<info, link, reply>> /\ pc[c] = "lock"
          /\ \E s \in {"resume", "drain"} : pc' = [pc EXCEPT ![c] = s]
      BY <2>17 DEF WriteFrame, linkVars
    <3> QED
      BY <3>1 DEF Introduced, TypeOK
  <2>18. ASSUME NEW c \in Conn, DrainReturns(c) PROVE Introduced'
    BY <2>18 DEF DrainReturns, Introduced, TypeOK, serverVars, linkVars, taskVars,
         socketVars, panelVars
  <2>19. ASSUME NEW c \in Conn, DrainRaises(c) PROVE Introduced'
    BY <2>19 DEF DrainRaises, Introduced, TypeOK, Abort, serverVars, linkVars, taskVars,
         socketVars, panelVars
  <2>20. ASSUME NEW c \in Conn, AfterAck(c) PROVE Introduced'
    <3>1. /\ UNCHANGED <<info, link>> /\ reply' = [reply EXCEPT ![c] = "none"]
          /\ pc[c] = "resume" /\ reply[c] # "accept"
          /\ \E s \in {"reading", "handling", "shutdown"} : pc' = [pc EXCEPT ![c] = s]
      BY <2>20 DEF AfterAck, NextFrame, Abort
    <3> QED
      BY <3>1 DEF Introduced, TypeOK
  <2>21. ASSUME NEW c \in Conn, AfterAccept(c) PROVE Introduced'
    <3>1. /\ link' = link /\ reply' = [reply EXCEPT ![c] = "none"]
          /\ pc[c] = "resume" /\ info' = [info EXCEPT ![link[c]] = TRUE]
          /\ \E s \in {"reading", "handling", "shutdown"} : pc' = [pc EXCEPT ![c] = s]
      BY <2>21 DEF AfterAccept, NextFrame, Abort
    <3> QED
      BY <3>1 DEF Introduced, TypeOK
  <2>22. ASSUME NEW c \in Conn, AfterRefuse(c) PROVE Introduced'
    BY <2>22 DEF AfterRefuse, Introduced, TypeOK, NextFrame, serverVars, linkVars,
         taskVars, socketVars, panelVars
  <2>23. ASSUME NEW c \in Conn, Shutdown(c) PROVE Introduced'
    <3>1. /\ UNCHANGED <<info, link, reply>> /\ pc[c] = "shutdown"
          /\ \E s \in {"closing", "done"} : pc' = [pc EXCEPT ![c] = s]
      BY <2>23 DEF Shutdown
    <3> QED
      BY <3>1 DEF Introduced, TypeOK
  <2>24. ASSUME NEW c \in Conn, Closed(c) PROVE Introduced'
    BY <2>24 DEF Closed, Introduced, TypeOK, serverVars, linkVars, taskVars, socketVars,
         panelVars
  <2>25. ASSUME Stop PROVE Introduced'
    BY <2>25 DEF Stop, Introduced, TypeOK, serverVars, linkVars, taskVars, socketVars, panelVars
  <2>26. ASSUME StopReturns PROVE Introduced'
    BY <2>26 DEF StopReturns, Introduced, TypeOK, serverVars, linkVars, taskVars,
         socketVars, panelVars
  <2>27. ASSUME Start PROVE Introduced'
    BY <2>27 DEF Start, Introduced, TypeOK, serverVars, linkVars, taskVars, socketVars,
         panelVars
  <2>28. ASSUME NEW s \in Configured, SetKnown(s) PROVE Introduced'
    BY <2>28 DEF SetKnown, Introduced, TypeOK, serverVars, linkVars, taskVars, socketVars,
         panelVars
  <2>29. CASE UNCHANGED vars
    BY <2>29 DEF vars, Introduced, TypeOK, serverVars, linkVars, taskVars, socketVars, panelVars
  <2> QED
    BY <2>1, <2>2, <2>3, <2>4, <2>5, <2>6, <2>7, <2>8, <2>9, <2>10, <2>11, <2>12, <2>13,
         <2>14, <2>15, <2>16, <2>17, <2>18, <2>19, <2>20, <2>21, <2>22, <2>23, <2>24,
         <2>25, <2>26, <2>27, <2>28, <2>29 DEF Next, PanelStep, OwnerStep, Task
<1>3. IInv /\ Introduced => NoInfoOnlyInHandshake
  <2> SUFFICES ASSUME IInv, Introduced, NEW p \in Panel, bound[p] # NoConn,
                      reply[bound[p]] # "accept", pc[bound[p]] # "shutdown"
               PROVE  info[p]
    BY DEF NoInfoOnlyInHandshake
  <2>1. bound[p] \in Conn /\ link[bound[p]] = p /\ pc[bound[p]] \in Serving
    BY DEF IInv, TypeOK, Attached, BoundIsServed
  <2>2. pc[bound[p]] \notin {"shutdown", "closing", "done"}
    BY <2>1 DEF Serving
  <2> QED
    BY <2>1, <2>2, ConnAssumption DEF Introduced
<1> QED
  BY <1>1, <1>2, <1>3, Invariance, PTL DEF Spec

-----------------------------------------------------------------------------
(* The acknowledgement of events: what a panel sees acknowledged reaches the *)
(* listeners, and the listener implements EventReport.                       *)
(*                                                                           *)
(* Reaching is the invariant: it follows an event from the chunk through     *)
(* the write buffer to the network, and it rests on the order in which a     *)
(* socket is served, the introduction first.  Ordered adds that a panel      *)
(* repeats its events and never anticipates them.                            *)

\* Writing is where a coroutine answers the head of its chunk.
Writing == {"write", "lock", "drain", "drained", "resume"}

\* A socket begins with an introduction.  Until it is accepted, or its refusal
\* has closed the connection, nothing else is answered.
BeginsWithIntroduction(c) ==
  link[c] = NoPanel /\ ~closing[c] =>
    /\ pc[c] \in {"accepted", "reading"} => inbox[c] # <<>> /\ Head(inbox[c]) = Plain("conn")
    /\ pc[c] = "handling" => Head(chunk[c]) = Plain("conn")
    /\ pc[c] \in Writing => reply[c] = "refuse"

\* What is written answers the head of the chunk, on an introduced socket.
RepliesFit(c) ==
  /\ pc[c] \in Writing /\ Head(chunk[c]).kind = "event" => reply[c] = "ack"
  /\ pc[c] \in {"lock", "drain", "drained"} /\ reply[c] = "ack" => link[c] # NoPanel

\* No acknowledgement belongs to a socket that has not introduced itself.
AcksAreIntroduced(c) ==
  /\ pc[c] = "idle" => unsent[c] = {} /\ acks[c] = {} /\ late[c] = {}
  /\ unsent[c] # {} \/ acks[c] # {} \/ late[c] # {} => link[c] # NoPanel

\* The coroutine is waiting for the write of event n, or past it.
AtEvent(c, n) == pc[c] \in {"drain", "drained", "resume"} /\ Head(chunk[c]) = Event(n)

\* The listeners had event n, as far as they can.
Told(c, n) == n \in Undecodable \/ \A l \in Reached : n \in delivered[dialler[c]][l]

\* An acknowledgement in the write buffer may be that of the event whose write
\* the coroutine is waiting for; on the network it may not.
BufferedReaches(c) == \A n \in unsent[c] \ late[c] : Told(c, n) \/ AtEvent(c, n)
AckedReaches(c) == \A n \in acks[c] \ late[c] : Told(c, n) \/ InHand(c, n)

ReachingAt(c) ==
  /\ BeginsWithIntroduction(c) /\ RepliesFit(c) /\ AcksAreIntroduced(c)
  /\ BufferedReaches(c) /\ AckedReaches(c)
Reaching == \A c \in Conn : ReachingAt(c)

-----------------------------------------------------------------------------
\* A frame is an event exactly when its kind says so, and events are told apart
\* by their number.
LEMMA EventFrames ==
  /\ \A f \in Frame : f.kind = "event" => f = Event(f.n)
  /\ \A n, m : Event(n) = Event(m) => n = m
  /\ \A n : Event(n).kind = "event" /\ Event(n).n = n
  /\ Plain("conn").kind = "conn"
  /\ \A f \in Frame : f.kind = "conn" => f = Plain("conn")
BY DEF Frame, Plain, Event

\* What feed() returned has a head.
LEMMA HeadOfChunk ==
  ASSUME IInv, NEW c \in Conn, pc[c] \in HasFrames
  PROVE  chunk[c] # <<>> /\ Head(chunk[c]) \in Frame
BY SeqFacts DEF IInv, TypeOK, Control

\* A step leaves a connection as it was when nothing of it changes, but for
\* closing and delivered, which may only grow.
Same(d) ==
  /\ pc'[d] = pc[d] /\ reply'[d] = reply[d] /\ chunk'[d] = chunk[d] /\ inbox'[d] = inbox[d]
  /\ link'[d] = link[d] /\ dialler'[d] = dialler[d]
  /\ unsent'[d] = unsent[d] /\ acks'[d] = acks[d] /\ late'[d] = late[d]
  /\ closing[d] => closing'[d]
Grows == \A p \in Panel : \A l \in Reached : delivered[p][l] \subseteq delivered'[p][l]

\* A coroutine that a step leaves alone keeps its part, when the listeners only hear more.
LEMMA SameReaches ==
  ASSUME IInv, NEW d \in Conn, ReachingAt(d), Same(d), Grows
  PROVE  ReachingAt(d)'
<1>1. unsent[d] # {} \/ acks[d] # {} => dialler[d] \in Panel
  BY DEF IInv, TypeOK, Control, ReachingAt, AcksAreIntroduced
<1>2. BeginsWithIntroduction(d)' /\ RepliesFit(d)' /\ AcksAreIntroduced(d)'
  BY DEF ReachingAt, Same, BeginsWithIntroduction, RepliesFit, AcksAreIntroduced
<1>3. BufferedReaches(d)'
  BY <1>1 DEF ReachingAt, Same, Grows, BufferedReaches, Told, AtEvent
<1>4. AckedReaches(d)'
  BY <1>1 DEF ReachingAt, Same, Grows, AckedReaches, Told, InHand
<1> QED
  BY <1>2, <1>3, <1>4 DEF ReachingAt

\* The step of one coroutine: the others are as they were.
LEMMA OneReaches ==
  ASSUME IInv, Reaching, NEW c \in Conn, Grows,
         \A d \in Conn : d # c => Same(d), ReachingAt(c)'
  PROVE  Reaching'
<1>1. \A d \in Conn : ReachingAt(d)'
  BY SameReaches DEF Reaching
<1> QED
  BY <1>1 DEF Reaching

\* The steps of a coroutine that stay away from the buffers and the listeners.
LEMMA QuietReaches ==
  ASSUME IInv, Reaching, NEW c \in Conn,
         OnClient(c) \/ Read(c) \/ HandleAnswered(c) \/ HandleUnanswered(c)
           \/ IdentifyRefused(c) \/ SkipWrite(c) \/ AwaitLock(c) \/ DrainReturns(c) \/ Closed(c)
  PROVE  Reaching'
<1>1. UNCHANGED <<closing, link, dialler, unsent, acks, delivered, late>>
  BY DEF OnClient, Read, HandleAnswered, HandleUnanswered, IdentifyRefused, SkipWrite,
         AwaitLock, DrainReturns, Closed, serverVars, linkVars, socketVars, panelVars
<1>2. \A d \in Conn : d # c => Same(d)
  BY <1>1 DEF OnClient, Read, HandleAnswered, HandleUnanswered, IdentifyRefused, SkipWrite,
         AwaitLock, DrainReturns, Closed, Same, IInv, TypeOK, serverVars, linkVars,
         socketVars, panelVars
<1>3. Grows
  BY <1>1 DEF Grows
<1> USE <1>1 DEF Reaching, ReachingAt, IInv, TypeOK, Writing
<1>4. BeginsWithIntroduction(c)'
  <2>1. CASE OnClient(c)
    BY <2>1 DEF OnClient, BeginsWithIntroduction, socketVars
  <2>2. CASE Read(c)
    BY <2>2 DEF Read, BeginsWithIntroduction
  <2>3. CASE HandleAnswered(c)
    BY <2>3, EventFrames DEF HandleAnswered, BeginsWithIntroduction
  <2>4. CASE HandleUnanswered(c)
    BY <2>4, EventFrames DEF HandleUnanswered, BeginsWithIntroduction
  <2>5. CASE IdentifyRefused(c)
    BY <2>5 DEF IdentifyRefused, BeginsWithIntroduction
  <2>6. CASE SkipWrite(c)
    BY <2>6 DEF SkipWrite, BeginsWithIntroduction
  <2>7. CASE AwaitLock(c)
    BY <2>7 DEF AwaitLock, BeginsWithIntroduction
  <2>8. CASE DrainReturns(c)
    BY <2>8 DEF DrainReturns, BeginsWithIntroduction
  <2>9. CASE Closed(c)
    BY <2>9 DEF Closed, BeginsWithIntroduction
  <2> QED
    BY <2>1, <2>2, <2>3, <2>4, <2>5, <2>6, <2>7, <2>8, <2>9
<1>5. RepliesFit(c)'
  <2>1. CASE AwaitLock(c)
    BY <2>1 DEF AwaitLock, BeginsWithIntroduction, RepliesFit
  <2> QED
    BY <2>1, HeadOfChunk DEF OnClient, Read, HandleAnswered, HandleUnanswered,
       IdentifyRefused, SkipWrite, DrainReturns, Closed, RepliesFit
<1>6. AcksAreIntroduced(c)'
  BY DEF AcksAreIntroduced, OnClient, Read, HandleAnswered, HandleUnanswered,
         IdentifyRefused, SkipWrite, AwaitLock, DrainReturns, Closed
<1>7. \A n : AtEvent(c, n) => AtEvent(c, n)'
  BY DEF AtEvent, OnClient, Read, HandleAnswered, HandleUnanswered,
         IdentifyRefused, SkipWrite, AwaitLock, DrainReturns, Closed
<1>8. \A n : InHand(c, n) => InHand(c, n)'
  BY DEF InHand, OnClient, Read, HandleAnswered, HandleUnanswered,
         IdentifyRefused, SkipWrite, AwaitLock, DrainReturns, Closed
<1>9. BufferedReaches(c)' /\ AckedReaches(c)'
  BY <1>7, <1>8 DEF BufferedReaches, AckedReaches, Told
<1>10. ReachingAt(c)'
  BY <1>4, <1>5, <1>6, <1>9
<1> QED
  BY <1>2, <1>3, <1>10, OneReaches

\* The steps that leave the read loop keep what they have promised: nothing was
\* in hand, or it is handed over.
LEMMA EndReaches ==
  ASSUME IInv, Reaching, NEW c \in Conn, ReadEnds(c) \/ DrainRaises(c) \/ Shutdown(c)
  PROVE  Reaching'
<1>1. UNCHANGED <<link, dialler, acks, delivered, late>> /\ unsent'[c] \subseteq unsent[c]
  BY DEF ReadEnds, DrainRaises, Shutdown, serverVars, linkVars, socketVars, panelVars, IInv, TypeOK
<1>2. \A d \in Conn : d # c => Same(d)
  BY <1>1 DEF ReadEnds, DrainRaises, Shutdown, Abort, Close, Same, IInv, TypeOK, serverVars,
         linkVars, socketVars, panelVars
<1>3. Grows
  BY <1>1 DEF Grows
<1>4. closing'[c] /\ pc'[c] \in {"shutdown", "closing", "done"}
  BY DEF ReadEnds, DrainRaises, Shutdown, Abort, Close, IInv, TypeOK
<1>5. \A n : ~AtEvent(c, n) \/ unsent'[c] = {}
  BY DEF AtEvent, ReadEnds, DrainRaises, Shutdown, IInv, TypeOK
<1>6. \A n : ~InHand(c, n)
  BY DEF InHand, ReadEnds, DrainRaises, Shutdown
<1>7. BufferedReaches(c)' /\ AckedReaches(c)'
  BY <1>1, <1>5, <1>6 DEF Reaching, ReachingAt, BufferedReaches, AckedReaches, Told
<1>8. BeginsWithIntroduction(c)' /\ RepliesFit(c)' /\ AcksAreIntroduced(c)'
  BY <1>1, <1>4 DEF Reaching, ReachingAt, BeginsWithIntroduction, RepliesFit,
       AcksAreIntroduced, Writing
<1> QED
  BY <1>2, <1>3, <1>7, <1>8, OneReaches DEF ReachingAt

\* An accepted introduction gives the socket its link, whether or not a listener
\* raises.
LEMMA IdentifyReaches ==
  ASSUME IInv, Reaching, NEW c \in Conn, IdentifyAccepted(c) \/ IdentifyRaises(c)
  PROVE  Reaching'
<1>1. UNCHANGED <<dialler, unsent, acks, delivered, inbox, late>>
  BY DEF IdentifyAccepted, IdentifyRaises, panelVars
<1>2. \A d \in Conn : d # c => Same(d)
  <2>1. \A d \in Conn : d # c => /\ pc'[d] = pc[d] /\ reply'[d] = reply[d]
                                  /\ chunk'[d] = chunk[d] /\ link'[d] = link[d]
    BY DEF IdentifyAccepted, IdentifyRaises, Abort, IInv, TypeOK
  <2>2. \A d \in Conn : closing[d] => closing'[d]
    <3>1. CASE IdentifyAccepted(c)
      <4>1. UNCHANGED closing \/ Close({bound[dialler[c]]})
        BY <3>1 DEF IdentifyAccepted, Bind
      <4> QED
        BY <4>1 DEF Close
    <3>2. CASE IdentifyRaises(c)
      BY <3>2 DEF IdentifyRaises, Abort, IInv, TypeOK
    <3> QED
      BY <3>1, <3>2
  <2> QED
    BY <1>1, <2>1, <2>2 DEF Same
<1>3. Grows
  BY <1>1 DEF Grows
<1>4. dialler[c] \in Panel /\ link'[c] = dialler[c] /\ link'[c] # NoPanel
  BY ConnAssumption DEF IdentifyAccepted, IdentifyRaises, IInv, TypeOK, Control
<1>5. pc'[c] \in {"write", "shutdown"} /\ (pc'[c] = "write" => chunk'[c] = chunk[c])
  BY DEF IdentifyAccepted, IdentifyRaises, Abort, IInv, TypeOK
<1>6. pc[c] = "handling" /\ Head(chunk[c]).kind = "conn"
  BY DEF IdentifyAccepted, IdentifyRaises
<1>7. RepliesFit(c)'
  BY <1>5, <1>6 DEF RepliesFit, Writing
<1>8. BufferedReaches(c)' /\ AckedReaches(c)'
  BY <1>1, <1>6 DEF Reaching, ReachingAt, BufferedReaches, AckedReaches, Told, AtEvent, InHand
<1>9. BeginsWithIntroduction(c)' /\ AcksAreIntroduced(c)'
  BY <1>4, <1>5 DEF BeginsWithIntroduction, AcksAreIntroduced
<1> QED
  BY <1>2, <1>3, <1>7, <1>8, <1>9, OneReaches DEF ReachingAt

\* An acknowledgement enters the buffer with its event in hand.
LEMMA WriteReaches ==
  ASSUME IInv, Reaching, NEW c \in Conn, WriteFrame(c)
  PROVE  Reaching'
<1>1. UNCHANGED <<link, dialler, acks, delivered, inbox, chunk, reply, closing>>
  BY DEF WriteFrame, linkVars, panelVars
<1>2. \A d \in Conn : d # c => Same(d)
  BY <1>1 DEF WriteFrame, Same, IInv, TypeOK
<1>3. Grows
  BY <1>1 DEF Grows
<1>4. pc[c] = "lock" /\ pc'[c] \in {"drain", "resume"}
  BY DEF WriteFrame, IInv, TypeOK
<1>5. Head(chunk[c]) \in Frame
  BY <1>4, HeadOfChunk DEF HasFrames, Running
<1>6. /\ unsent[c] \subseteq unsent'[c] /\ late[c] \subseteq late'[c]
      /\ \A n \in unsent'[c] : n \in unsent[c] \/ Head(chunk[c]) = Event(n)
      /\ \A n \in late'[c] : n \in late[c] \/ Head(chunk[c]) = Event(n)
  <2> DEFINE f == Head(chunk[c])
             events == IF f.kind = "event" THEN {f.n} ELSE {}
  <2>1. \A n \in events : Head(chunk[c]) = Event(n)
    BY <1>5, EventFrames
  <2>2. /\ unsent' = unsent \/ unsent' = [unsent EXCEPT ![c] = @ \cup events]
        /\ late' = late \/ late' = [late EXCEPT ![c] = @ \cup events]
    BY DEF WriteFrame
  <2> HIDE DEF events
  <2>3. /\ unsent'[c] \in {unsent[c], unsent[c] \cup events}
        /\ late'[c] \in {late[c], late[c] \cup events}
    BY <2>2 DEF IInv, TypeOK
  <2> QED
    BY <2>1, <2>3
<1>7. BufferedReaches(c)'
  <2> SUFFICES ASSUME NEW n \in unsent'[c], n \notin late'[c], ~Told(c, n)
               PROVE  AtEvent(c, n)'
    BY <1>1 DEF BufferedReaches, Told
  <2>1. n \notin unsent[c]
    BY <1>4, <1>6 DEF Reaching, ReachingAt, BufferedReaches, AtEvent
  <2> QED
    BY <2>1, <1>1, <1>4, <1>6 DEF AtEvent
<1>8. AckedReaches(c)'
  BY <1>1, <1>4, <1>6 DEF Reaching, ReachingAt, AckedReaches, Told, InHand
<1>9. unsent'[c] # {} \/ late'[c] # {} => link[c] # NoPanel
  <2>1. CASE unsent[c] # {} \/ late[c] # {}
    BY <2>1 DEF Reaching, ReachingAt, AcksAreIntroduced
  <2>2. CASE unsent[c] = {} /\ late[c] = {}
    <3> SUFFICES ASSUME NEW n \in unsent'[c] \cup late'[c] PROVE link[c] # NoPanel
      OBVIOUS
    <3>1. reply[c] = "ack"
      BY <1>4, <1>6, <2>2, EventFrames DEF Reaching, ReachingAt, RepliesFit, Writing
    <3> QED
      BY <1>4, <3>1 DEF Reaching, ReachingAt, RepliesFit
  <2> QED
    BY <2>1, <2>2
<1>10. BeginsWithIntroduction(c)' /\ RepliesFit(c)' /\ AcksAreIntroduced(c)'
  BY <1>1, <1>4, <1>9 DEF Reaching, ReachingAt, BeginsWithIntroduction, RepliesFit,
       AcksAreIntroduced, Writing
<1> QED
  BY <1>2, <1>3, <1>7, <1>8, <1>10, OneReaches DEF ReachingAt

\* The listeners that nobody keeps an event from get it.
LEMMA PacketFacts ==
  ASSUME TypeOK, NEW c \in Conn, NEW k \in Raising \cup {Listeners}, HandlePacket(c, k)
  PROVE  /\ Grows
         /\ link[c] # NoPanel /\ Head(chunk[c]).kind = "event" /\ Decodable(Head(chunk[c]))
              => \A l \in Reached : Head(chunk[c]).n \in delivered'[link[c]][l]
<1>1. CASE link[c] # NoPanel /\ Head(chunk[c]).kind = "event" /\ Decodable(Head(chunk[c]))
  <2> DEFINE p == link[c]
             n == Head(chunk[c]).n
             told == [l \in 1..Listeners |-> IF l <= k THEN delivered[p][l] \cup {n}
                                                       ELSE delivered[p][l]]
  <2>1. p \in Panel /\ delivered' = [delivered EXCEPT ![p] = told]
    BY <1>1 DEF TypeOK, HandlePacket, FanOut
  <2>2. \A l \in Reached : told[l] = delivered[p][l] \cup {n}
    BY ReachedFirst
  <2> HIDE DEF told
  <2>3. delivered'[p] = told /\ \A q \in Panel \ {p} : delivered'[q] = delivered[q]
    BY <2>1 DEF TypeOK
  <2>4. Grows
    BY <2>2, <2>3 DEF Grows
  <2> QED
    BY <2>2, <2>3, <2>4
<1>2. CASE ~(link[c] # NoPanel /\ Head(chunk[c]).kind = "event" /\ Decodable(Head(chunk[c])))
  BY <1>2 DEF HandlePacket, Grows
<1> QED
  BY <1>1, <1>2

\* What was in hand is handed over, to the panel that opened the socket.
LEMMA HandOver ==
  ASSUME IInv, Reaching, NEW c \in Conn, AfterAck(c)
  PROVE  /\ Grows
         /\ \A n \in unsent[c] \cup acks[c] : AtEvent(c, n) => Told(c, n)'
<1>1. PICK k \in Raising \cup {Listeners} : HandlePacket(c, k)
  BY DEF AfterAck
<1>2. /\ Grows
      /\ link[c] # NoPanel /\ Head(chunk[c]).kind = "event" /\ Decodable(Head(chunk[c]))
           => \A l \in Reached : Head(chunk[c]).n \in delivered'[link[c]][l]
  BY <1>1, PacketFacts DEF IInv
<1>3. ASSUME NEW n \in unsent[c] \cup acks[c], AtEvent(c, n), n \notin Undecodable
      PROVE  \A l \in Reached : n \in delivered'[dialler'[c]][l]
  <2>1. link[c] = dialler[c] /\ link[c] # NoPanel
    BY <1>3 DEF Reaching, ReachingAt, AcksAreIntroduced, IInv, TypeOK, Control
  <2>2. Head(chunk[c]).kind = "event" /\ Head(chunk[c]).n = n
    BY <1>3, EventFrames DEF AtEvent
  <2>3. dialler' = dialler
    BY DEF AfterAck, panelVars
  <2> QED
    BY <1>2, <1>3, <2>1, <2>2, <2>3 DEF Decodable
<1> QED
  BY <1>2, <1>3 DEF Told

\* Past its write, a coroutine goes on or ends; a refused socket is closed.
LEMMA AfterReaches ==
  ASSUME IInv, Reaching, NEW c \in Conn, AfterAck(c) \/ AfterAccept(c) \/ AfterRefuse(c)
  PROVE  Reaching'
<1>1. UNCHANGED <<link, dialler, unsent, acks, inbox, late>>
  BY DEF AfterAck, AfterAccept, AfterRefuse, linkVars, panelVars
<1>2. \A d \in Conn : d # c => Same(d)
  BY <1>1 DEF AfterAck, AfterAccept, AfterRefuse, NextFrame, Abort, Close, Same, IInv, TypeOK
<1>3. Grows
  BY HandOver DEF AfterAccept, AfterRefuse, Grows, linkVars
<1>4. pc[c] = "resume" /\ pc'[c] \in {"reading", "handling", "shutdown"}
  BY DEF AfterAck, AfterAccept, AfterRefuse, NextFrame, Abort, IInv, TypeOK
<1>5. link[c] = NoPanel => closing'[c]
  <2>1. CASE AfterAck(c)
    BY <2>1 DEF AfterAck, Abort, Reaching, ReachingAt, BeginsWithIntroduction, Writing,
         IInv, TypeOK
  <2>2. CASE AfterAccept(c)
    BY <2>2 DEF AfterAccept, IInv, Control
  <2>3. CASE AfterRefuse(c)
    BY <2>3 DEF AfterRefuse, Close
  <2> QED
    BY <2>1, <2>2, <2>3
<1>6. ASSUME NEW n \in unsent[c] \cup acks[c], ~Told(c, n)'
      PROVE  ~AtEvent(c, n) /\ ~Told(c, n)
  <2>1. dialler[c] \in Panel
    BY DEF Reaching, ReachingAt, AcksAreIntroduced, IInv, TypeOK, Control
  <2>2. ~Told(c, n)
    BY <1>1, <1>3, <1>6, <2>1 DEF Grows, Told
  <2>3. CASE AfterAck(c)
    BY <1>6, <2>2, <2>3, HandOver
  <2>4. CASE AfterAccept(c) \/ AfterRefuse(c)
    <3>1. reply[c] # "ack"
      BY <2>4 DEF AfterAccept, AfterRefuse
    <3> QED
      BY <1>4, <2>2, <3>1, EventFrames DEF AtEvent, Reaching, ReachingAt, RepliesFit, Writing
  <2> QED
    BY <2>3, <2>4
<1>7. BufferedReaches(c)' /\ AckedReaches(c)'
  BY <1>1, <1>4, <1>6 DEF Reaching, ReachingAt, BufferedReaches, AckedReaches, AtEvent, InHand
<1>8. BeginsWithIntroduction(c)' /\ RepliesFit(c)' /\ AcksAreIntroduced(c)'
  BY <1>1, <1>4, <1>5 DEF Reaching, ReachingAt, BeginsWithIntroduction, RepliesFit,
       AcksAreIntroduced, Writing
<1> QED
  BY <1>2, <1>3, <1>7, <1>8, OneReaches DEF ReachingAt

\* The panels and the network: only Flush moves an acknowledgement, and the
\* event it answers is in hand by then.
LEMMA OutsideReaches ==
  ASSUME IInv, Reaching, PanelStep
  PROVE  Reaching'
<1>1. ASSUME NEW p \in Panel, NEW c \in Conn, Dial(p, c) PROVE Reaching'
  <2>1. UNCHANGED <<link, unsent, acks, delivered, reply, chunk, closing, late>>
    BY <1>1 DEF Dial, linkVars
  <2>2. \A d \in Conn : d # c => Same(d)
    BY <1>1, <2>1 DEF Dial, Same, IInv, TypeOK
  <2>3. Grows
    BY <2>1 DEF Grows
  <2>4. pc[c] = "idle" /\ pc'[c] = "accepted" /\ inbox'[c] = <<Plain("conn")>>
    BY <1>1 DEF Dial, IInv, TypeOK
  <2>5. unsent[c] = {} /\ acks[c] = {} /\ late[c] = {}
    BY <2>4 DEF Reaching, ReachingAt, AcksAreIntroduced
  <2>6. inbox'[c] # <<>> /\ Head(inbox'[c]) = Plain("conn")
    BY <2>4
  <2>7. ReachingAt(c)'
    BY <2>1, <2>4, <2>5, <2>6 DEF ReachingAt, BeginsWithIntroduction, RepliesFit,
         AcksAreIntroduced, BufferedReaches, AckedReaches, Writing
  <2> QED
    BY <2>2, <2>3, <2>7, OneReaches
<1>2. ASSUME NEW p \in Panel, NEW f \in Frame, Send(p, f) PROVE Reaching'
  <2>1. PICK c \in Conn : c = cur[p]
    BY <1>2 DEF Send, IInv, TypeOK
  <2>2. UNCHANGED <<pc, reply, chunk, link, dialler, unsent, acks, delivered, closing, late>>
    BY <1>2 DEF Send, linkVars, taskVars, panelVars
  <2>3. \A d \in Conn : d # c => Same(d)
    BY <1>2, <2>1, <2>2 DEF Send, Same, IInv, TypeOK
  <2>4. Grows
    BY <2>2 DEF Grows
  <2>5. inbox[c] \in Seq(Frame) /\ inbox'[c] = Append(inbox[c], f)
    BY <1>2, <2>1 DEF Send, IInv, TypeOK
  <2>6. inbox[c] # <<>> => inbox'[c] # <<>> /\ Head(inbox'[c]) = Head(inbox[c])
    BY <2>5
  <2>7. ReachingAt(c)
    BY <2>1 DEF Reaching
  <2>8. ReachingAt(c)'
    BY <2>2, <2>6, <2>7 DEF ReachingAt, BeginsWithIntroduction, RepliesFit,
         AcksAreIntroduced, BufferedReaches, AckedReaches, Told, AtEvent, InHand
  <2> QED
    BY <2>1, <2>3, <2>4, <2>8, OneReaches
<1>3. ASSUME NEW p \in Panel, HearAck(p) \/ HangUp(p) PROVE Reaching'
  <2>1. \A d \in Conn : Same(d)
    BY <1>3 DEF HearAck, HangUp, Same, linkVars, taskVars, socketVars
  <2>2. Grows
    BY <1>3 DEF HearAck, HangUp, Grows, linkVars
  <2> QED
    BY <2>1, <2>2, SameReaches DEF Reaching
<1>4. ASSUME NEW c \in Conn, NetworkReset(c) PROVE Reaching'
  <2>1. UNCHANGED <<pc, reply, chunk, link, dialler, inbox, acks, delivered, closing, late>>
    BY <1>4 DEF NetworkReset, linkVars, taskVars, panelVars
  <2>2. \A d \in Conn : d # c => Same(d)
    BY <1>4, <2>1 DEF NetworkReset, Same, IInv, TypeOK
  <2>3. Grows /\ unsent'[c] = {}
    BY <1>4, <2>1 DEF NetworkReset, Grows, IInv, TypeOK
  <2>4. ReachingAt(c)'
    BY <2>1, <2>3 DEF Reaching, ReachingAt, BeginsWithIntroduction, RepliesFit,
         AcksAreIntroduced, BufferedReaches, AckedReaches, Told, InHand
  <2> QED
    BY <2>2, <2>3, <2>4, OneReaches
<1>5. ASSUME NEW c \in Conn, Flush(c) PROVE Reaching'
  <2>1. UNCHANGED <<reply, chunk, link, dialler, inbox, delivered, closing, late>>
    BY <1>5 DEF Flush, linkVars, panelVars
  <2>2. PICK n \in unsent[c] :
          /\ unsent' = [unsent EXCEPT ![c] = @ \ {n}]
          /\ acks' = [acks EXCEPT ![c] = @ \cup {n}]
          /\ pc' = [pc EXCEPT ![c] =
                      IF @ = "drain" /\ Head(chunk[c]) = Event(n) /\ n \notin late[c]
                        THEN "drained" ELSE @]
    BY <1>5 DEF Flush
  <2>3. \A d \in Conn : d # c => Same(d)
    BY <2>1, <2>2 DEF Same, IInv, TypeOK
  <2>4. Grows
    BY <2>1 DEF Grows
  <2>5. unsent'[c] = unsent[c] \ {n} /\ acks'[c] = acks[c] \cup {n}
    BY <2>2 DEF IInv, TypeOK
  <2>6. pc'[c] = pc[c] \/ (pc[c] = "drain" /\ pc'[c] = "drained" /\ Head(chunk[c]) = Event(n))
    BY <2>2 DEF IInv, TypeOK
  <2>7. BeginsWithIntroduction(c)' /\ RepliesFit(c)' /\ AcksAreIntroduced(c)'
    BY <2>1, <2>5, <2>6 DEF Reaching, ReachingAt, BeginsWithIntroduction, RepliesFit,
         AcksAreIntroduced, Writing
  <2>8. BufferedReaches(c)'
    BY <2>1, <2>5, <2>6 DEF Reaching, ReachingAt, BufferedReaches, Told, AtEvent
  <2>9. AckedReaches(c)'
    <3>1. \A m \in acks[c] \ late[c] : Told(c, m) \/ InHand(c, m)'
      BY <2>1, <2>6 DEF Reaching, ReachingAt, AckedReaches, InHand
    <3>2. AtEvent(c, n) /\ n \notin late[c] => InHand(c, n)'
      BY <2>1, <2>2 DEF AtEvent, InHand, IInv, TypeOK
    <3>3. n \in late[c] \/ Told(c, n) \/ AtEvent(c, n)
      BY <2>2 DEF Reaching, ReachingAt, BufferedReaches
    <3>4. \A m : Told(c, m)' <=> Told(c, m)
      BY <2>1 DEF Told
    <3> QED
      BY <2>1, <2>5, <3>1, <3>2, <3>3, <3>4 DEF AckedReaches
  <2> QED
    BY <2>3, <2>4, <2>7, <2>8, <2>9, OneReaches DEF ReachingAt
<1> QED
  BY <1>1, <1>2, <1>3, <1>4, <1>5 DEF PanelStep

\* The owner of the listener only closes connections.
LEMMA OwnerReaches ==
  ASSUME IInv, Reaching, OwnerStep \/ UNCHANGED vars
  PROVE  Reaching'
<1>1. UNCHANGED <<pc, reply, chunk, link, dialler, inbox, unsent, acks, delivered, late>>
  BY DEF OwnerStep, Stop, StopReturns, Start, SetKnown, vars, linkVars, taskVars, socketVars,
         panelVars
<1>2. \A d \in Conn : closing[d] => closing'[d]
  BY DEF OwnerStep, Stop, StopReturns, Start, SetKnown, Close, vars, socketVars, IInv, TypeOK
<1> QED
  BY <1>1, <1>2, SameReaches DEF Reaching, Same, Grows

\* No step of sockets, coroutines, owner or network loses an event on its way.
LEMMA ReachingInvariance == Spec => []Reaching
<1>1. Init => Reaching
  BY DEF Init, Reaching, ReachingAt, BeginsWithIntroduction, RepliesFit, AcksAreIntroduced,
         BufferedReaches, AckedReaches, Writing
<1>2. IInv /\ Reaching /\ [Next]_vars => Reaching'
  BY QuietReaches, EndReaches, IdentifyReaches, WriteReaches, AfterReaches, OutsideReaches,
     OwnerReaches DEF Next, Task
<1> QED
  BY <1>1, <1>2, Invariance, PTL DEF Spec

\* What a panel sees acknowledged has reached the packet listeners, is about to,
\* or is a frame that decode() refuses, unless it was acknowledged into a transport
\* being closed; and it reaches the listeners up to the first that may raise
\* (_handle_frame writes the acknowledgement first, handle_packet calls in turn).
THEOREM AckedIsDelivered == Spec => []AckedReachesListeners
<1>1. Reaching => AckedReachesListeners
  BY DEF Reaching, ReachingAt, AckedReaches, Told, AckedReachesListeners
<1> QED
  BY <1>1, ReachingInvariance, PTL

-----------------------------------------------------------------------------
(* The order of a panel's events, and the refinement of EventReport.        *)

\* A panel never sends an event beyond the first that it has not confirmed.
InOrder(c, frames) ==
  \A i \in 1..Len(frames) : frames[i].kind = "event" => frames[i].n <= confirmed[dialler[c]] + 1

OrderedAt(c) ==
  /\ InOrder(c, inbox[c]) /\ InOrder(c, chunk[c])
  /\ pc[c] = "idle" => inbox[c] = <<>> /\ chunk[c] = <<>>
Ordered ==
  /\ \A c \in Conn : OrderedAt(c)
  /\ \A p \in Panel : cur[p] # NoConn => pc[cur[p]] # "idle" /\ dialler[cur[p]] = p

\* A sequence of frames in order, as an operator on what it depends on.
LEMMA ShorterInOrder ==
  ASSUME NEW c \in Conn, NEW s \in Seq(Frame), s # <<>>, InOrder(c, s)
  PROVE  InOrder(c, Tail(s)) /\ (Head(s).kind = "event" => Head(s).n <= confirmed[dialler[c]] + 1)
<1>1. Len(s) \in Nat /\ Len(s) >= 1 /\ Head(s) = s[1]
  BY EmptySeq, HeadTailProperties, LenProperties
<1>2. Len(Tail(s)) = Len(s) - 1 /\ \A i \in 1..Len(Tail(s)) : Tail(s)[i] = s[i + 1]
  BY HeadTailProperties
<1>3. \A i \in 1..Len(Tail(s)) : i + 1 \in 1..Len(s)
  BY <1>1, <1>2
<1> QED
  BY <1>1, <1>2, <1>3 DEF InOrder

\* A panel that repeats an event or sends its next one adds to the order.
LEMMA LongerInOrder ==
  ASSUME NEW c \in Conn, NEW s \in Seq(Frame), NEW f \in Frame, InOrder(c, s),
         f.kind = "event" => f.n <= confirmed[dialler[c]] + 1
  PROVE  InOrder(c, Append(s, f))
<1>1. Len(s) \in Nat /\ Len(Append(s, f)) = Len(s) + 1
  BY LenProperties, AppendProperties
<1>2. \A i \in 1..Len(s) + 1 : i \in 1..Len(s) \/ i = Len(s) + 1
  BY <1>1
<1>3. /\ \A i \in 1..Len(s) : Append(s, f)[i] = s[i]
      /\ Append(s, f)[Len(s) + 1] = f
  BY AppendProperties
<1> QED
  BY <1>1, <1>2, <1>3 DEF InOrder

\* What a step may do to the frames of a connection, for them to stay in order.
Consumes(c) ==
  /\ dialler'[c] = dialler[c]
  /\ inbox'[c] \in {inbox[c], <<>>}
  /\ \/ chunk'[c] \in {chunk[c], inbox[c], <<>>}
     \/ chunk[c] # <<>> /\ chunk'[c] = Tail(chunk[c])
  /\ pc[c] = "idle" => inbox'[c] = inbox[c] /\ chunk'[c] = chunk[c]
  /\ pc'[c] = "idle" => pc[c] = "idle"

\* Frames that are taken off the front, and confirmations that grow, keep it.
LEMMA StaysOrdered ==
  ASSUME IInv, IInv', NEW c \in Conn, OrderedAt(c), Consumes(c),
         \A p \in Panel : confirmed[p] <= confirmed'[p]
  PROVE  OrderedAt(c)'
<1>1. CASE pc[c] = "idle"
  <2>1. inbox'[c] = <<>> /\ chunk'[c] = <<>>
    BY <1>1 DEF OrderedAt, Consumes
  <2> QED
    BY <2>1 DEF OrderedAt, InOrder
<1>2. CASE pc[c] # "idle"
  <2>1. dialler[c] \in Panel
    BY <1>2 DEF IInv, TypeOK, Control
  <2>2. ASSUME NEW s \in Seq(Frame), InOrder(c, s)
        PROVE  \A i \in 1..Len(s) :
                 s[i].kind = "event" => s[i].n <= confirmed'[dialler'[c]] + 1
    <3> SUFFICES ASSUME NEW i \in 1..Len(s), s[i].kind = "event"
                 PROVE  s[i].n <= confirmed'[dialler[c]] + 1
      BY DEF Consumes
    <3>1. s[i] \in Frame
      BY ElementOfSeq
    <3>2. s[i].n \in 1..MaxEvents
      BY <3>1, FrameFacts
    <3>3. confirmed[dialler[c]] \in 0..MaxEvents /\ confirmed'[dialler[c]] \in 0..MaxEvents
      BY <2>1 DEF IInv, TypeOK
    <3>4. s[i].n <= confirmed[dialler[c]] + 1 /\ confirmed[dialler[c]] <= confirmed'[dialler[c]]
      BY <2>1, <2>2 DEF InOrder
    <3> QED
      BY <3>2, <3>3, <3>4, BoundAssumption
  <2>3. /\ inbox[c] \in Seq(Frame) /\ chunk[c] \in Seq(Frame) /\ <<>> \in Seq(Frame)
        /\ InOrder(c, inbox[c]) /\ InOrder(c, chunk[c]) /\ InOrder(c, <<>>)
    BY SeqFacts DEF IInv, TypeOK, OrderedAt, InOrder
  <2>4. chunk[c] # <<>> => Tail(chunk[c]) \in Seq(Frame) /\ InOrder(c, Tail(chunk[c]))
    BY <2>3, SeqFacts, ShorterInOrder
  <2>5. inbox'[c] \in Seq(Frame) /\ InOrder(c, inbox'[c])
    BY <2>3 DEF Consumes
  <2>6. chunk'[c] \in Seq(Frame) /\ InOrder(c, chunk'[c])
    BY <2>3, <2>4 DEF Consumes
  <2>7. InOrder(c, inbox[c])' /\ InOrder(c, chunk[c])'
    BY <2>2, <2>5, <2>6 DEF InOrder
  <2> QED
    BY <1>2, <2>7 DEF OrderedAt, Consumes
<1> QED
  BY <1>1, <1>2

\* The coroutines only consume frames.
LEMMA TaskConsumes ==
  ASSUME IInv, NEW c \in Conn, Task(c)
  PROVE  UNCHANGED <<dialler, cur, confirmed>> /\ \A d \in Conn : Consumes(d)
<1>1. UNCHANGED <<dialler, cur, confirmed>> /\ pc[c] # "idle"
  BY DEF panelVars, Task, OnClient, Read, ReadEnds, HandleAnswered, HandleUnanswered, IdentifyRefused,
         IdentifyAccepted, IdentifyRaises, SkipWrite, AwaitLock, WriteFrame, DrainReturns,
         DrainRaises, AfterAck, AfterAccept, AfterRefuse, Shutdown, Closed
<1>2. CASE ReadEnds(c) \/ IdentifyRaises(c) \/ DrainRaises(c) \/ Read(c) \/ Shutdown(c)
  <2>1. CASE ReadEnds(c) \/ IdentifyRaises(c) \/ DrainRaises(c)
    <3>1. inbox' = inbox /\ Abort(c)
      BY <2>1 DEF ReadEnds, IdentifyRaises, DrainRaises
    <3> QED
      BY <1>1, <3>1 DEF Abort, Consumes, IInv, TypeOK
  <2>2. CASE Read(c)
    BY <1>1, <2>2 DEF Read, Consumes, IInv, TypeOK
  <2>3. CASE Shutdown(c)
    <3>1. /\ chunk' = chunk /\ inbox' = [inbox EXCEPT ![c] = <<>>]
          /\ \E at \in {"closing", "done"} : pc' = [pc EXCEPT ![c] = at]
      BY <2>3 DEF Shutdown
    <3> QED
      BY <1>1, <3>1 DEF Consumes, IInv, TypeOK
  <2> QED
    BY <1>2, <2>1, <2>2, <2>3
<1>3. CASE \/ OnClient(c) \/ HandleAnswered(c) \/ HandleUnanswered(c) \/ IdentifyRefused(c)
           \/ IdentifyAccepted(c) \/ SkipWrite(c) \/ AwaitLock(c) \/ WriteFrame(c)
           \/ DrainReturns(c) \/ Closed(c)
  BY <1>1, <1>3 DEF OnClient, HandleAnswered, HandleUnanswered, IdentifyRefused,
       IdentifyAccepted, SkipWrite, AwaitLock, WriteFrame, DrainReturns, Closed, Consumes,
       socketVars, panelVars, IInv, TypeOK
<1>4. CASE AfterAck(c) \/ AfterAccept(c) \/ AfterRefuse(c)
  <2>1. chunk[c] # <<>>
    BY <1>4, HeadOfChunk DEF AfterAck, AfterAccept, AfterRefuse, HasFrames, Running
  <2>2. inbox' = inbox /\ (NextFrame(c) \/ Abort(c))
    BY <1>4 DEF AfterAck, AfterAccept, AfterRefuse
  <2> QED
    BY <1>1, <2>1, <2>2 DEF NextFrame, Abort, Consumes, panelVars, IInv, TypeOK
<1> QED
  BY <1>1, <1>2, <1>3, <1>4 DEF Task

\* Every step keeps the order of the events on the way.
LEMMA OrderedStep == ASSUME IInv, IInv', Ordered, [Next]_vars PROVE Ordered'
<1>1. ASSUME UNCHANGED <<dialler, cur, confirmed>>, \A d \in Conn : Consumes(d) PROVE Ordered'
  <2>1. \A p \in Panel : confirmed[p] <= confirmed'[p]
    BY <1>1 DEF IInv, TypeOK
  <2>2. \A d \in Conn : OrderedAt(d)'
    BY <1>1, <2>1, StaysOrdered DEF Ordered
  <2>3. \A p \in Panel : cur'[p] # NoConn => pc'[cur'[p]] # "idle" /\ dialler'[cur'[p]] = p
    BY <1>1 DEF Ordered, Consumes, IInv, TypeOK
  <2> QED
    BY <2>2, <2>3 DEF Ordered
<1>2. ASSUME NEW c \in Conn, Task(c) PROVE Ordered'
  BY <1>1, <1>2, TaskConsumes
<1>3. ASSUME OwnerStep \/ UNCHANGED vars PROVE Ordered'
  BY <1>1, <1>3 DEF OwnerStep, Stop, StopReturns, Start, SetKnown, Consumes, vars, taskVars,
       socketVars, panelVars
<1>4. ASSUME NEW p \in Panel, NEW c \in Conn, Dial(p, c) PROVE Ordered'
  <2>1. UNCHANGED <<chunk, confirmed>> /\ pc[c] = "idle" /\ chunk'[c] = <<>>
    BY <1>4 DEF Dial, Ordered, OrderedAt
  <2>2. /\ pc'[c] = "accepted" /\ inbox'[c] = <<Plain("conn")>>
        /\ dialler' = [dialler EXCEPT ![c] = p] /\ cur' = [cur EXCEPT ![p] = c]
        /\ \A d \in Conn : d # c => pc'[d] = pc[d]
    BY <1>4 DEF Dial, IInv, TypeOK
  <2>3. OrderedAt(c)'
    <3>1. \A i \in 1..Len(inbox'[c]) : inbox'[c][i].kind # "event"
      BY <2>2, EventFrames
    <3>2. \A i \in 1..Len(chunk'[c]) : FALSE
      BY <2>1
    <3> QED
      BY <2>2, <3>1, <3>2 DEF OrderedAt, InOrder
  <2>4. ASSUME NEW d \in Conn, d # c PROVE OrderedAt(d)'
    <3>1. Consumes(d)
      BY <1>4, <2>4 DEF Dial, Consumes, IInv, TypeOK
    <3>2. \A q \in Panel : confirmed[q] <= confirmed'[q]
      BY <2>1 DEF IInv, TypeOK
    <3>3. OrderedAt(d)
      BY DEF Ordered
    <3> QED
      BY <3>1, <3>2, <3>3, StaysOrdered
  <2>5. \A q \in Panel : cur'[q] # NoConn => pc'[cur'[q]] # "idle" /\ dialler'[cur'[q]] = q
    BY <2>1, <2>2 DEF Ordered, IInv, TypeOK
  <2> QED
    BY <2>3, <2>4, <2>5 DEF Ordered
<1>5. ASSUME NEW p \in Panel, NEW f \in Frame, Send(p, f) PROVE Ordered'
  <2>1. PICK c \in Conn : c = cur[p]
    BY <1>5 DEF Send, IInv, TypeOK
  <2>2. UNCHANGED <<pc, chunk, dialler, cur, confirmed>>
    BY <1>5 DEF Send, taskVars, panelVars
  <2>3. dialler[c] = p /\ pc[c] # "idle"
    BY <2>1, ConnAssumption DEF Ordered
  <2>4. inbox[c] \in Seq(Frame) /\ inbox'[c] = Append(inbox[c], f)
    BY <1>5, <2>1 DEF Send, IInv, TypeOK
  <2>5. f.kind = "event" => f.n <= confirmed[dialler[c]] + 1
    <3>1. confirmed[p] \in Nat
      BY DEF IInv, TypeOK
    <3> QED
      BY <1>5, <2>3, <3>1, EventFrames DEF Send, Sendable, Plain
  <2>6. InOrder(c, inbox'[c])
    BY <2>4, <2>5, LongerInOrder DEF Ordered, OrderedAt
  <2>7. OrderedAt(c)'
    BY <2>2, <2>3, <2>6 DEF Ordered, OrderedAt, InOrder
  <2>8. ASSUME NEW d \in Conn, d # c PROVE OrderedAt(d)'
    <3>1. inbox'[d] = inbox[d]
      BY <1>5, <2>1, <2>8 DEF Send, IInv, TypeOK
    <3> QED
      BY <2>2, <3>1 DEF Ordered, OrderedAt, InOrder
  <2> QED
    BY <2>2, <2>7, <2>8 DEF Ordered
<1>6. ASSUME NEW p \in Panel, HearAck(p) PROVE Ordered'
  <2>1. UNCHANGED <<pc, chunk, inbox, dialler, cur>>
    BY <1>6 DEF HearAck, taskVars, socketVars
  <2>2. \A q \in Panel : confirmed[q] <= confirmed'[q]
    BY <1>6 DEF HearAck, IInv, TypeOK
  <2>3. \A d \in Conn : OrderedAt(d)'
    BY <2>1, <2>2, StaysOrdered DEF Consumes, Ordered
  <2> QED
    BY <2>1, <2>3 DEF Ordered
<1>7. ASSUME NEW p \in Panel, HangUp(p) PROVE Ordered'
  BY <1>7 DEF HangUp, Ordered, OrderedAt, InOrder, taskVars, IInv, TypeOK
<1>8. ASSUME NEW c \in Conn, NetworkReset(c) PROVE Ordered'
  BY <1>1, <1>8 DEF NetworkReset, Consumes, taskVars, panelVars
<1>9. ASSUME NEW c \in Conn, Flush(c) PROVE Ordered'
  BY <1>1, <1>9 DEF Flush, Consumes, panelVars, IInv, TypeOK
<1> QED
  BY <1>2, <1>3, <1>4, <1>5, <1>6, <1>7, <1>8, <1>9 DEF Next, PanelStep

\* So it always holds.
LEMMA OrderedInvariance == Spec => []Ordered
<1>1. Init => Ordered
  BY DEF Init, Ordered, OrderedAt, InOrder
<1>2. IInv /\ IInv' /\ Ordered /\ [Next]_vars => Ordered'
  BY OrderedStep
<1> QED
  BY <1>1, <1>2, Invariance, PTL DEF Spec

-----------------------------------------------------------------------------
\* A function of sets that gains or loses members at one argument.
LEMMA OneMore ==
  ASSUME NEW S, NEW f, NEW g, NEW p \in S, NEW T,
         f = [q \in S |-> f[q]], g = [q \in S |-> g[q]],
         \A q \in S : g[q] = IF q = p THEN T ELSE f[q]
  PROVE  g = [f EXCEPT ![p] = T]
OBVIOUS

\* An introduced socket has event n in hand.
Holds(c, n) == link[c] # NoPanel /\ InHand(c, n)

\* Sets with the same members.
LEMMA SetEqual ==
  ASSUME NEW S, NEW T, \A n : n \in S <=> n \in T
  PROVE  S = T
OBVIOUS

\* The events of a panel that were acknowledged into a transport being closed,
\* as the socket they were acknowledged on.
LEMMA Hazards ==
  /\ hazarded = [p \in Panel |-> hazarded[p]]
  /\ \A p \in Panel : \A n : n \in hazarded[p] <=> \E c \in Conn : link[c] = p /\ n \in late[c]
BY DEF hazarded

\* They stay when their sockets keep their links.
LEMMA HazardsStay ==
  ASSUME UNCHANGED late, \A c \in Conn : late[c] # {} => link'[c] = link[c],
         \A c \in Conn : link[c] # NoPanel => link'[c] = link[c]
  PROVE  hazarded' = hazarded
<1>1. /\ hazarded' = [p \in Panel |-> hazarded'[p]]
      /\ \A p \in Panel : \A n :
           n \in hazarded'[p] <=> \E c \in Conn : link'[c] = p /\ n \in late'[c]
  BY DEF hazarded
<1>2. \A p \in Panel : \A c \in Conn : \A n :
        link'[c] = p /\ n \in late'[c] <=> link[c] = p /\ n \in late[c]
  OBVIOUS
<1>3. \A p \in Panel : \A n : n \in hazarded'[p] <=> n \in hazarded[p]
  BY <1>1, <1>2, Hazards
<1>4. \A p \in Panel : hazarded'[p] = hazarded[p]
  <2> SUFFICES ASSUME NEW p \in Panel PROVE hazarded'[p] = hazarded[p]
    OBVIOUS
  <2>1. \A n : n \in hazarded'[p] <=> n \in hazarded[p]
    BY <1>3
  <2> QED
    BY <2>1, SetEqual
<1> QED
  BY <1>1, <1>4, Hazards

\* A step that leaves the listeners and every event in hand alone is a stutter.
Steady == /\ UNCHANGED <<confirmed, delivered, late>>
          /\ \A c \in Conn, n \in 1..MaxEvents : Holds(c, n)' <=> Holds(c, n)
          /\ \A c \in Conn, n \in 1..MaxEvents : Holds(c, n) => link'[c] = link[c]
          /\ \A c \in Conn : late[c] # {} \/ link[c] # NoPanel => link'[c] = link[c]

\* A step of the report, or a stutter of it.
Reports == [Report!Next]_(Report!vars)

\* A step that changes nothing an owner or a panel can see of an event is a stutter of the report.
LEMMA Stutters ==
  ASSUME Steady
  PROVE  Reports
<1>1. \A p \in Panel, c \in Conn, n \in 1..MaxEvents :
        link'[c] = p /\ InHand(c, n)' <=> link[c] = p /\ InHand(c, n)
  BY ConnAssumption DEF Steady, Holds
<1>2. \A p \in Panel :
        {n \in 1..MaxEvents : \E c \in Conn : link'[c] = p /\ InHand(c, n)'}
          = {n \in 1..MaxEvents : \E c \in Conn : link[c] = p /\ InHand(c, n)}
  BY <1>1
<1>3. committed' = committed
  BY <1>2 DEF committed
<1>4. hazarded' = hazarded
  BY HazardsStay DEF Steady
<1> QED
  BY <1>3, <1>4 DEF Steady, Reports, Report!vars

\* One coroutine takes event n in hand: Take of the abstract specification.
LEMMA Takes ==
  ASSUME IInv, Ordered, NEW c \in Conn, NEW n \in 1..MaxEvents, link[c] # NoPanel,
         pc[c] \in HasFrames, Head(chunk[c]) = Event(n),
         UNCHANGED <<confirmed, delivered, link, late>>,
         \A m \in 1..MaxEvents : InHand(c, m)' <=> m = n,
         \A m \in 1..MaxEvents : InHand(c, m) => m = n,
         \A d \in Conn, m \in 1..MaxEvents : d # c => (InHand(d, m)' <=> InHand(d, m))
  PROVE  Reports
<1> DEFINE p == link[c]
<1>1. p \in Panel /\ p = dialler[c]
  BY DEF IInv, TypeOK, Control
<1>2. n \in 1..(confirmed[p] + 1)
  <2>1. chunk[c] \in Seq(Frame) /\ chunk[c] # <<>> /\ InOrder(c, chunk[c])
    BY HeadOfChunk DEF IInv, TypeOK, Ordered, OrderedAt
  <2>2. n <= confirmed[p] + 1
    BY <1>1, <2>1, ShorterInOrder, EventFrames
  <2>3. confirmed[p] \in Nat
    BY <1>1, BoundAssumption DEF IInv, TypeOK
  <2> QED
    BY <2>2, <2>3, BoundAssumption
<1>3. committed' = [committed EXCEPT ![p] = @ \cup {n}]
  <2>1. \A q \in Panel :
          {m \in 1..MaxEvents : \E d \in Conn : link'[d] = q /\ InHand(d, m)'}
            = {m \in 1..MaxEvents : \E d \in Conn : link[d] = q /\ InHand(d, m)}
                \cup (IF q = p THEN {n} ELSE {})
    OBVIOUS
  <2>2. \A q \in Panel :
          committed'[q] = IF q = p THEN committed[q] \cup {n} ELSE committed[q]
    BY <2>1 DEF committed
  <2>3. /\ committed = [q \in Panel |-> committed[q]]
        /\ committed' = [q \in Panel |-> committed'[q]]
    BY DEF committed
  <2> QED
    BY <1>1, <2>2, <2>3, OneMore
<1>4. Report!Take(p, n)
  <2>1. hazarded' = hazarded
    BY HazardsStay
  <2> QED
    BY <1>2, <1>3, <2>1 DEF Report!Take
<1> QED
  BY <1>1, <1>4 DEF Reports, Report!Next

\* The coroutine of c, or the network on its behalf, moves on with the head of
\* its chunk: it has nothing in hand before the write is over.
LEMMA Enters ==
  ASSUME IInv, Ordered, NEW c \in Conn, pc[c] \in {"write", "lock", "drain"},
         pc'[c] \in {"drain", "drained", "resume"},
         \A d \in Conn : d # c => pc'[d] = pc[d],
         UNCHANGED <<chunk, link, confirmed, delivered, late>>
  PROVE  Reports
<1>1. chunk[c] # <<>> /\ Head(chunk[c]) \in Frame /\ pc[c] \in HasFrames
  BY HeadOfChunk DEF HasFrames, Running
<1>2. \A n \in 1..MaxEvents : ~InHand(c, n)
  BY DEF InHand
<1>3. \A d \in Conn, n \in 1..MaxEvents : d # c => (InHand(d, n)' <=> InHand(d, n))
  BY DEF InHand
<1>4. CASE link[c] # NoPanel /\ pc'[c] # "drain" /\ Head(chunk[c]).kind = "event"
  <2>1. PICK n \in 1..MaxEvents : Head(chunk[c]) = Event(n)
    BY <1>1, <1>4, EventFrames, FrameFacts
  <2>2. \A m \in 1..MaxEvents : InHand(c, m)' <=> m = n
    BY <1>4, <2>1, EventFrames DEF InHand
  <2>3. Reports
    BY <1>1, <1>2, <1>3, <1>4, <2>1, <2>2, Takes
  <2> QED
    BY <2>3
<1>5. CASE ~(link[c] # NoPanel /\ pc'[c] # "drain" /\ Head(chunk[c]).kind = "event")
  <2>1. \A n \in 1..MaxEvents : ~Holds(c, n)' /\ ~Holds(c, n)
    BY <1>2, <1>5, EventFrames DEF Holds, InHand
  <2>2. Steady
    BY <1>3, <2>1 DEF Steady, Holds
  <2> QED
    BY <2>2, Stutters
<1> QED
  BY <1>4, <1>5

\* The acknowledgement of event n is written to a transport being closed: Risk
\* of the abstract specification.
LEMMA Risks ==
  ASSUME IInv, Reaching, Ordered, NEW c \in Conn, WriteFrame(c), late' # late
  PROVE  Reports
<1> DEFINE p == link[c]
           f == Head(chunk[c])
           events == IF f.kind = "event" THEN {f.n} ELSE {}
<1>1. f \in Frame /\ chunk[c] # <<>> /\ chunk[c] \in Seq(Frame) /\ InOrder(c, chunk[c])
  BY HeadOfChunk DEF WriteFrame, HasFrames, Running, Ordered, OrderedAt, IInv, TypeOK
<1>2. late' = [late EXCEPT ![c] = @ \cup events] /\ ~IsUp(c) /\ pc[c] = "lock"
  BY DEF WriteFrame, IsUp
<1>3. f.kind = "event"
  BY <1>2 DEF IInv, TypeOK
<1>4. f.n \in 1..MaxEvents /\ f = Event(f.n)
  BY <1>1, <1>3, FrameFacts, EventFrames
<1>5. p # NoPanel /\ p \in Panel /\ p = dialler[c]
  BY <1>2, <1>3 DEF Reaching, ReachingAt, RepliesFit, Writing, IInv, TypeOK, Control
<1>6. f.n \in 1..(confirmed[p] + 1)
  <2>1. f.n <= confirmed[p] + 1
    BY <1>1, <1>3, <1>5, ShorterInOrder
  <2>2. confirmed[p] \in Nat
    BY <1>5, BoundAssumption DEF IInv, TypeOK
  <2> QED
    BY <1>4, <2>1, <2>2, BoundAssumption
<1>7. UNCHANGED <<confirmed, delivered, link, chunk>> /\ pc' = [pc EXCEPT ![c] = "drain"]
  BY <1>2 DEF WriteFrame, linkVars
<1>8. committed' = committed
  <2>1. \A d \in Conn, n \in 1..MaxEvents : InHand(d, n)' <=> InHand(d, n)
    BY <1>2, <1>7 DEF InHand, IInv, TypeOK
  <2>2. \A q \in Panel :
          {n \in 1..MaxEvents : \E d \in Conn : link'[d] = q /\ InHand(d, n)'}
            = {n \in 1..MaxEvents : \E d \in Conn : link[d] = q /\ InHand(d, n)}
    BY <1>7, <2>1
  <2> QED
    BY <2>2 DEF committed
<1>9. hazarded' = [hazarded EXCEPT ![p] = @ \cup {f.n}]
  <2>1. /\ hazarded' = [q \in Panel |-> hazarded'[q]]
        /\ \A q \in Panel : \A n :
             n \in hazarded'[q] <=> \E d \in Conn : link'[d] = q /\ n \in late'[d]
    BY DEF hazarded
  <2>2. \A d \in Conn : late'[d] = IF d = c THEN late[d] \cup {f.n} ELSE late[d]
    BY <1>2, <1>3 DEF IInv, TypeOK
  <2>3. ASSUME NEW q \in Panel
        PROVE  hazarded'[q] = IF q = p THEN hazarded[q] \cup {f.n} ELSE hazarded[q]
    <3>1. \A n : n \in hazarded'[q] <=> n \in hazarded[q] \/ (q = p /\ n = f.n)
      <4> SUFFICES ASSUME NEW n
                   PROVE  n \in hazarded'[q] <=> n \in hazarded[q] \/ (q = p /\ n = f.n)
        OBVIOUS
      <4>1. \A d \in Conn : n \in late'[d] <=> n \in late[d] \/ (d = c /\ n = f.n)
        BY <2>2
      <4>2. n \in hazarded'[q] <=> \E d \in Conn : link[d] = q /\ n \in late'[d]
        BY <1>7, <2>1
      <4>3. n \in hazarded[q] <=> \E d \in Conn : link[d] = q /\ n \in late[d]
        BY Hazards
      <4>4. n \in hazarded'[q]
              <=> \/ \E d \in Conn : link[d] = q /\ n \in late[d]
                  \/ \E d \in Conn : link[d] = q /\ d = c /\ n = f.n
        BY <4>1, <4>2, Zenon
      <4> QED
        BY <4>3, <4>4
    <3>2. CASE q = p
      BY <3>1, <3>2
    <3>3. CASE q # p
      <4>1. \A n : n \in hazarded'[q] <=> n \in hazarded[q]
        BY <3>1, <3>3
      <4> QED
        BY <3>3, <4>1, SetEqual
    <3> QED
      BY <3>2, <3>3
  <2> QED
    BY <1>5, <2>1, <2>3, Hazards, OneMore
<1>10. Report!Risk(p, f.n)
  BY <1>6, <1>7, <1>8, <1>9 DEF Report!Risk
<1> QED
  BY <1>4, <1>5, <1>10 DEF Reports, Report!Next

\* The coroutine of c hands event n over: Deliver of the abstract specification.
LEMMA Delivers ==
  ASSUME IInv, NEW c \in Conn, AfterAck(c), link[c] # NoPanel,
         NEW n \in 1..MaxEvents, Head(chunk[c]) = Event(n)
  PROVE  Reports
<1> DEFINE p == link[c]
<1>1. p \in Panel
  BY DEF IInv, TypeOK
<1>2. pc[c] = "resume" /\ pc'[c] \in {"reading", "handling", "shutdown"} /\ link' = link
      /\ confirmed' = confirmed
  BY DEF AfterAck, NextFrame, Abort, IInv, TypeOK, panelVars
<1>3. \A d \in Conn, m \in 1..MaxEvents : d # c => (InHand(d, m)' <=> InHand(d, m))
  BY DEF AfterAck, NextFrame, Abort, InHand, IInv, TypeOK
<1>4. \A m \in 1..MaxEvents : ~InHand(c, m)' /\ (InHand(c, m) <=> m = n)
  BY <1>2, EventFrames DEF InHand
<1>5. n \in committed[p]
  BY <1>1, <1>4 DEF committed
<1>6. \/ committed' = committed
      \/ committed' = [committed EXCEPT ![p] = @ \ {n}]
  <2>1. \A q \in Panel, m \in 1..MaxEvents :
          m \in committed'[q] <=> \E d \in Conn \ {c} : link[d] = q /\ InHand(d, m)
    BY <1>2, <1>3, <1>4 DEF committed
  <2>2. \A q \in Panel, m \in 1..MaxEvents :
          m \in committed[q] <=> \/ \E d \in Conn \ {c} : link[d] = q /\ InHand(d, m)
                                 \/ q = p /\ m = n
    BY <1>4 DEF committed
  <2>3. \A q \in Panel : committed[q] \subseteq 1..MaxEvents /\ committed'[q] \subseteq 1..MaxEvents
    BY DEF committed
  <2>4. /\ committed = [q \in Panel |-> committed[q]]
        /\ committed' = [q \in Panel |-> committed'[q]]
    BY DEF committed
  <2>5. CASE \E d \in Conn \ {c} : link[d] = p /\ InHand(d, n)
    <3>1. \A q \in Panel, m \in 1..MaxEvents : m \in committed'[q] <=> m \in committed[q]
      BY <2>1, <2>2, <2>5
    <3>2. \A q \in Panel : committed'[q] = committed[q]
      BY <2>3, <3>1
    <3> QED
      BY <2>4, <3>2
  <2>6. CASE ~\E d \in Conn \ {c} : link[d] = p /\ InHand(d, n)
    <3>1. \A q \in Panel, m \in 1..MaxEvents :
            m \in committed'[q] <=> m \in committed[q] /\ ~(q = p /\ m = n)
      BY <2>1, <2>2, <2>6
    <3>2. \A q \in Panel :
            committed'[q] = IF q = p THEN committed[q] \ {n} ELSE committed[q]
      BY <2>3, <3>1
    <3> QED
      BY <1>1, <2>4, <3>2, OneMore
  <2> QED
    BY <2>5, <2>6
<1>7. \E told \in SUBSET (1..Listeners) :
        /\ IF n \in Undecodable THEN told = {} ELSE Reached \subseteq told
        /\ delivered' = [delivered EXCEPT ![p] =
             [l \in 1..Listeners |-> IF l \in told THEN @[l] \cup {n} ELSE @[l]]]
  <2>1. PICK k \in Raising \cup {Listeners} : HandlePacket(c, k)
    BY DEF AfterAck
  <2>2. Head(chunk[c]).kind = "event" /\ Head(chunk[c]).n = n
    BY EventFrames
  <2>3. CASE n \in Undecodable
    <3>1. delivered' = delivered
      BY <2>1, <2>2, <2>3 DEF HandlePacket, Decodable
    <3>2. delivered[p] = [l \in 1..Listeners |-> delivered[p][l]]
      BY <1>1 DEF IInv, TypeOK
    <3>3. delivered = [delivered EXCEPT ![p] = delivered[p]]
      BY <1>1 DEF IInv, TypeOK
    <3> DEFINE told == {}
    <3>4. /\ told \in SUBSET (1..Listeners) /\ told = {}
          /\ delivered' = [delivered EXCEPT ![p] =
               [l \in 1..Listeners |-> IF l \in told THEN @[l] \cup {n} ELSE @[l]]]
      BY <3>1, <3>2, <3>3
    <3> HIDE DEF told
    <3> QED
      BY <2>3, <3>4
  <2>4. CASE n \notin Undecodable
    <3> DEFINE told == {l \in 1..Listeners : l <= k}
    <3>1. Reached \subseteq told
      BY ReachedFirst
    <3>2. delivered' = [delivered EXCEPT ![p] =
            [l \in 1..Listeners |-> IF l <= k THEN delivered[p][l] \cup {n}
                                              ELSE delivered[p][l]]]
      BY <2>1, <2>2, <2>4 DEF HandlePacket, FanOut, Decodable
    <3>3. delivered' = [delivered EXCEPT ![p] =
            [l \in 1..Listeners |-> IF l \in told THEN @[l] \cup {n} ELSE @[l]]]
      BY <3>2
    <3> QED
      BY <2>4, <3>1, <3>3
  <2> QED
    BY <2>3, <2>4
<1>8. Report!Deliver(p, n)
  <2>1. late' = late
    BY DEF AfterAck, panelVars
  <2>2. hazarded' = hazarded
    BY <1>2, <2>1, HazardsStay
  <2> QED
    BY <1>2, <1>5, <1>6, <1>7, <2>2 DEF Report!Deliver
<1> QED
  BY <1>1, <1>8 DEF Reports, Report!Next

\* The panel hears an acknowledgement: Confirm of the abstract specification.
LEMMA Confirms ==
  ASSUME IInv, Reaching, Ordered, NEW p \in Panel, HearAck(p)
  PROVE  Reports
<1>1. PICK c \in Conn : c = cur[p]
  BY DEF HearAck, IInv, TypeOK
<1>2. confirmed[p] + 1 \in acks[c] /\ dialler[c] = p
  BY <1>1, ConnAssumption DEF HearAck, Ordered
<1>3. confirmed[p] + 1 \in 1..MaxEvents /\ confirmed[p] \in Nat /\ link[c] = p
  BY <1>2 DEF IInv, TypeOK, Control, Reaching, ReachingAt, AcksAreIntroduced
<1>4. UNCHANGED <<delivered, pc, chunk, link, late>>
  BY DEF HearAck, linkVars, taskVars
<1>5. committed' = committed
  BY <1>4 DEF committed, InHand
<1>6. confirmed[p] + 1 \in committed[p] \cup hazarded[p] \cup Report!Promised(p) \cup Undecodable
  <2>1. CASE confirmed[p] + 1 \in late[c]
    BY <1>3, <2>1, Hazards
  <2>2. CASE confirmed[p] + 1 \notin late[c]
    <3>1. Told(c, confirmed[p] + 1) \/ InHand(c, confirmed[p] + 1)
      BY <1>2, <2>2 DEF Reaching, ReachingAt, AckedReaches
    <3>2. InHand(c, confirmed[p] + 1) => confirmed[p] + 1 \in committed[p]
      BY <1>3 DEF committed
    <3>3. Told(c, confirmed[p] + 1) => confirmed[p] + 1 \in Report!Promised(p) \cup Undecodable
      BY <1>2, <1>3 DEF Told, Report!Promised
    <3> QED
      BY <3>1, <3>2, <3>3
  <2> QED
    BY <2>1, <2>2
<1>7. hazarded' = hazarded
  BY <1>4, HazardsStay
<1>8. confirmed[p] < MaxEvents /\ confirmed' = [confirmed EXCEPT ![p] = @ + 1]
  BY <1>3, BoundAssumption DEF HearAck
<1>9. Report!Confirm(p)
  BY <1>4, <1>5, <1>6, <1>7, <1>8 DEF Report!Confirm
<1> QED
  BY <1>9 DEF Reports, Report!Next

\* Every step of the listener is a step of the abstract specification or a
\* stutter.
LEMMA ReportStep ==
  ASSUME IInv, Reaching, Ordered, [Next]_vars
  PROVE  Reports
<1>1. ASSUME NEW c \in Conn, SkipWrite(c) \/ WriteFrame(c) PROVE Reports
  <2>1. pc[c] \in {"write", "lock"} /\ pc'[c] \in {"drain", "resume"}
    BY <1>1 DEF SkipWrite, WriteFrame, IInv, TypeOK
  <2>2. /\ \A d \in Conn : d # c => pc'[d] = pc[d]
        /\ UNCHANGED <<chunk, link, confirmed, delivered>>
    BY <1>1 DEF SkipWrite, WriteFrame, linkVars, panelVars, IInv, TypeOK
  <2>3. CASE late' = late
    BY <2>1, <2>2, <2>3, Enters
  <2>4. CASE late' # late
    <3>1. WriteFrame(c)
      BY <1>1, <2>4 DEF SkipWrite, panelVars
    <3> QED
      BY <2>4, <3>1, Risks
  <2> QED
    BY <2>3, <2>4
<1>2. ASSUME NEW c \in Conn, DrainReturns(c) \/ Flush(c) PROVE Reports
  <2>1. UNCHANGED <<chunk, link, confirmed, delivered, late>>
    BY <1>2 DEF DrainReturns, Flush, linkVars, panelVars
  <2>2. \A d \in Conn : d # c => pc'[d] = pc[d]
    BY <1>2 DEF DrainReturns, Flush, IInv, TypeOK
  <2>3. CASE pc[c] = "drain" /\ pc'[c] # pc[c]
    <3>1. pc'[c] \in {"drained", "resume"}
      BY <1>2, <2>3 DEF DrainReturns, Flush, IInv, TypeOK
    <3> QED
      BY <2>1, <2>2, <2>3, <3>1, Enters
  <2>4. CASE ~(pc[c] = "drain" /\ pc'[c] # pc[c])
    <3>1. pc'[c] = pc[c] \/ (pc[c] = "drained" /\ pc'[c] = "resume")
      BY <1>2, <2>4 DEF DrainReturns, Flush, IInv, TypeOK
    <3>2. Steady
      BY <2>1, <2>2, <3>1 DEF Steady, Holds, InHand
    <3> QED
      BY <3>2, Stutters
  <2> QED
    BY <2>3, <2>4
<1>3. ASSUME NEW c \in Conn, AfterAck(c) PROVE Reports
  <2>1. pc[c] = "resume" /\ Head(chunk[c]) \in Frame
    BY <1>3, HeadOfChunk DEF AfterAck, HasFrames, Running
  <2>2. CASE link[c] # NoPanel /\ Head(chunk[c]).kind = "event"
    <3>1. PICK n \in 1..MaxEvents : Head(chunk[c]) = Event(n)
      BY <2>1, <2>2, EventFrames, FrameFacts
    <3> QED
      BY <1>3, <2>2, <3>1, Delivers
  <2>3. CASE ~(link[c] # NoPanel /\ Head(chunk[c]).kind = "event")
    <3>1. UNCHANGED <<link, confirmed, delivered, late>>
      BY <1>3, <2>3 DEF AfterAck, HandlePacket, panelVars
    <3>2. \A n \in 1..MaxEvents : ~Holds(c, n)
      BY <2>3, EventFrames DEF Holds, InHand
    <3>3. pc'[c] \in {"reading", "handling", "shutdown"}
      BY <1>3 DEF AfterAck, NextFrame, Abort, IInv, TypeOK
    <3>4. \A n \in 1..MaxEvents : ~Holds(c, n)'
      BY <3>3 DEF Holds, InHand
    <3>5. \A d \in Conn, n \in 1..MaxEvents : d # c => (Holds(d, n)' <=> Holds(d, n))
      BY <1>3, <3>1 DEF AfterAck, NextFrame, Abort, Holds, InHand, IInv, TypeOK
    <3>6. Steady
      BY <3>1, <3>2, <3>4, <3>5 DEF Steady
    <3> QED
      BY <3>6, Stutters
  <2> QED
    BY <2>2, <2>3
<1>4. ASSUME NEW c \in Conn, AfterAccept(c) \/ AfterRefuse(c) PROVE Reports
  <2>1. UNCHANGED <<link, confirmed, delivered, late>>
    BY <1>4 DEF AfterAccept, AfterRefuse, linkVars, panelVars
  <2>2. pc[c] = "resume" /\ reply[c] # "ack"
    BY <1>4 DEF AfterAccept, AfterRefuse
  <2>3. \A n \in 1..MaxEvents : ~InHand(c, n)
    BY <2>2, EventFrames DEF InHand, Reaching, ReachingAt, RepliesFit, Writing
  <2>4. pc'[c] \in {"reading", "handling", "shutdown"}
    BY <1>4 DEF AfterAccept, AfterRefuse, NextFrame, Abort, IInv, TypeOK
  <2>5. \A n \in 1..MaxEvents : ~InHand(c, n)'
    BY <2>4 DEF InHand
  <2>6. \A d \in Conn, n \in 1..MaxEvents : d # c => (InHand(d, n)' <=> InHand(d, n))
    BY <1>4 DEF AfterAccept, AfterRefuse, NextFrame, Abort, InHand, IInv, TypeOK
  <2>7. Steady
    BY <2>1, <2>3, <2>5, <2>6 DEF Steady, Holds
  <2> QED
    BY <2>7, Stutters
<1>5. ASSUME NEW c \in Conn,
             \/ OnClient(c) \/ Read(c) \/ ReadEnds(c) \/ HandleAnswered(c)
             \/ HandleUnanswered(c) \/ IdentifyRefused(c) \/ IdentifyAccepted(c)
             \/ IdentifyRaises(c) \/ AwaitLock(c) \/ DrainRaises(c) \/ Shutdown(c) \/ Closed(c)
      PROVE  Reports
  <2>1. UNCHANGED <<confirmed, delivered, late>>
    BY <1>5 DEF OnClient, Read, ReadEnds, HandleAnswered, HandleUnanswered, IdentifyRefused,
         IdentifyAccepted, IdentifyRaises, AwaitLock, DrainRaises, Shutdown, Closed, linkVars,
         panelVars
  <2>2. \A n \in 1..MaxEvents : ~InHand(c, n)
    BY <1>5 DEF OnClient, Read, ReadEnds, HandleAnswered, HandleUnanswered, IdentifyRefused,
         IdentifyAccepted, IdentifyRaises, AwaitLock, DrainRaises, Shutdown, Closed, InHand
  <2>3. \A n \in 1..MaxEvents : ~InHand(c, n)'
    <3>1. CASE HandleUnanswered(c)
      BY <3>1, EventFrames DEF HandleUnanswered, InHand
    <3>2. CASE ~HandleUnanswered(c)
      BY <1>5, <3>2 DEF OnClient, Read, ReadEnds, HandleAnswered, IdentifyRefused,
           IdentifyAccepted, IdentifyRaises, AwaitLock, DrainRaises, Shutdown, Closed, Abort,
           InHand, IInv, TypeOK
    <3> QED
      BY <3>1, <3>2
  <2>4. \A d \in Conn : d # c => pc'[d] = pc[d] /\ chunk'[d] = chunk[d] /\ link'[d] = link[d]
    BY <1>5 DEF OnClient, Read, ReadEnds, HandleAnswered, HandleUnanswered, IdentifyRefused,
         IdentifyAccepted, IdentifyRaises, AwaitLock, DrainRaises, Shutdown, Closed, Abort,
         IInv, TypeOK
  <2>5. late[c] # {} \/ link[c] # NoPanel => link'[c] = link[c]
    <3>1. late[c] # {} => link[c] # NoPanel
      BY DEF Reaching, ReachingAt, AcksAreIntroduced
    <3>2. link[c] # NoPanel => link[c] = dialler[c]
      BY DEF IInv, Control
    <3>3. link'[c] \in {link[c], dialler[c]}
      BY <1>5 DEF OnClient, Read, ReadEnds, HandleAnswered, HandleUnanswered, IdentifyRefused,
           IdentifyAccepted, IdentifyRaises, AwaitLock, DrainRaises, Shutdown, Closed, IInv,
           TypeOK
    <3> QED
      BY <3>1, <3>2, <3>3
  <2>6. Steady
    BY <2>1, <2>2, <2>3, <2>4, <2>5 DEF Steady, Holds, InHand
  <2> QED
    BY <2>6, Stutters
<1>6. ASSUME NEW p \in Panel, HearAck(p) PROVE Reports
  BY <1>6, Confirms
<1>7. ASSUME NEW p \in Panel, NEW c \in Conn, Dial(p, c) PROVE Reports
  <2>1. UNCHANGED <<link, chunk, confirmed, delivered, late>>
    BY <1>7 DEF Dial, linkVars
  <2>2. \A d \in Conn : pc'[d] = pc[d] \/ (pc[d] = "idle" /\ pc'[d] = "accepted")
    BY <1>7 DEF Dial, IInv, TypeOK
  <2>3. Steady
    BY <2>1, <2>2 DEF Steady, Holds, InHand
  <2> QED
    BY <2>3, Stutters
<1>8. ASSUME \/ \E p \in Panel, f \in Frame : Send(p, f)
             \/ \E p \in Panel : HangUp(p)
             \/ \E c \in Conn : NetworkReset(c)
             \/ OwnerStep
             \/ UNCHANGED vars
      PROVE  Reports
  <2>1. UNCHANGED <<pc, link, chunk, confirmed, delivered, late>>
    BY <1>8 DEF Send, HangUp, NetworkReset, OwnerStep, Stop, StopReturns, Start, SetKnown, vars,
         linkVars, taskVars, panelVars
  <2>2. Steady
    BY <2>1 DEF Steady, Holds, InHand
  <2> QED
    BY <2>2, Stutters
<1> QED
  BY <1>1, <1>2, <1>3, <1>4, <1>5, <1>6, <1>7, <1>8 DEF Next, PanelStep, Task

\* The listener implements EventReport, for any number of panels, sockets, events
\* and listeners: a panel moves on only when its event is with the listeners that
\* no other can keep it from, or certain to get there, or was acknowledged into a
\* transport being closed (_read_loop, _handle_frame, _write_now, handle_packet).
THEOREM ImplementsReport == Spec => ReportSpec
<1>1. Init => Report!Init
  <2> SUFFICES ASSUME Init
               PROVE  committed = [p \in Panel |-> {}] /\ hazarded = [p \in Panel |-> {}]
    BY DEF Init, Report!Init
  <2>1. \A c \in Conn, n \in 1..MaxEvents : ~InHand(c, n)
    BY DEF Init, InHand
  <2>2. \A c \in Conn : late[c] = {}
    BY DEF Init
  <2>3. \A p \in Panel : hazarded[p] = {}
    BY <2>2, Hazards
  <2> QED
    BY <2>1, <2>3, Hazards DEF committed
<1>2. IInv /\ Reaching /\ Ordered /\ [Next]_vars => [Report!Next]_(Report!vars)
  BY ReportStep DEF Reports
<1> QED
  BY <1>1, <1>2, Invariance, ReachingInvariance, OrderedInvariance, PTL
     DEF Spec, ReportSpec, Report!Spec

=============================================================================
