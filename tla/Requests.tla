------------------------------ MODULE Requests ------------------------------
(***************************************************************************)
(* The requests of one connection: Seq, the transmit queue and the four    *)
(* tables of futures of _PanelConnection, with the callers that wait on    *)
(* them through JflPanelLink.                                              *)
(*                                                                         *)
(* A future that gets its result wakes its caller only on a later turn of  *)
(* the event loop, so a call has a state between the two; the caller's     *)
(* finally clause, which pops its key, runs on that later turn.            *)
(***************************************************************************)
EXTENDS Integers, Sequences

CONSTANTS Call,     \* the calls that are made, each one used once
          NoCall,
          Selector, \* the (address, count) pairs of 0x44
          NoSlot,
          MaxSeq,   \* the last sequence byte, 0xFF in the code
          Overlap   \* TRUE iff a caller may ask under a key that is in use

ASSUME CallAssumption == NoCall \notin Call
ASSUME SeqAssumption == MaxSeq \in Nat \ {0}
ASSUME OverlapAssumption == Overlap \in BOOLEAN

\* _pending (0x37), _pending_inventory (0x59) and _pending_events (0x48) are
\* keyed by sequence byte, _pending_blocks (0x44) by selector.
SeqTable == {"ack", "inventory", "events"}
SeqSlot == SeqTable \X (1..MaxSeq)
BlockSlot == {"block"} \X Selector
Slot == SeqSlot \cup BlockSlot

ASSUME SlotAssumption == NoSlot \notin Slot

VARIABLES
  phase,     \* "open", "closing" (close() was called), "shutdown" (_shutdown
             \* awaits the transmit task) or "ended" (unbound)
  seq,       \* Seq._value
  allocated, \* history: how many sequence bytes were handed out
  pending,   \* the four tables of futures, as one
  tx,        \* _tx, the calls whose frames are queued
  asked,     \* environment: requests the panel has and has not answered
  replies,   \* environment: answers on their way, in order
  st,        \* the future and the caller of each call
  slot,      \* the table and key of each call
  stamp,     \* history: the value of allocated when the call took its byte
  got,       \* the call whose answer the future holds
  out        \* how the call ended

callVars == <<st, slot, stamp, got, out>>
wireVars == <<tx, asked, replies>>
vars == <<phase, seq, allocated, pending, wireVars, callVars>>

TypeOK ==
  /\ phase \in {"open", "closing", "shutdown", "ended"}
  /\ seq \in 1..MaxSeq
  /\ allocated \in Nat
  /\ pending \in [Slot -> Call \cup {NoCall}]
  /\ tx \in Seq(Call) /\ asked \in SUBSET Call /\ replies \in Seq(Call)
  /\ st \in [Call -> {"idle", "waiting", "answered", "expired", "cancelled", "done"}]
  /\ slot \in [Call -> Slot \cup {NoSlot}]
  /\ stamp \in [Call -> Nat]
  /\ got \in [Call -> Call \cup {NoCall}]
  /\ out \in [Call -> {"none", "queued", "refused", "reply", "timeout", "cancelled"}]

Init ==
  /\ phase = "open" /\ seq = 1 /\ allocated = 0
  /\ pending = [s \in Slot |-> NoCall]
  /\ tx = <<>> /\ asked = {} /\ replies = <<>>
  /\ st = [c \in Call |-> "idle"]
  /\ slot = [c \in Call |-> NoSlot]
  /\ stamp = [c \in Call |-> 0]
  /\ got = [c \in Call |-> NoCall]
  /\ out = [c \in Call |-> "none"]

-----------------------------------------------------------------------------
(* The callers. *)

\* Fault: the counter skips back one early, so that it repeats a byte too soon.
NextSeqWrapsEarly(c) ==
  /\ stamp' = [stamp EXCEPT ![c] = allocated]
  /\ allocated' = allocated + 1
  /\ seq' = IF seq + 1 >= MaxSeq THEN 1 ELSE seq + 1

\* Seq.next
NextSeq(c) ==
  /\ stamp' = [stamp EXCEPT ![c] = allocated]
  /\ allocated' = allocated + 1
  /\ seq' = IF seq >= MaxSeq THEN 1 ELSE seq + 1

\* _require_connection: no socket is bound, nothing is allocated or queued.
Unconnected(c) ==
  /\ phase = "ended" /\ st[c] = "idle"
  /\ st' = [st EXCEPT ![c] = "done"]
  /\ out' = [out EXCEPT ![c] = "refused"]
  /\ UNCHANGED <<phase, seq, allocated, pending, wireVars, slot, stamp, got>>

\* async_request_status and async_send_command: queue a frame and wait for
\* nothing.
Command(c) ==
  /\ phase # "ended" /\ st[c] = "idle"
  /\ NextSeq(c)
  /\ st' = [st EXCEPT ![c] = "done"]
  /\ IF phase = "open"
       THEN tx' = Append(tx, c) /\ out' = [out EXCEPT ![c] = "queued"]
       ELSE UNCHANGED tx /\ out' = [out EXCEPT ![c] = "refused"]
  /\ UNCHANGED <<phase, pending, asked, replies, slot, got>>

InUse(s) == \E d \in Call : slot[d] = s /\ st[d] \notin {"idle", "done"}

\* Fault: a request that async_send refuses leaves its future in the table.
RequestLeaks(c, s) ==
  /\ phase # "ended" /\ st[c] = "idle"
  /\ s \in SeqSlot => s[2] = seq
  /\ Overlap \/ ~InUse(s)
  /\ NextSeq(c)
  /\ slot' = [slot EXCEPT ![c] = s]
  /\ pending' = [pending EXCEPT ![s] = c]
  /\ IF phase = "open"
       THEN /\ tx' = Append(tx, c)
            /\ st' = [st EXCEPT ![c] = "waiting"]
            /\ UNCHANGED out
       ELSE /\ st' = [st EXCEPT ![c] = "done"]
            /\ out' = [out EXCEPT ![c] = "refused"]
            /\ UNCHANGED tx
  /\ UNCHANGED <<phase, asked, replies, got>>

\* Fault: the frame is queued before _closing is looked at.
RequestQueuesFirst(c, s) ==
  /\ phase # "ended" /\ st[c] = "idle"
  /\ s \in SeqSlot => s[2] = seq
  /\ Overlap \/ ~InUse(s)
  /\ NextSeq(c)
  /\ slot' = [slot EXCEPT ![c] = s]
  /\ tx' = Append(tx, c)
  /\ IF phase = "open"
       THEN /\ pending' = [pending EXCEPT ![s] = c]
            /\ st' = [st EXCEPT ![c] = "waiting"]
            /\ UNCHANGED out
       ELSE /\ pending' = [pending EXCEPT ![s] = NoCall]
            /\ st' = [st EXCEPT ![c] = "done"]
            /\ out' = [out EXCEPT ![c] = "refused"]
  /\ UNCHANGED <<phase, asked, replies, got>>

\* async_send_authenticated, async_read_wireless, async_read_events and
\* async_read_programming: take a sequence byte, register a future, queue the
\* frame and wait.  async_send raises on a closing connection, and the finally
\* clause takes the registration back.
Request(c, s) ==
  /\ phase # "ended" /\ st[c] = "idle"
  /\ s \in SeqSlot => s[2] = seq
  /\ Overlap \/ ~InUse(s)
  /\ NextSeq(c)
  /\ slot' = [slot EXCEPT ![c] = s]
  /\ IF phase = "open"
       THEN /\ pending' = [pending EXCEPT ![s] = c]
            /\ tx' = Append(tx, c)
            /\ st' = [st EXCEPT ![c] = "waiting"]
            /\ UNCHANGED out
       ELSE /\ pending' = [pending EXCEPT ![s] = NoCall]
            /\ st' = [st EXCEPT ![c] = "done"]
            /\ out' = [out EXCEPT ![c] = "refused"]
            /\ UNCHANGED tx
  /\ UNCHANGED <<phase, asked, replies, got>>

\* Fault: the future is awaited without a timeout.
ExpireNever(c) ==
  /\ st[c] = "cancelled"
  /\ st' = [st EXCEPT ![c] = "expired"]
  /\ UNCHANGED <<phase, seq, allocated, pending, wireVars, slot, stamp, got, out>>

\* asyncio.timeout cancels the caller's task, and with it a future that has no
\* result; a result or a cancellation that the caller has not seen yet is lost.
Expire(c) ==
  /\ st[c] \in {"waiting", "answered", "cancelled"}
  /\ st' = [st EXCEPT ![c] = "expired"]
  /\ UNCHANGED <<phase, seq, allocated, pending, wireVars, slot, stamp, got, out>>

\* The caller resumes: its finally clause pops its key, whoever is there, and
\* the call ends.
Return(c) ==
  /\ st[c] \in {"answered", "expired", "cancelled"}
  /\ pending' = [pending EXCEPT ![slot[c]] = NoCall]
  /\ st' = [st EXCEPT ![c] = "done"]
  /\ out' = [out EXCEPT ![c] = CASE st[c] = "answered" -> "reply"
                                 [] st[c] = "expired" -> "timeout"
                                 [] OTHER -> "cancelled"]
  /\ UNCHANGED <<phase, seq, allocated, wireVars, slot, stamp, got>>

-----------------------------------------------------------------------------
(* The connection. *)

\* _drain_tx takes the next frame; _write_now drops it on a closing connection,
\* and a write that fails is logged and forgotten.
Transmit ==
  /\ phase \in {"open", "closing"} /\ tx # <<>>
  /\ tx' = Tail(tx)
  /\ \/ phase = "open" /\ asked' = asked \cup {Head(tx)}
     \/ UNCHANGED asked
  /\ UNCHANGED <<phase, seq, allocated, pending, replies, callVars>>

\* Fault: set_result without asking whether the future is done.
ReceiveUnchecked ==
  /\ phase \in {"open", "closing"} /\ replies # <<>>
  /\ replies' = Tail(replies)
  /\ LET s == slot[Head(replies)]
         c == pending[s]
     IN /\ pending' = [pending EXCEPT ![s] = NoCall]
        /\ IF c # NoCall
             THEN /\ st' = [st EXCEPT ![c] = "answered"]
                  /\ got' = [got EXCEPT ![c] = Head(replies)]
             ELSE UNCHANGED <<st, got>>
  /\ UNCHANGED <<phase, seq, allocated, tx, asked, slot, stamp, out>>

\* Fault: replies are ignored once close() was called.
ReceiveUnlessClosing ==
  /\ phase \in {"open", "closing"} /\ replies # <<>>
  /\ replies' = Tail(replies)
  /\ LET s == slot[Head(replies)]
         c == pending[s]
     IN /\ pending' = [pending EXCEPT ![s] = NoCall]
        /\ IF c # NoCall /\ st[c] = "waiting" /\ phase = "open"
             THEN /\ st' = [st EXCEPT ![c] = "answered"]
                  /\ got' = [got EXCEPT ![c] = Head(replies)]
             ELSE UNCHANGED <<st, got>>
  /\ UNCHANGED <<phase, seq, allocated, tx, asked, slot, stamp, out>>

\* _handle_frame of a reply: _resolve_pending and its three siblings pop the
\* key the reply carries and resolve the future unless it is done.  A reply on
\* a socket that close() was called on is still read.
Receive ==
  /\ phase \in {"open", "closing"} /\ replies # <<>>
  /\ replies' = Tail(replies)
  /\ LET s == slot[Head(replies)]
         c == pending[s]
     IN /\ pending' = [pending EXCEPT ![s] = NoCall]
        /\ IF c # NoCall /\ st[c] = "waiting"
             THEN /\ st' = [st EXCEPT ![c] = "answered"]
                  /\ got' = [got EXCEPT ![c] = Head(replies)]
             ELSE UNCHANGED <<st, got>>
  /\ UNCHANGED <<phase, seq, allocated, tx, asked, slot, stamp, out>>

\* _PanelConnection.close()
Close ==
  /\ phase = "open" /\ phase' = "closing"
  /\ UNCHANGED <<seq, allocated, pending, wireVars, callVars>>

\* Fault: the tables are cleared before the transmit task is awaited.
BeginShutdownClears ==
  /\ phase \in {"open", "closing"} /\ phase' = "shutdown"
  /\ pending' = [s \in Slot |-> NoCall]
  /\ UNCHANGED <<seq, allocated, wireVars, callVars>>

\* _shutdown up to its await: the transmit task is cancelled.
BeginShutdown ==
  /\ phase \in {"open", "closing"} /\ phase' = "shutdown"
  /\ UNCHANGED <<seq, allocated, pending, wireVars, callVars>>

\* The rest of _shutdown: every future in the tables that is not done is
\* cancelled, the tables are cleared and the link is unbound.
EndShutdown ==
  /\ phase = "shutdown" /\ phase' = "ended"
  /\ st' = [c \in Call |->
              IF st[c] = "waiting" /\ \E s \in Slot : pending[s] = c
                THEN "cancelled" ELSE st[c]]
  /\ pending' = [s \in Slot |-> NoCall]
  /\ UNCHANGED <<seq, allocated, wireVars, slot, stamp, got, out>>

-----------------------------------------------------------------------------
\* The panel answers a request at some time, in any order, or never.
Answer(c) ==
  /\ c \in asked /\ slot[c] # NoSlot
  /\ asked' = asked \ {c}
  /\ replies' = Append(replies, c)
  /\ UNCHANGED <<phase, seq, allocated, pending, tx, callVars>>

CallStep(c) ==
  \/ Unconnected(c) \/ Command(c) \/ Expire(c) \/ Return(c)
  \/ \E s \in Slot : Request(c, s)

ConnectionStep == Transmit \/ Receive \/ Close \/ BeginShutdown \/ EndShutdown

Next == ConnectionStep \/ \E c \in Call : CallStep(c) \/ Answer(c)

Spec == Init /\ [][Next]_vars

\* A timer fires, a woken task runs and a shutdown that began goes on: that is
\* the event loop.  Nothing is assumed of the panel or of the socket.
FairSpec ==
  /\ Spec
  /\ \A c \in Call : WF_vars(Expire(c)) /\ WF_vars(Return(c))
  /\ WF_vars(EndShutdown)

-----------------------------------------------------------------------------
(* Properties. *)

\* A caller that waits can be reached: its future is in the table under its
\* key.  Callers that reuse a key, the removal of the key by a reply and by a
\* finally clause a turn later, and shutdown all touch that entry.
WaitingIsRegistered ==
  \A c \in Call : st[c] = "waiting" => pending[slot[c]] = c

\* No entry outlives its call: the tables do not grow over a connection's life.
EntriesAreLive ==
  \A s \in Slot : pending[s] # NoCall => slot[pending[s]] = s /\ st[pending[s]] \in {"waiting", "expired"}

\* Once the link is unbound nobody waits for an answer that cannot come
\* (_shutdown awaits the transmit task before it cancels the futures).
NobodyWaitsAfterEnd == phase = "ended" => \A c \in Call : st[c] # "waiting"

\* A call answered under a sequence byte holds the answer to itself, unless it
\* took its byte a whole round of the counter, or more, after the request that
\* was answered.
AnswerIsOwn ==
  \A c \in Call : st[c] = "answered" /\ slot[c] \in SeqSlot =>
    got[c] = c \/ stamp[c] - stamp[got[c]] >= MaxSeq

\* PanelNotConnectedError means that the frame was not, and will not be, sent.
RefusedIsNotSent ==
  \A c \in Call : out[c] = "refused" => c \notin asked /\ \A i \in 1..Len(tx) : tx[i] # c

\* A reply is handed to whoever waits for it: nobody is left waiting for the
\* key of a reply that was just received.
HandedToWhoeverAsked ==
  [][\A c \in Call :
       (st[c] = "waiting" /\ replies # <<>> /\ replies' = Tail(replies)
          /\ slot[c] = slot[Head(replies)]) => st'[c] # "waiting"]_vars

\* A future that is done is never resolved again: an answer that comes after
\* the timeout, or after the shutdown, changes nothing for the caller.
LateAnswerIgnored ==
  [][\A c \in Call : st[c] \notin {"waiting", "answered"} => st'[c] # "answered"]_vars

\* Every call ends: with a reply, a timeout, a cancellation or a refusal.
EveryCallEnds == \A c \in Call : st[c] # "idle" ~> st[c] = "done"

=============================================================================
