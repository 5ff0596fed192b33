---------------------------- MODULE RequestsProofs ----------------------------
(***************************************************************************)
(* Theorems about the requests of a connection, for every number of calls, *)
(* every length of the counter and every order of replies and timeouts.    *)
(***************************************************************************)
EXTENDS Requests, SequenceTheorems, TLAPS

\* What is read of a queue, and what is left.
LEMMA QueueFacts ==
  ASSUME NEW S, NEW q \in Seq(S), NEW e \in S
  PROVE  /\ Append(q, e) \in Seq(S)
         /\ \A i \in 1..Len(Append(q, e)) :
              Append(q, e)[i] = e \/ (i \in 1..Len(q) /\ Append(q, e)[i] = q[i])
         /\ q # <<>> =>
              /\ Head(q) \in S /\ Tail(q) \in Seq(S) /\ Len(q) \in Nat \ {0} /\ Head(q) = q[1]
              /\ \A i \in 1..Len(Tail(q)) : i + 1 \in 1..Len(q) /\ Tail(q)[i] = q[i + 1]
OBVIOUS

\* What holds of a call before and after it runs.
CallsAreOnce ==
  \A c \in Call :
    /\ st[c] = "idle" => c \notin asked /\ \A i \in 1..Len(tx) : tx[i] # c
    /\ st[c] \notin {"idle", "done"} => slot[c] \in Slot
    /\ out[c] = "refused" => st[c] = "done"

\* The keys of the tables, and what is none.
LEMMA SlotFacts ==
  /\ \A s \in SeqSlot : s[2] \in 1..MaxSeq
  /\ SeqSlot \subseteq Slot /\ NoSlot \notin Slot
BY SlotAssumption DEF Slot, SeqSlot, BlockSlot

\* Handing out a sequence byte keeps the types of the counter and of its history.
LEMMA SeqIsAByte ==
  ASSUME TypeOK, NEW c \in Call, NextSeq(c)
  PROVE  seq' \in 1..MaxSeq /\ allocated' \in Nat /\ stamp' \in [Call -> Nat]
<1>1. seq \in Int /\ seq >= 1 /\ seq <= MaxSeq /\ MaxSeq \in Int /\ MaxSeq >= 1
  BY SeqAssumption DEF TypeOK
<1>2. allocated \in Nat /\ stamp \in [Call -> Nat]
  BY DEF TypeOK
<1>3. CASE seq >= MaxSeq
  BY <1>1, <1>2, <1>3 DEF NextSeq
<1>4. CASE ~(seq >= MaxSeq)
  BY <1>1, <1>2, <1>4 DEF NextSeq
<1> QED
  BY <1>3, <1>4

\* Type correctness: among others, the sequence byte stays within a byte (Seq.next)
\* and the tables hold calls under the keys that their requests may have.
THEOREM TypeCorrect == Spec => []TypeOK
<1>1. Init => TypeOK
  BY SeqAssumption DEF Init, TypeOK
<1>2. TypeOK /\ [Next]_vars => TypeOK'
  <2> SUFFICES ASSUME TypeOK, [Next]_vars PROVE TypeOK'
    OBVIOUS
  <2>1. ASSUME NEW c \in Call, Unconnected(c) PROVE TypeOK'
    BY <2>1 DEF Unconnected, TypeOK, wireVars
  <2>2. ASSUME NEW c \in Call, Command(c) PROVE TypeOK'
    <3>1. Append(tx, c) \in Seq(Call) /\ tx \in Seq(Call)
      BY DEF TypeOK
    <3>2. seq' \in 1..MaxSeq /\ allocated' \in Nat /\ stamp' \in [Call -> Nat]
      BY <2>2, SeqIsAByte DEF Command
    <3>3. tx' \in Seq(Call)
      BY <2>2, <3>1 DEF Command
    <3>4. /\ st' \in [Call -> {"idle", "waiting", "answered", "expired", "cancelled", "done"}]
          /\ out' \in [Call -> {"none", "queued", "refused", "reply", "timeout", "cancelled"}]
      BY <2>2 DEF Command, TypeOK
    <3>5. UNCHANGED <<phase, pending, asked, replies, slot, got>>
      BY <2>2 DEF Command
    <3> QED
      BY <3>2, <3>3, <3>4, <3>5 DEF TypeOK
  <2>3. ASSUME NEW c \in Call, NEW s \in Slot, Request(c, s) PROVE TypeOK'
    <3>1. Append(tx, c) \in Seq(Call) /\ tx \in Seq(Call)
      BY DEF TypeOK
    <3>2. seq' \in 1..MaxSeq /\ allocated' \in Nat /\ stamp' \in [Call -> Nat]
      BY <2>3, SeqIsAByte DEF Request
    <3>3. tx' \in Seq(Call)
      BY <2>3, <3>1 DEF Request
    <3>4. /\ st' \in [Call -> {"idle", "waiting", "answered", "expired", "cancelled", "done"}]
          /\ out' \in [Call -> {"none", "queued", "refused", "reply", "timeout", "cancelled"}]
      BY <2>3 DEF Request, TypeOK
    <3>5. pending' \in [Slot -> Call \cup {NoCall}] /\ slot' \in [Call -> Slot \cup {NoSlot}]
      BY <2>3 DEF Request, TypeOK
    <3>6. UNCHANGED <<phase, asked, replies, got>>
      BY <2>3 DEF Request
    <3> QED
      BY <3>2, <3>3, <3>4, <3>5, <3>6 DEF TypeOK
  <2>4. ASSUME NEW c \in Call, Expire(c) PROVE TypeOK'
    BY <2>4 DEF Expire, TypeOK, wireVars
  <2>5. ASSUME NEW c \in Call, Return(c) PROVE TypeOK'
    BY <2>5 DEF Return, TypeOK, wireVars
  <2>6. CASE Transmit
    <3>1. tx' \in Seq(Call) /\ Head(tx) \in Call
      BY <2>6, QueueFacts DEF Transmit, TypeOK
    <3> QED
      BY <2>6, <3>1 DEF Transmit, TypeOK, callVars
  <2>7. CASE Receive
    <3>1. replies' \in Seq(Call) /\ Head(replies) \in Call
      BY <2>7, QueueFacts DEF Receive, TypeOK
    <3> QED
      BY <2>7, <3>1 DEF Receive, TypeOK
  <2>8. CASE Close \/ BeginShutdown
    BY <2>8 DEF Close, BeginShutdown, TypeOK, wireVars, callVars
  <2>9. CASE EndShutdown
    BY <2>9 DEF EndShutdown, TypeOK, wireVars
  <2>10. ASSUME NEW c \in Call, Answer(c) PROVE TypeOK'
    BY <2>10 DEF Answer, TypeOK, callVars
  <2>11. CASE UNCHANGED vars
    BY <2>11 DEF vars, wireVars, callVars, TypeOK
  <2> QED
    BY <2>1, <2>2, <2>3, <2>4, <2>5, <2>6, <2>7, <2>8, <2>9, <2>10, <2>11
       DEF Next, ConnectionStep, CallStep
<1> QED
  BY <1>1, <1>2, PTL DEF Spec

-----------------------------------------------------------------------------
\* A reply on its way answers a call that has a key, and an idle call has no entry.
RepliesHaveKeys == \A i \in 1..Len(replies) : slot[replies[i]] \in Slot

\* What is registered is waited for, and a reply has a key.
LEMMA TablesInv == Spec => [](EntriesAreLive /\ RepliesHaveKeys)
<1> DEFINE Inv == EntriesAreLive /\ RepliesHaveKeys
<1>1. Init => Inv
  BY DEF Init, EntriesAreLive, RepliesHaveKeys
<1>2. TypeOK /\ Inv /\ [Next]_vars => Inv'
  <2> SUFFICES ASSUME TypeOK, Inv, [Next]_vars PROVE Inv'
    OBVIOUS
  <2> USE DEF EntriesAreLive, RepliesHaveKeys
  <2>t. /\ pending \in [Slot -> Call \cup {NoCall}]
        /\ st \in [Call -> {"idle", "waiting", "answered", "expired", "cancelled", "done"}]
        /\ slot \in [Call -> Slot \cup {NoSlot}] /\ replies \in Seq(Call)
    BY DEF TypeOK
  <2>e. \A i \in 1..Len(replies) : replies[i] \in Call
    BY <2>t
  <2>1. ASSUME NEW c \in Call, Unconnected(c) \/ Command(c) PROVE Inv'
    <3>1. UNCHANGED <<pending, slot, replies>> /\ st[c] = "idle" /\ st' = [st EXCEPT ![c] = "done"]
      BY <2>1 DEF Unconnected, Command, wireVars
    <3>2. \A s \in Slot : pending[s] # c
      BY <3>1, <2>t, CallAssumption
    <3> QED
      BY <3>1, <3>2, <2>t
  <2>2. ASSUME NEW c \in Call, NEW s \in Slot, Request(c, s) PROVE Inv'
    <3>1. /\ st[c] = "idle" /\ slot' = [slot EXCEPT ![c] = s] /\ replies' = replies
          /\ \/ pending' = [pending EXCEPT ![s] = c] /\ st' = [st EXCEPT ![c] = "waiting"]
             \/ pending' = [pending EXCEPT ![s] = NoCall] /\ st' = [st EXCEPT ![c] = "done"]
      BY <2>2 DEF Request
    <3>2. \A t \in Slot : pending[t] # c
      BY <3>1, <2>t, CallAssumption
    <3>3. EntriesAreLive'
      BY <3>1, <3>2, <2>t, CallAssumption
    <3>4. RepliesHaveKeys'
      BY <3>1, <2>t, <2>e
    <3> QED
      BY <3>3, <3>4
  <2>3. ASSUME NEW c \in Call, Expire(c) PROVE Inv'
    BY <2>t, <2>3 DEF Expire, wireVars
  <2>4. ASSUME NEW c \in Call, Return(c) PROVE Inv'
    BY <2>t, <2>4 DEF Return, wireVars
  <2>5. CASE Receive
    <3>1. Head(replies) = replies[1] /\ 1 \in 1..Len(replies)
          /\ \A i \in 1..Len(Tail(replies)) : i + 1 \in 1..Len(replies) /\ Tail(replies)[i] = replies[i + 1]
      BY <2>5, <2>t, QueueFacts DEF Receive
    <3> DEFINE s == slot[Head(replies)]
               c == pending[s]
    <3>2. s \in Slot /\ c \in Call \cup {NoCall}
      BY <3>1, <2>t, <2>e
    <3>3. /\ slot' = slot /\ replies' = Tail(replies)
          /\ pending' = [pending EXCEPT ![s] = NoCall]
          /\ (st' = [st EXCEPT ![c] = "answered"] /\ c \in Call) \/ st' = st
      BY <2>5, <3>2 DEF Receive
    <3>4. \A t \in Slot : t # s /\ pending[t] # NoCall => pending[t] # c
      BY <3>2, <2>t
    <3> HIDE DEF s, c
    <3>5. EntriesAreLive'
      BY <3>2, <3>3, <3>4, <2>t, CallAssumption
    <3>6. RepliesHaveKeys'
      BY <3>1, <3>3, <2>t
    <3> QED
      BY <3>5, <3>6
  <2>6. CASE EndShutdown
    BY <2>6 DEF EndShutdown, wireVars
  <2>7. ASSUME NEW c \in Call, Answer(c) PROVE Inv'
    <3>1. slot[c] \in Slot /\ UNCHANGED <<pending, st, slot>> /\ replies' = Append(replies, c)
      BY <2>7, <2>t DEF Answer, callVars
    <3>2. \A i \in 1..Len(replies') : replies'[i] = c \/ (i \in 1..Len(replies) /\ replies'[i] = replies[i])
      BY <3>1, <2>t, QueueFacts
    <3> QED
      BY <3>1, <3>2
  <2>8. CASE UNCHANGED <<pending, st, slot, replies>>
    BY <2>8
  <2> QED
    BY <2>1, <2>2, <2>3, <2>4, <2>5, <2>6, <2>7, <2>8
       DEF Next, ConnectionStep, CallStep, Transmit, Close, BeginShutdown, callVars, wireVars, vars
<1> QED
  BY <1>1, <1>2, TypeCorrect, PTL DEF Spec

\* No entry of the tables outlives its call, whether or not callers reuse keys:
\* a reply, a finally clause and the shutdown each take away what they should.
THEOREM TablesDoNotLeak == Spec => []EntriesAreLive
BY TablesInv, PTL

-----------------------------------------------------------------------------
\* Calls that are out at the same time have keys of their own.
KeysDiffer ==
  \A c, d \in Call :
    c # d /\ st[c] \notin {"idle", "done"} /\ st[d] \notin {"idle", "done"} => slot[c] # slot[d]

Registered ==
  /\ KeysDiffer
  /\ \A c \in Call : st[c] \notin {"idle", "done"} => slot[c] \in Slot
  /\ WaitingIsRegistered

\* A caller that waits can be reached, and after the end nobody waits, as long
\* as no two callers use a key at once (the run `selector` shows the rest).
THEOREM NobodyIsForgotten ==
  Overlap = FALSE => (Spec => [](WaitingIsRegistered /\ NobodyWaitsAfterEnd))
<1> SUFFICES ASSUME Overlap = FALSE PROVE Spec => [](WaitingIsRegistered /\ NobodyWaitsAfterEnd)
  OBVIOUS
<1> DEFINE Inv == Registered /\ NobodyWaitsAfterEnd
<1>1. Init => Inv
  BY DEF Init, Registered, KeysDiffer, WaitingIsRegistered, NobodyWaitsAfterEnd
<1>2. TypeOK /\ Inv /\ [Next]_vars => Inv'
  <2> SUFFICES ASSUME TypeOK, Inv, [Next]_vars PROVE Inv'
    OBVIOUS
  <2> USE DEF Registered, KeysDiffer, WaitingIsRegistered, NobodyWaitsAfterEnd
  <2>1. ASSUME NEW c \in Call, Unconnected(c) \/ Command(c) PROVE Inv'
    BY <2>1 DEF Unconnected, Command, TypeOK
  <2>2. ASSUME NEW c \in Call, NEW s \in Slot, Request(c, s) PROVE Inv'
    BY <2>2 DEF Request, InUse, TypeOK
  <2>3. ASSUME NEW c \in Call, Expire(c) PROVE Inv'
    BY <2>3 DEF Expire, TypeOK
  <2>4. ASSUME NEW c \in Call, Return(c) PROVE Inv'
    BY <2>4 DEF Return, TypeOK
  <2>5. CASE Receive
    BY <2>5 DEF Receive, TypeOK
  <2>6. CASE EndShutdown
    BY <2>6, CallAssumption DEF EndShutdown, TypeOK
  <2>7. CASE UNCHANGED <<pending, st, slot>> /\ (phase' = phase \/ phase' # "ended")
    BY <2>7
  <2> QED
    BY <2>1, <2>2, <2>3, <2>4, <2>5, <2>6, <2>7
       DEF Next, ConnectionStep, CallStep, Transmit, Close, BeginShutdown, Answer, callVars, vars
<1> QED
  BY <1>1, <1>2, TypeCorrect, PTL DEF Spec, Registered

-----------------------------------------------------------------------------
\* A request that was refused is neither on the wire nor queued, then or later.
THEOREM RefusalIsFinal == Spec => []RefusedIsNotSent
<1> DEFINE Inv == CallsAreOnce /\ RefusedIsNotSent
<1>1. Init => Inv
  BY DEF Init, CallsAreOnce, RefusedIsNotSent
<1>2. TypeOK /\ Inv /\ [Next]_vars => Inv'
  <2> SUFFICES ASSUME TypeOK, Inv, [Next]_vars PROVE Inv'
    OBVIOUS
  <2> USE DEF CallsAreOnce, RefusedIsNotSent
  <2>1. ASSUME NEW c \in Call, Unconnected(c) PROVE Inv'
    BY <2>1 DEF Unconnected, TypeOK, wireVars
  <2>2. ASSUME NEW c \in Call, Command(c) \/ \E s \in Slot : Request(c, s) PROVE Inv'
    <3> DEFINE q == Append(tx, c)
    <3>1. \A i \in 1..Len(q) : q[i] = c \/ (i \in 1..Len(tx) /\ q[i] = tx[i])
      BY QueueFacts DEF TypeOK
    <3>2. /\ st \in [Call -> {"idle", "waiting", "answered", "expired", "cancelled", "done"}]
          /\ out \in [Call -> {"none", "queued", "refused", "reply", "timeout", "cancelled"}]
          /\ slot \in [Call -> Slot \cup {NoSlot}]
      BY DEF TypeOK
    <3>3. /\ st[c] = "idle" /\ asked' = asked
          /\ slot' = slot \/ (\E s \in Slot : slot' = [slot EXCEPT ![c] = s])
          /\ \/ tx' = q /\ out' = [out EXCEPT ![c] = "queued"] /\ st' = [st EXCEPT ![c] = "done"]
             \/ tx' = tx /\ out' = [out EXCEPT ![c] = "refused"] /\ st' = [st EXCEPT ![c] = "done"]
             \/ /\ tx' = q /\ out' = out /\ st' = [st EXCEPT ![c] = "waiting"]
                /\ slot'[c] \in Slot
      BY <2>2, <3>2 DEF Command, Request
    <3>4. c \notin asked /\ out[c] # "refused" /\ \A i \in 1..Len(tx) : tx[i] # c
      BY <3>3
    <3> HIDE DEF q
    <3>5. CallsAreOnce'
      BY <3>1, <3>2, <3>3, <3>4
    <3>6. RefusedIsNotSent'
      BY <3>1, <3>2, <3>3, <3>4
    <3> QED
      BY <3>5, <3>6
  <2>4. ASSUME NEW c \in Call, Expire(c) PROVE Inv'
    BY <2>4 DEF Expire, TypeOK, wireVars
  <2>5. ASSUME NEW c \in Call, Return(c) PROVE Inv'
    BY <2>5 DEF Return, TypeOK, wireVars
  <2>6. CASE Transmit
    <3>1. /\ Head(tx) = tx[1] /\ 1 \in 1..Len(tx)
          /\ \A i \in 1..Len(Tail(tx)) : i + 1 \in 1..Len(tx) /\ Tail(tx)[i] = tx[i + 1]
      BY <2>6, QueueFacts DEF Transmit, TypeOK
    <3>2. /\ tx' = Tail(tx) /\ UNCHANGED <<st, slot, out>>
          /\ asked' = asked \cup {tx[1]} \/ asked' = asked
      BY <2>6, <3>1 DEF Transmit, callVars
    <3>3. RefusedIsNotSent'
      BY <3>1, <3>2
    <3>4. \A c \in Call : st[c] = "idle" => c # tx[1]
      BY <3>1
    <3>5. CallsAreOnce'
      BY <3>1, <3>2, <3>4
    <3> QED
      BY <3>3, <3>5
  <2>7. CASE Receive
    BY <2>7 DEF Receive, TypeOK
  <2>8. CASE EndShutdown
    BY <2>8 DEF EndShutdown, TypeOK, wireVars
  <2>9. ASSUME NEW c \in Call, Answer(c) PROVE Inv'
    BY <2>9 DEF Answer, TypeOK, callVars
  <2>10. CASE UNCHANGED <<tx, asked, st, slot, out>>
    BY <2>10
  <2> QED
    BY <2>1, <2>2, <2>4, <2>5, <2>6, <2>7, <2>8, <2>9, <2>10
       DEF Next, ConnectionStep, CallStep, Close, BeginShutdown, callVars, wireVars, vars
<1> QED
  BY <1>1, <1>2, TypeCorrect, PTL DEF Spec

-----------------------------------------------------------------------------
\* A future that is done is never resolved again.
THEOREM LateAnswersChangeNothing == Spec => LateAnswerIgnored
<1>1. TypeOK /\ [Next]_vars => [\A c \in Call : st[c] \notin {"waiting", "answered"} => st'[c] # "answered"]_vars
  <2> SUFFICES ASSUME TypeOK, Next, NEW c \in Call, st[c] \notin {"waiting", "answered"}
               PROVE  st'[c] # "answered"
    OBVIOUS
  <2>1. ASSUME NEW d \in Call, CallStep(d) PROVE st'[c] # "answered"
    BY <2>1 DEF CallStep, Unconnected, Command, Expire, Return, Request, TypeOK
  <2>2. CASE Receive
    BY <2>2 DEF Receive, TypeOK
  <2>3. CASE EndShutdown
    BY <2>3 DEF EndShutdown, TypeOK
  <2>4. CASE st' = st
    BY <2>4
  <2> QED
    BY <2>1, <2>2, <2>3, <2>4 DEF Next, ConnectionStep, Transmit, Close, BeginShutdown, Answer, callVars
<1> QED
  BY <1>1, TypeCorrect, PTL DEF Spec, LateAnswerIgnored
-----------------------------------------------------------------------------
(* The sequence bytes.  Seq hands them out in a circle, so how long ago a    *)
(* byte was handed out is at least the way from it to the next one.         *)

Turns(b, next) == IF next > b THEN next - b ELSE next - b + MaxSeq

\* An idle call has no key, one that is out has, and whoever has a key took its
\* stamp in the past.
KeysAreStamped ==
  \A c \in Call : /\ st[c] = "idle" => slot[c] = NoSlot
                  /\ st[c] \notin {"idle", "done"} => slot[c] # NoSlot
                  /\ slot[c] # NoSlot => stamp[c] < allocated

\* No byte is handed out again before all the others were.
BytesComeRound ==
  \A c \in Call : slot[c] \in SeqSlot => allocated - stamp[c] >= Turns(slot[c][2], seq)

\* So two requests under one byte are a whole round apart.
RoundsApart ==
  \A c, d \in Call :
    slot[c] \in SeqSlot /\ slot[d] = slot[c] /\ stamp[d] < stamp[c] => stamp[c] - stamp[d] >= MaxSeq

\* The future under a key belongs to the last request that took the key.
LastComerIsRegistered ==
  \A s \in Slot : \A d \in Call :
    pending[s] # NoCall /\ slot[d] = s => d = pending[s] \/ stamp[d] < stamp[pending[s]]

\* What a future holds came under its key.
AnswersHaveKeys == \A c \in Call : st[c] = "answered" => got[c] \in Call /\ slot[got[c]] = slot[c]

StampInv ==
  /\ KeysAreStamped /\ BytesComeRound /\ RoundsApart /\ LastComerIsRegistered
  /\ AnswersHaveKeys /\ AnswerIsOwn

\* Nothing has been handed out at first.
LEMMA StampInit == Init => StampInv
BY SlotFacts
   DEF Init, StampInv, KeysAreStamped, BytesComeRound, RoundsApart, LastComerIsRegistered,
       AnswersHaveKeys, AnswerIsOwn

\* The linear arithmetic of the circle: one byte handed out is one step further
\* from every byte, a whole circle from the one that was handed out.
LEMMA OneTurn ==
  ASSUME TypeOK, NEW c \in Call, NextSeq(c), NEW b \in 1..MaxSeq
  PROVE  /\ Turns(b, seq) \in 1..MaxSeq /\ (b = seq => Turns(b, seq) = MaxSeq)
         /\ Turns(b, seq') \in 1..MaxSeq
         /\ Turns(b, seq') <= Turns(b, seq) + 1
         /\ b = seq => Turns(b, seq') = 1
<1>1. seq \in Int /\ seq >= 1 /\ seq <= MaxSeq /\ MaxSeq \in Int /\ MaxSeq >= 1
  BY SeqAssumption DEF TypeOK
<1>2. b \in Int /\ b >= 1 /\ b <= MaxSeq
  BY <1>1
<1>3. CASE seq >= MaxSeq
  <2>1. seq' = 1 /\ seq = MaxSeq
    BY <1>1, <1>3 DEF NextSeq
  <2> QED
    BY <1>1, <1>2, <2>1 DEF Turns
<1>4. CASE ~(seq >= MaxSeq)
  <2>1. seq' = seq + 1
    BY <1>4 DEF NextSeq
  <2> QED
    BY <1>1, <1>2, <1>4, <2>1 DEF Turns
<1> QED
  BY <1>3, <1>4

\* A call that takes a byte and a key, or a byte and no key, keeps the order of
\* the stamps.
LEMMA StampsMove ==
  ASSUME TypeOK, StampInv, NEW c \in Call, NextSeq(c), st[c] = "idle", st'[c] # "idle",
         \A d \in Call \ {c} : st'[d] = st[d],
         \/ slot' = slot /\ st'[c] = "done"
         \/ \E s \in Slot : (s \in SeqSlot => s[2] = seq) /\ slot' = [slot EXCEPT ![c] = s]
  PROVE  KeysAreStamped' /\ BytesComeRound' /\ RoundsApart'
<1>1. /\ allocated \in Nat /\ stamp \in [Call -> Nat] /\ slot \in [Call -> Slot \cup {NoSlot}]
      /\ seq \in 1..MaxSeq /\ MaxSeq \in Nat \ {0}
  BY SeqAssumption DEF TypeOK
<1>2. /\ allocated' = allocated + 1 /\ stamp' = [stamp EXCEPT ![c] = allocated]
      /\ slot[c] = NoSlot
  BY DEF NextSeq, StampInv, KeysAreStamped
<1>3. \A d \in Call \ {c} : stamp'[d] = stamp[d] /\ slot'[d] = slot[d]
  BY <1>1, <1>2
<1>4. stamp'[c] = allocated
  BY <1>1, <1>2
<1>5. slot'[c] \in SeqSlot => slot'[c][2] = seq
  BY <1>1, <1>2, SlotFacts
<1>6. slot'[c] \in Slot \cup {NoSlot}
  BY <1>1
<1>7. KeysAreStamped'
  <2>1. slot'[c] # NoSlot \/ st'[c] = "done"
    BY <1>1, SlotFacts
  <2> QED
    BY <1>1, <1>2, <1>3, <1>4, <2>1 DEF KeysAreStamped, StampInv
<1>8. BytesComeRound'
  <2> SUFFICES ASSUME NEW d \in Call, slot'[d] \in SeqSlot
               PROVE  allocated' - stamp'[d] >= Turns(slot'[d][2], seq')
    BY DEF BytesComeRound
  <2>1. slot'[d][2] \in 1..MaxSeq
    BY SlotFacts
  <2>2. CASE d = c
    <3>1. Turns(seq, seq') = 1
      BY <1>1, OneTurn
    <3> QED
      BY <1>1, <1>2, <1>4, <1>5, <2>2, <3>1 DEF Turns
  <2>3. CASE d # c
    <3> DEFINE b == slot[d][2]
    <3>1. slot'[d] = slot[d] /\ stamp'[d] = stamp[d] /\ b \in 1..MaxSeq
      BY <1>3, <2>1, <2>3
    <3>2. allocated - stamp[d] >= Turns(b, seq)
      BY <3>1 DEF StampInv, BytesComeRound
    <3>3. Turns(b, seq) \in 1..MaxSeq /\ Turns(b, seq') \in 1..MaxSeq /\ Turns(b, seq') <= Turns(b, seq) + 1
      BY <3>1, OneTurn
    <3>4. Turns(slot'[d][2], seq') = Turns(b, seq')
      BY <3>1 DEF Turns
    <3> QED
      BY <1>1, <1>2, <3>1, <3>2, <3>3, <3>4
  <2> QED
    BY <2>2, <2>3
<1>9. RoundsApart'
  <2> SUFFICES ASSUME NEW d \in Call, NEW e \in Call, slot'[d] \in SeqSlot, slot'[e] = slot'[d],
                      stamp'[e] < stamp'[d]
               PROVE  stamp'[d] - stamp'[e] >= MaxSeq
    BY DEF RoundsApart
  <2>1. CASE d # c /\ e # c
    BY <1>3, <2>1 DEF StampInv, RoundsApart
  <2>2. CASE e = c
    <3>1. d # c /\ slot[d] # NoSlot
      BY <1>1, <1>3, <1>4, <2>2, SlotFacts
    <3> QED
      BY <1>1, <1>3, <1>4, <2>2, <3>1 DEF StampInv, KeysAreStamped
  <2>3. CASE d = c /\ e # c
    <3>1. slot[e] \in SeqSlot /\ slot[e][2] = seq /\ stamp'[e] = stamp[e]
      BY <1>3, <1>5, <2>3
    <3>2. allocated - stamp[e] >= Turns(seq, seq) /\ Turns(seq, seq) = MaxSeq
      BY <1>1, <3>1, OneTurn DEF StampInv, BytesComeRound
    <3> QED
      BY <1>4, <2>3, <3>1, <3>2
  <2> QED
    BY <2>1, <2>2, <2>3
<1> QED
  BY <1>7, <1>8, <1>9

\* A request takes its key from every request before it.
LEMMA RequestKeeps ==
  ASSUME TypeOK, EntriesAreLive, StampInv, NEW c \in Call, NEW s \in Slot, Request(c, s)
  PROVE  StampInv'
<1>1. /\ allocated \in Nat /\ stamp \in [Call -> Nat] /\ slot \in [Call -> Slot \cup {NoSlot}]
      /\ pending \in [Slot -> Call \cup {NoCall}]
      /\ st \in [Call -> {"idle", "waiting", "answered", "expired", "cancelled", "done"}]
  BY DEF TypeOK
<1>2. /\ st[c] = "idle" /\ NextSeq(c) /\ slot' = [slot EXCEPT ![c] = s] /\ got' = got
      /\ s \in SeqSlot => s[2] = seq
      /\ \/ pending' = [pending EXCEPT ![s] = c] /\ st' = [st EXCEPT ![c] = "waiting"]
         \/ pending' = [pending EXCEPT ![s] = NoCall] /\ st' = [st EXCEPT ![c] = "done"]
  BY DEF Request
<1>3. /\ slot[c] = NoSlot /\ slot'[c] = s /\ stamp'[c] = allocated
      /\ st'[c] \in {"waiting", "done"}
      /\ \A d \in Call \ {c} : slot'[d] = slot[d] /\ stamp'[d] = stamp[d] /\ st'[d] = st[d]
  BY <1>1, <1>2 DEF NextSeq, StampInv, KeysAreStamped
<1>4. KeysAreStamped' /\ BytesComeRound' /\ RoundsApart'
  <2>1. st'[c] # "idle" /\ \A d \in Call \ {c} : st'[d] = st[d]
    BY <1>3
  <2> QED
    BY <1>2, <2>1, StampsMove
<1>5. LastComerIsRegistered'
  <2> SUFFICES ASSUME NEW t \in Slot, NEW d \in Call, pending'[t] # NoCall, slot'[d] = t
               PROVE  d = pending'[t] \/ stamp'[d] < stamp'[pending'[t]]
    BY DEF LastComerIsRegistered
  <2>1. CASE t = s
    <3>1. pending'[t] = c
      BY <1>1, <1>2, <2>1
    <3>2. d # c => stamp[d] < allocated
      BY <1>3, <2>1, SlotFacts DEF StampInv, KeysAreStamped
    <3> QED
      BY <1>3, <3>1, <3>2
  <2>2. CASE t # s
    <3>1. pending'[t] = pending[t] /\ d # c /\ slot[d] = t
      BY <1>1, <1>2, <1>3, <2>2
    <3>2. pending[t] \in Call /\ slot[pending[t]] = t
      BY <1>1, <3>1 DEF EntriesAreLive
    <3>3. pending[t] # c
      BY <1>3, <3>2, SlotFacts
    <3> QED
      BY <1>3, <3>1, <3>2, <3>3 DEF StampInv, LastComerIsRegistered
  <2> QED
    BY <2>1, <2>2
<1>6. \A d \in Call : st'[d] = "answered" => d # c /\ st[d] = "answered"
  BY <1>3
<1>7. AnswersHaveKeys' /\ AnswerIsOwn'
  <2>1. ASSUME NEW d \in Call, st'[d] = "answered"
        PROVE  /\ got[d] \in Call /\ slot[got[d]] = slot[d]
               /\ slot[d] # NoSlot => got[d] # c /\ slot'[got[d]] = slot'[d]
               /\ d # c
    BY <1>2, <1>3, <1>6, <2>1 DEF StampInv, AnswersHaveKeys
  <2>2. ASSUME NEW d \in Call, st'[d] = "answered"
        PROVE  slot[d] \in Slot
    BY <1>1, <1>6, <2>2 DEF StampInv, KeysAreStamped
  <2> QED
    BY <1>2, <1>3, <1>6, <2>1, <2>2, SlotFacts DEF StampInv, AnswersHaveKeys, AnswerIsOwn
<1> QED
  BY <1>4, <1>5, <1>7 DEF StampInv

\* A command takes a byte and no key.
LEMMA CommandKeeps ==
  ASSUME TypeOK, EntriesAreLive, StampInv, NEW c \in Call, Command(c)
  PROVE  StampInv'
<1>1. /\ stamp \in [Call -> Nat] /\ slot \in [Call -> Slot \cup {NoSlot}]
      /\ pending \in [Slot -> Call \cup {NoCall}]
      /\ st \in [Call -> {"idle", "waiting", "answered", "expired", "cancelled", "done"}]
  BY DEF TypeOK
<1>2. /\ st[c] = "idle" /\ NextSeq(c) /\ UNCHANGED <<slot, got, pending>>
      /\ st' = [st EXCEPT ![c] = "done"]
  BY DEF Command
<1>3. /\ slot[c] = NoSlot
      /\ \A d \in Call \ {c} : stamp'[d] = stamp[d] /\ st'[d] = st[d]
  BY <1>1, <1>2 DEF NextSeq, StampInv, KeysAreStamped
<1>4. KeysAreStamped' /\ BytesComeRound' /\ RoundsApart'
  BY <1>1, <1>2, <1>3, StampsMove
<1>5. LastComerIsRegistered'
  <2>1. \A t \in Slot : pending[t] # NoCall => pending[t] \in Call \ {c}
    BY <1>1, <1>3, SlotFacts DEF EntriesAreLive
  <2>2. \A t \in Slot, d \in Call : slot[d] = t => d # c
    BY <1>3, SlotFacts
  <2> QED
    BY <1>2, <1>3, <2>1, <2>2 DEF StampInv, LastComerIsRegistered
<1>6. ASSUME NEW d \in Call, st'[d] = "answered"
      PROVE  d # c /\ st[d] = "answered" /\ slot[d] # NoSlot /\ got[d] \in Call \ {c}
  BY <1>1, <1>2, <1>3, <1>6 DEF StampInv, KeysAreStamped, AnswersHaveKeys
<1>7. AnswersHaveKeys' /\ AnswerIsOwn'
  BY <1>2, <1>3, <1>6 DEF StampInv, AnswersHaveKeys, AnswerIsOwn
<1> QED
  BY <1>4, <1>5, <1>7 DEF StampInv

\* The future that a reply resolves is the last that was registered under its
\* key, so the request that was answered is not a later one.
LEMMA ReceiveKeeps ==
  ASSUME TypeOK, EntriesAreLive, RepliesHaveKeys, StampInv, Receive
  PROVE  StampInv'
<1> DEFINE r == Head(replies)
           s == slot[r]
           c == pending[s]
<1>1. /\ stamp \in [Call -> Nat] /\ slot \in [Call -> Slot \cup {NoSlot}]
      /\ pending \in [Slot -> Call \cup {NoCall}] /\ got \in [Call -> Call \cup {NoCall}]
      /\ st \in [Call -> {"idle", "waiting", "answered", "expired", "cancelled", "done"}]
  BY DEF TypeOK
<1>2. r \in Call /\ s \in Slot
  <2>1. replies \in Seq(Call) /\ replies # <<>>
    BY DEF TypeOK, Receive
  <2>2. r = replies[1] /\ 1 \in 1..Len(replies) /\ r \in Call
    BY <2>1, QueueFacts
  <2> QED
    BY <2>2 DEF RepliesHaveKeys
<1>3. /\ pending' = [pending EXCEPT ![s] = NoCall] /\ UNCHANGED <<seq, allocated, slot, stamp>>
      /\ IF c # NoCall /\ st[c] = "waiting"
           THEN st' = [st EXCEPT ![c] = "answered"] /\ got' = [got EXCEPT ![c] = r]
           ELSE UNCHANGED <<st, got>>
  BY DEF Receive
<1>4. c # NoCall =>
        /\ c \in Call /\ slot[c] = s
        /\ r = c \/ stamp[r] < stamp[c]
  BY <1>1, <1>2 DEF EntriesAreLive, StampInv, LastComerIsRegistered
<1> HIDE DEF r, s, c
<1>5. KeysAreStamped' /\ BytesComeRound' /\ RoundsApart'
  BY <1>1, <1>3, <1>4 DEF StampInv, KeysAreStamped, BytesComeRound, RoundsApart, Turns
<1>6. LastComerIsRegistered'
  BY <1>1, <1>2, <1>3 DEF StampInv, LastComerIsRegistered
<1>7. ASSUME NEW d \in Call, st'[d] = "answered"
      PROVE  \/ st[d] = "answered" /\ got'[d] = got[d]
             \/ d = c /\ c # NoCall /\ got'[d] = r
  BY <1>1, <1>3, <1>4, <1>7
<1>8. c # NoCall /\ slot[c] \in SeqSlot => r = c \/ stamp[c] - stamp[r] >= MaxSeq
  BY <1>2, <1>4 DEF StampInv, RoundsApart, s
<1>9. AnswersHaveKeys' /\ AnswerIsOwn'
  BY <1>2, <1>3, <1>4, <1>7, <1>8 DEF StampInv, AnswersHaveKeys, AnswerIsOwn, s
<1> QED
  BY <1>5, <1>6, <1>9 DEF StampInv

\* No caller gets the answer to somebody else's request under its sequence byte
\* unless the two are a whole round of Seq apart (Seq.next, _resolve_pending),
\* whether or not callers reuse a key.
THEOREM AnswersAreOwn == Spec => []AnswerIsOwn
<1> DEFINE Inv == TypeOK /\ EntriesAreLive /\ RepliesHaveKeys
<1>1. Inv /\ StampInv /\ [Next]_vars => StampInv'
  <2> SUFFICES ASSUME TypeOK, EntriesAreLive, RepliesHaveKeys, StampInv, [Next]_vars PROVE StampInv'
    OBVIOUS
  <2>t. /\ st \in [Call -> {"idle", "waiting", "answered", "expired", "cancelled", "done"}]
        /\ pending \in [Slot -> Call \cup {NoCall}]
    BY DEF TypeOK
  <2>1. ASSUME NEW c \in Call, Command(c) PROVE StampInv'
    BY <2>1, CommandKeeps
  <2>2. ASSUME NEW c \in Call, NEW s \in Slot, Request(c, s) PROVE StampInv'
    BY <2>2, RequestKeeps
  <2>3. CASE Receive
    BY <2>3, ReceiveKeeps
  <2>4. ASSUME /\ UNCHANGED <<seq, allocated, slot, stamp, got>>
               /\ \A s \in Slot : pending'[s] \in {pending[s], NoCall}
               /\ \A c \in Call : \/ st'[c] = st[c]
                                  \/ st[c] \notin {"idle", "done"} /\ st'[c] \in {"expired", "cancelled"}
                                  \/ st'[c] = "done"
        PROVE  StampInv'
    <3>1. KeysAreStamped'
      BY <2>4 DEF StampInv, KeysAreStamped
    <3>2. BytesComeRound' /\ RoundsApart'
      BY <2>4 DEF StampInv, BytesComeRound, RoundsApart, Turns
    <3>3. LastComerIsRegistered'
      BY <2>4 DEF StampInv, LastComerIsRegistered
    <3>4. AnswersHaveKeys' /\ AnswerIsOwn'
      BY <2>4 DEF StampInv, AnswersHaveKeys, AnswerIsOwn
    <3> QED
      BY <3>1, <3>2, <3>3, <3>4 DEF StampInv
  <2>5. ASSUME NEW c \in Call, Unconnected(c) \/ Expire(c) \/ Return(c) PROVE StampInv'
    BY <2>t, <2>4, <2>5 DEF Unconnected, Expire, Return
  <2>6. CASE EndShutdown
    <3>1. \A c \in Call : st'[c] = st[c] \/ (st[c] \notin {"idle", "done"} /\ st'[c] = "cancelled")
      BY <2>6, <2>t DEF EndShutdown
    <3>2. \A s \in Slot : pending'[s] = NoCall
      BY <2>6 DEF EndShutdown
    <3> QED
      BY <2>4, <2>6, <3>1, <3>2 DEF EndShutdown
  <2>7. CASE UNCHANGED <<seq, allocated, pending, callVars>>
    BY <2>4, <2>7 DEF callVars
  <2> QED
    BY <2>1, <2>2, <2>3, <2>5, <2>6, <2>7
       DEF Next, ConnectionStep, CallStep, Transmit, Close, BeginShutdown, Answer, vars
<1>2. Spec => []Inv
  BY TypeCorrect, TablesInv, PTL
<1>3. StampInv => AnswerIsOwn
  BY DEF StampInv
<1> HIDE DEF Inv
<1> QED
  BY <1>1, <1>2, <1>3, StampInit, PTL DEF Spec

-----------------------------------------------------------------------------
\* A reply ends the wait of whoever waits for its key, as long as no two
\* callers use a key at once.
THEOREM RepliesAreHandedOver == Overlap = FALSE => (Spec => HandedToWhoeverAsked)
<1> SUFFICES ASSUME Overlap = FALSE PROVE Spec => HandedToWhoeverAsked
  OBVIOUS
<1> DEFINE Inv == TypeOK /\ WaitingIsRegistered /\ EntriesAreLive
           A == \A c \in Call :
                  (st[c] = "waiting" /\ replies # <<>> /\ replies' = Tail(replies)
                     /\ slot[c] = slot[Head(replies)]) => st'[c] # "waiting"
<1>1. Inv /\ [Next]_vars => [A]_vars
  <2> SUFFICES ASSUME TypeOK, WaitingIsRegistered, EntriesAreLive, Next, NEW c \in Call, st[c] = "waiting", replies # <<>>,
                      replies' = Tail(replies), slot[c] = slot[Head(replies)]
               PROVE  st'[c] # "waiting"
    OBVIOUS
  <2>1. replies' # replies /\ \A d \in Call : replies' # Append(replies, d)
    BY DEF TypeOK
  <2>2. CASE Receive
    <3>1. pending[slot[Head(replies)]] = c
      BY DEF WaitingIsRegistered
    <3> QED
      BY <2>2, <3>1, CallAssumption DEF Receive, TypeOK
  <2>3. ASSUME NEW d \in Call, CallStep(d) \/ Answer(d) PROVE FALSE
    BY <2>1, <2>3 DEF CallStep, Unconnected, Command, Expire, Return, Request, Answer, wireVars
  <2> QED
    BY <2>1, <2>2, <2>3 DEF Next, ConnectionStep, Transmit, Close, BeginShutdown, EndShutdown, wireVars
<1>2. Spec => []Inv
  BY TypeCorrect, NobodyIsForgotten, TablesDoNotLeak, PTL
<1> QED
  BY <1>1, <1>2, PTL DEF Spec, HandedToWhoeverAsked
=============================================================================
