---------------------------- MODULE EventReport ----------------------------
(***************************************************************************)
(* What the acknowledgement of an event (0x24) promises to a panel, without *)
(* sockets, retransmission or an event loop: the panel moves on to its next *)
(* event only when the listeners have had the current one or are certain to *)
(* get it, and they never hear of an event the panel has not reached.  An   *)
(* event whose frame decode() refuses is acknowledged all the same and      *)
(* delivered to nobody.  The promise is to the listeners that no other can  *)
(* keep it from, and does not cover an event that is acknowledged on a      *)
(* socket while it is being closed.                                         *)
(***************************************************************************)
EXTENDS Integers

CONSTANTS Panel, MaxEvents, Undecodable,
          Listener, \* the packet listeners of a panel
          Reached   \* those that no listener before them can keep an event from

VARIABLES confirmed, \* how many of its events each panel has seen acknowledged
          taken,     \* the events of each panel that a coroutine has committed to
          risked,    \* the events of each panel acknowledged without commitment
          delivered  \* the events of each panel that each listener was handed

Init == /\ confirmed = [p \in Panel |-> 0]
        /\ taken = [p \in Panel |-> {}]
        /\ risked = [p \in Panel |-> {}]
        /\ delivered = [p \in Panel |-> [l \in Listener |-> {}]]

\* A panel repeats events, never anticipates them.
Take(p, n) ==
  /\ n \in 1..(confirmed[p] + 1)
  /\ taken' = [taken EXCEPT ![p] = @ \cup {n}]
  /\ UNCHANGED <<confirmed, risked, delivered>>

\* The acknowledgement goes to a socket that is being closed.
Risk(p, n) ==
  /\ n \in 1..(confirmed[p] + 1)
  /\ risked' = [risked EXCEPT ![p] = @ \cup {n}]
  /\ UNCHANGED <<confirmed, taken, delivered>>

\* An event that was taken ends in the listeners, in those that nobody keeps it
\* from at least, unless it cannot be decoded; a repetition of it may still be
\* under way.
Deliver(p, n) ==
  /\ n \in taken[p]
  /\ \E told \in SUBSET Listener :
       /\ IF n \in Undecodable THEN told = {} ELSE Reached \subseteq told
       /\ delivered' = [delivered EXCEPT ![p] =
            [l \in Listener |-> IF l \in told THEN @[l] \cup {n} ELSE @[l]]]
  /\ \/ taken' = [taken EXCEPT ![p] = @ \ {n}]
     \/ UNCHANGED taken
  /\ UNCHANGED <<confirmed, risked>>

Promised(p) == {n \in 1..MaxEvents : \A l \in Reached : n \in delivered[p][l]}

Confirm(p) ==
  /\ confirmed[p] < MaxEvents
  /\ confirmed[p] + 1 \in taken[p] \cup risked[p] \cup Promised(p) \cup Undecodable
  /\ confirmed' = [confirmed EXCEPT ![p] = @ + 1]
  /\ UNCHANGED <<taken, risked, delivered>>

vars == <<confirmed, taken, risked, delivered>>

\* Steps that change nothing are left to the stuttering of Spec.
Next ==
  /\ vars' # vars
  /\ \E p \in Panel :
       \/ Confirm(p)
       \/ \E n \in 1..MaxEvents : Take(p, n) \/ Risk(p, n) \/ Deliver(p, n)

Spec == Init /\ [][Next]_vars
=============================================================================
