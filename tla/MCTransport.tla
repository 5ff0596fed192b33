---------------------------- MODULE MCTransport ----------------------------
(* Small instances of Transport for TLC. *)
EXTENDS Transport, TLC

CONSTANTS p1, p2, c1, c2, c3

\* One panel can be configured and removed again.
MCConfigured == {{}, {p1}}

\* Connections that nobody has opened yet are interchangeable.
ConnSymmetry == Permutations(Conn)
=============================================================================
