-------------------------- MODULE ProgrammingRead --------------------------
(***************************************************************************)
(* A caller reads the programming of a panel with 0x44: a region, split by *)
(* plan_region, or a window of its own.  The panel may be reprogrammed     *)
(* between two reads, and a reply may be missing or hold fewer bytes than  *)
(* it declares.  The requests of one connection, with their timeouts and   *)
(* late answers, are in Requests; here a caller has one read out at a time.*)
(***************************************************************************)
EXTENDS Programming

CONSTANTS Image,      \* the panel's bytes, for each state of its programming
          Windows,    \* the reads a caller may ask for on its own account
          Cuts,       \* how many declared bytes a reply may lack
          Checksums,  \* the bytes that may end a frame
          Idle        \* no job, no reply

ASSUME ReadAssumption ==
  /\ Len(Image) \in Nat \ {0}
  /\ \A v \in 1..Len(Image) : \A a \in DOMAIN Image[v] : Image[v][a] \in Byte
  /\ Windows \subseteq [address : Int, count : Int]
  /\ Cuts \subseteq Nat /\ Checksums \subseteq Byte
  /\ Idle \notin DOMAIN REGIONS \cup {"window"}

VARIABLES
  version,  \* environment: which image the panel holds, told by KP
  job,      \* the region being read, "window", or Idle
  plan,     \* the requests still to make
  gathered, \* the blocks received for this job
  wire      \* the panel's reply to Head(plan), or Idle

readVars == <<version, job, plan, gathered, wire>>

ReadInit ==
  /\ version = 1
  /\ job = Idle /\ plan = <<>> /\ gathered = <<>> /\ wire = Idle

\* The panel's byte at an address; beyond its image it is padding.
Cell(v, a) == IF a \in DOMAIN Image[v] THEN Image[v][a] ELSE NAME_PAD

-----------------------------------------------------------------------------
(* The codec of 0x44.  From its ninth byte on a reply holds the data and, in *)
(* its last byte, the checksum.                                              *)

\* build_programming_read raises for anything else.
MayRead(r) == 0 <= r.address /\ r.address <= 65535 /\ 0 < r.count /\ r.count <= MAX_READ

\* Fault: whatever data came is a block.
DecodeProgrammingAny(f) ==
  LET data == SubSeq(f.rest, 1, Least(f.count, Len(f.rest)))
  IN IF Len(f.rest) + 9 < 10 THEN None
     ELSE [address |-> f.address, count |-> f.count, checksum |-> f.checksum, data |-> data]

\* None stands for the UnknownPacket, which resolves no caller's future.  The
\* slice that takes count bytes does not stop before the frame's checksum.
DecodeProgramming(f) ==
  LET data == SubSeq(f.rest, 1, Least(f.count, Len(f.rest)))
  IN IF Len(f.rest) + 9 < 10 \/ Len(data) # f.count THEN None
     ELSE [address |-> f.address, count |-> f.count, checksum |-> f.checksum, data |-> data]

BlockEnd(b) == b.address + b.count
Covers(b, address, length) == b.address <= address /\ address + length <= BlockEnd(b)

-----------------------------------------------------------------------------
(* The caller and the panel. *)

StartRegion(r) ==
  /\ job = Idle /\ job' = r
  /\ plan' = PlanRegion(r) /\ gathered' = <<>>
  /\ UNCHANGED <<version, wire>>

StartWindow(w) ==
  /\ job = Idle /\ job' = "window"
  /\ plan' = <<w>> /\ gathered' = <<>>
  /\ UNCHANGED <<version, wire>>

\* The builder raises: nothing is sent and the job ends.
ReadRefused ==
  /\ plan # <<>> /\ ~MayRead(Head(plan))
  /\ plan' = <<>> /\ job' = Idle
  /\ UNCHANGED <<version, gathered, wire>>

\* The panel answers with KP, its bytes, or some of them, and a checksum.
PanelReplies(cut, k) ==
  /\ plan # <<>> /\ MayRead(Head(plan)) /\ wire = Idle
  /\ cut <= Head(plan).count
  /\ LET r == Head(plan)
         data == [i \in 1..(r.count - cut) |-> Cell(version, r.address + i - 1)]
     IN wire' = [address |-> r.address, count |-> r.count, checksum |-> version,
                 rest |-> Append(data, k)]
  /\ UNCHANGED <<version, job, plan, gathered>>

\* The reply reaches the caller that asked for its selector; an UnknownPacket
\* leaves it to its timeout, and it asks again.
TakeReply ==
  /\ wire # Idle /\ wire' = Idle
  /\ LET b == DecodeProgramming(wire)
     IN IF b = None THEN UNCHANGED <<plan, gathered>>
        ELSE plan' = Tail(plan) /\ gathered' = Append(gathered, b)
  /\ UNCHANGED <<version, job>>

ReadDone ==
  /\ job # Idle /\ plan = <<>>
  /\ job' = Idle /\ gathered' = <<>>
  /\ UNCHANGED <<version, plan, wire>>

\* An installer changes the programming, at any time.
Reprogram ==
  /\ version < Len(Image) /\ version' = version + 1
  /\ UNCHANGED <<job, plan, gathered, wire>>

ReadNext ==
  \/ \E r \in DOMAIN REGIONS : StartRegion(r)
  \/ \E w \in Windows : StartWindow(w)
  \/ \E cut \in Cuts, k \in Checksums : PanelReplies(cut, k)
  \/ ReadRefused \/ TakeReply \/ ReadDone \/ Reprogram

ReadSpec == ReadInit /\ [][ReadNext]_readVars

-----------------------------------------------------------------------------
(* Invariants. *)

\* The block received last, as a set of at most one; it stays in gathered.
Newest == IF gathered = <<>> \/ wire # Idle THEN {} ELSE {gathered[Len(gathered)]}

\* A block holds as many bytes as it says, and they are the panel's, whatever
\* a reply lacked: what is short comes back as an UnknownPacket
\* (decode_programming).
BlocksAreMemory ==
  \A b \in Newest :
    /\ Len(b.data) = b.count
    /\ \A j \in DOMAIN b.data : b.data[j] = Cell(b.checksum, b.address + j - 1)

\* The blocks of a region follow each other from its first byte to its last:
\* no byte is missed and none read twice (plan_read, plan_region).
RegionIsContiguous ==
  job \in DOMAIN REGIONS /\ plan = <<>> =>
    LET base == REGIONS[job][1]
    IN /\ gathered # <<>>
       /\ \A i \in DOMAIN gathered :
            gathered[i].address = IF i = 1 THEN base ELSE BlockEnd(gathered[i - 1])
       /\ BlockEnd(gathered[Len(gathered)]) = base + REGIONS[job][2]
=============================================================================
