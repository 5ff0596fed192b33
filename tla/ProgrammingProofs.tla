-------------------------- MODULE ProgrammingProofs --------------------------
(***************************************************************************)
(* Theorems about a reading of the programming, for every image of the     *)
(* panel, every window and every reply that lacks some of its bytes.       *)
(***************************************************************************)
EXTENDS ProgrammingRead, SequenceTheorems, TLAPS

\* The arithmetic of the split: n chunks reach past the end, n - 1 do not.
LEMMA CeilingDivision ==
  ASSUME NEW length \in Nat \ {0}, NEW chunk \in Nat \ {0}
  PROVE  LET n == (length + chunk - 1) \div chunk
         IN n \in Nat \ {0} /\ (n - 1) * chunk < length /\ length <= n * chunk
<1> DEFINE n == (length + chunk - 1) \div chunk
<1> DEFINE r == (length + chunk - 1) % chunk
<1>1. n \in Int /\ r \in 0..(chunk - 1) /\ length + chunk - 1 = chunk * n + r
  BY SMT
<1>2. n >= 1
  <2>1. SUFFICES ASSUME n <= 0 PROVE FALSE
    BY <1>1
  <2>2. chunk * n <= 0
    BY <2>1, <1>1
  <2> QED
    BY <2>2, <1>1
<1>3. (n - 1) * chunk = chunk * n - chunk /\ n * chunk = chunk * n
  BY <1>1
<1> QED
  BY <1>1, <1>2, <1>3

Requests == Seq([address : Int, count : Int])

\* The requests p follow each other from the byte at first to the one before
\* end.
Tiles(p, first, end) ==
  /\ p # <<>> /\ p[1].address = first
  /\ \A i \in 1..(Len(p) - 1) : p[i + 1].address = p[i].address + p[i].count
  /\ p[Len(p)].address + p[Len(p)].count = end

\* The requests of a plan follow each other from the first byte to the last,
\* and none asks for more than a chunk, or for nothing (plan_read).
THEOREM PlanReadTiles ==
  ASSUME NEW address \in Nat, NEW length \in Nat \ {0}, NEW chunk \in 1..MAX_READ
  PROVE  LET p == PlanRead(address, length, chunk)
         IN /\ p \in Requests
            /\ Tiles(p, address, address + length)
            /\ \A i \in DOMAIN p : p[i].count \in 1..chunk
<1> DEFINE n == (length + chunk - 1) \div chunk
           p == PlanRead(address, length, chunk)
<1>1. chunk \in Nat \ {0}
  BY DEF MAX_READ
<1>2. n \in Nat \ {0} /\ (n - 1) * chunk < length /\ length <= n * chunk
  BY <1>1, CeilingDivision
<1> HIDE DEF n
<1>3. p = [i \in 1..n |-> ReadRequest(address + (i - 1) * chunk, Least(chunk, length - (i - 1) * chunk))]
  BY DEF PlanRead, n
<1>4. ASSUME NEW i \in 1..n
      PROVE  /\ (i - 1) * chunk \in Nat /\ (i - 1) * chunk < length
             /\ i < n => i * chunk < length
             /\ i * chunk = (i - 1) * chunk + chunk
  <2>1. (i - 1) * chunk \in Nat /\ i * chunk = (i - 1) * chunk + chunk
    BY <1>1
  <2>2. (i - 1) * chunk <= (n - 1) * chunk
    BY <1>1, <1>2
  <2>3. i < n => i * chunk <= (n - 1) * chunk
    BY <1>1, <1>2
  <2> QED
    BY <2>1, <2>2, <2>3, <1>1, <1>2
<1>5. ASSUME NEW i \in 1..n
      PROVE  p[i] \in [address : Int, count : Int] /\ p[i].count \in 1..chunk
  BY <1>1, <1>3, <1>4 DEF ReadRequest, Least
<1>6. p \in Requests /\ Len(p) = n /\ \A i \in DOMAIN p : p[i].count \in 1..chunk
  <2>1. \A i \in 1..n : p[i] \in [address : Int, count : Int]
    BY <1>5
  <2>2. p \in Seq([address : Int, count : Int]) /\ Len(p) = n
    BY <2>1, <1>2, <1>3
  <2> QED
    BY <2>2, <1>5 DEF Requests
<1>7. p[1].address = address
  BY <1>1, <1>2, <1>3 DEF ReadRequest
<1>8. ASSUME NEW i \in 1..(n - 1)
      PROVE  p[i + 1].address = p[i].address + p[i].count
  <2>1. i \in 1..n /\ i + 1 \in 1..n /\ i < n
    BY <1>2
  <2>2. p[i] = ReadRequest(address + (i - 1) * chunk, Least(chunk, length - (i - 1) * chunk))
    BY <2>1, <1>3
  <2>3. p[i + 1].address = address + i * chunk
    BY <2>1, <1>3 DEF ReadRequest
  <2>4. Least(chunk, length - (i - 1) * chunk) = chunk
    BY <2>1, <1>1, <1>4 DEF Least
  <2> QED
    BY <2>1, <2>2, <2>3, <2>4, <1>1, <1>4 DEF ReadRequest
<1>9. p[n].address + p[n].count = address + length
  <2>1. n \in 1..n
    BY <1>2
  <2>2. p[n] = ReadRequest(address + (n - 1) * chunk, Least(chunk, length - (n - 1) * chunk))
    BY <2>1, <1>3
  <2>3. Least(chunk, length - (n - 1) * chunk) = length - (n - 1) * chunk
    BY <2>1, <1>1, <1>2, <1>4 DEF Least
  <2> QED
    BY <2>1, <2>2, <2>3, <1>4 DEF ReadRequest
<1> QED
  BY <1>2, <1>6, <1>7, <1>8, <1>9 DEF Tiles

-----------------------------------------------------------------------------
\* A record is the block's own bytes at its place, all of them, and nothing
\* where the block does not hold it whole (_record_at).
THEOREM RecordIsOwnBytes ==
  ASSUME NEW data \in Seq(Byte), NEW base \in Int, NEW address \in Int,
         NEW size \in Nat \ {0}, NEW index \in Nat
  PROVE  LET r == RecordAt(data, base, address, size, index)
             first == address + index * size
         IN IF base <= first /\ first + size <= base + Len(data)
              THEN /\ Len(r) = size
                   /\ \A j \in 1..size : r[j] = data[first - base + j]
              ELSE r = <<>>
<1> DEFINE first == address + index * size
<1>1. first \in Int
  OBVIOUS
<1> HIDE DEF first
<1> QED
  BY <1>1 DEF RecordAt, first

-----------------------------------------------------------------------------
(* A reading of a region.  Between two steps its requests are split in two:  *)
(* the blocks of those that were answered, and the plan of those that are    *)
(* left, which begins where the blocks end.                                  *)

Blocks == [address : Int, count : Int, checksum : Int, data : Seq(Byte)]

ReadTypes ==
  /\ plan \in Requests
  /\ gathered \in Seq(Blocks)
  /\ version \in 1..Len(Image)
  /\ job = Idle => plan = <<>>

\* The reply on the wire is one to the first request of the plan.
ReplyFits ==
  wire # Idle =>
    /\ plan # <<>>
    /\ wire.address = plan[1].address /\ wire.count = plan[1].count
    /\ MayRead(plan[1])

Base == REGIONS[job][1]
End == REGIONS[job][1] + REGIONS[job][2]
Reached == IF gathered = <<>> THEN Base ELSE BlockEnd(gathered[Len(gathered)])

RegionIsSplit ==
  job \in DOMAIN REGIONS =>
    /\ \A i \in DOMAIN gathered :
         gathered[i].address = IF i = 1 THEN Base ELSE BlockEnd(gathered[i - 1])
    /\ gathered = <<>> => plan # <<>>
    /\ plan = <<>> => Reached = End
    /\ plan # <<>> => Tiles(plan, Reached, End)

\* Every byte of the reply that the panel did send is the panel's.
ReplyIsMemory ==
  wire # Idle =>
    /\ wire.address \in Int /\ wire.count \in Nat /\ wire.checksum \in Int
    /\ \E cut \in Cuts : 
         /\ cut <= wire.count
         /\ wire.rest \in Seq(Byte) /\ Len(wire.rest) = wire.count - cut + 1
         /\ \A j \in 1..(wire.count - cut) : wire.rest[j] = Cell(wire.checksum, wire.address + j - 1)

BlocksHold ==
  \A i \in DOMAIN gathered :
    LET b == gathered[i]
    IN /\ Len(b.data) = b.count
       /\ \A j \in DOMAIN b.data : b.data[j] = Cell(b.checksum, b.address + j - 1)

ReadInv == ReadTypes /\ ReplyFits /\ RegionIsSplit /\ ReplyIsMemory

\* A request that the builder accepts asks for something.
LEMMA Readable ==
  ASSUME NEW q, q.count \in Int, MayRead(q)
  PROVE  0 < q.count
BY DEF MayRead, MAX_READ

\* Sequences that grow at their end and shrink at their front.
LEMMA Appended ==
  ASSUME NEW S, NEW s \in Seq(S), NEW e \in S
  PROVE  LET t == Append(s, e)
         IN /\ t \in Seq(S) /\ t # <<>> /\ Len(s) \in Nat /\ Len(t) = Len(s) + 1
            /\ DOMAIN s = 1..Len(s) /\ DOMAIN t = 1..(Len(s) + 1)
            /\ \A i \in DOMAIN s : t[i] = s[i]
            /\ t[Len(t)] = e
OBVIOUS

\* The head and the tail of a sequence that is not empty.
LEMMA Shortened ==
  ASSUME NEW S, NEW s \in Seq(S), s # <<>>
  PROVE  LET t == Tail(s)
         IN /\ t \in Seq(S) /\ Len(s) \in Nat \ {0} /\ Len(t) = Len(s) - 1
            /\ (t = <<>> <=> Len(s) = 1) /\ Head(s) = s[1] /\ s[1] \in S
            /\ \A i \in 1..Len(t) : t[i] = s[i + 1]
<1>1. /\ Tail(s) \in Seq(S) /\ Len(s) \in Nat \ {0} /\ Len(Tail(s)) = Len(s) - 1
      /\ Head(s) = s[1] /\ s[1] \in S
      /\ \A i \in 1..Len(Tail(s)) : Tail(s)[i] = s[i + 1]
  OBVIOUS
<1>2. Tail(s) = <<>> <=> Len(Tail(s)) = 0
  BY <1>1, EmptySeq
<1> QED
  BY <1>1, <1>2

\* A region's plan splits it from its first byte to its last.
LEMMA RegionPlan ==
  ASSUME NEW r \in DOMAIN REGIONS
  PROVE  /\ PlanRegion(r) \in Requests
         /\ Tiles(PlanRegion(r), REGIONS[r][1], REGIONS[r][1] + REGIONS[r][2])
<1>1. REGIONS[r][1] \in Nat /\ REGIONS[r][2] \in Nat \ {0}
  BY DEF REGIONS, PARTITION_NAMES_BASE, REGION_FLAG_SIZE, MAX_PARTITIONS, PARTITION_RECORD_SIZE,
         NAME_LENGTH, PGM_BASE, MAX_PGMS, PGM_RECORD_SIZE, USER_BASE, MAX_USERS, USER_RECORD_SIZE,
         ZONE_BASE, MAX_ZONES, ZONE_RECORD_SIZE, WIRELESS_BASE, MAX_WIRELESS, WIRELESS_RECORD_SIZE,
         HOLIDAYS_BASE, MAX_HOLIDAYS, HOLIDAY_RECORD_SIZE, TIMERS_BASE, GLOBAL_ZONE_OPTIONS_ADDRESS
<1>2. MAX_READ \in 1..MAX_READ
  BY DEF MAX_READ
<1> QED
  BY <1>1, <1>2, PlanReadTiles DEF PlanRegion

\* What the codec makes of a reply: nothing, or a block of as many bytes as it
\* says.
LEMMA DecodedBlock ==
  ASSUME NEW f, f.address \in Int, f.count \in Nat, f.checksum \in Int, f.rest \in Seq(Byte),
         DecodeProgramming(f) # None
  PROVE  LET b == DecodeProgramming(f)
         IN /\ b = [address |-> f.address, count |-> f.count, checksum |-> f.checksum, data |-> b.data]
            /\ b.data \in Seq(Byte) /\ Len(b.data) = f.count /\ f.count <= Len(f.rest)
            /\ \A j \in 1..f.count : b.data[j] = f.rest[j]
<1> DEFINE data == SubSeq(f.rest, 1, Least(f.count, Len(f.rest)))
<1>1. Least(f.count, Len(f.rest)) \in 0..Len(f.rest)
  BY DEF Least
<1>2. data \in Seq(Byte) /\ Len(data) = Least(f.count, Len(f.rest))
  BY <1>1
<1>3. \A j \in 1..Len(data) : data[j] = f.rest[j]
  BY <1>1
<1>4. Len(data) = f.count
        /\ DecodeProgramming(f) = [address |-> f.address, count |-> f.count, checksum |-> f.checksum,
                                   data |-> data]
  BY DEF DecodeProgramming
<1> QED
  BY <1>1, <1>2, <1>3, <1>4 DEF Least

\* The reading's invariant holds at first and is kept by every step.
LEMMA NoRegion ==
  Idle \notin DOMAIN REGIONS /\ "window" \notin DOMAIN REGIONS /\ Idle # "window"
BY ReadAssumption DEF REGIONS

\* Nothing is planned, gathered or on the wire at first.
LEMMA ReadInvInit == ReadInit => ReadInv
<1> SUFFICES ASSUME ReadInit PROVE ReadInv
  OBVIOUS
<1>1. ReadTypes
  BY ReadAssumption DEF ReadInit, ReadTypes, Requests
<1> QED
  BY <1>1, NoRegion DEF ReadInit, ReadInv, ReplyFits, RegionIsSplit, ReplyIsMemory

\* Taking a reply moves the first request of the plan to the blocks.
LEMMA TakeReplyKeeps ==
  ASSUME ReadInv, TakeReply, DecodeProgramming(wire) # None
  PROVE  LET b == DecodeProgramming(wire)
         IN /\ b \in Blocks
            /\ b.address = plan[1].address /\ BlockEnd(b) = plan[1].address + plan[1].count
            /\ plan # <<>> /\ plan' = Tail(plan) /\ gathered' = Append(gathered, b)
            /\ UNCHANGED <<version, job>>
<1> DEFINE b == DecodeProgramming(wire)
<1>1. /\ wire.address \in Int /\ wire.count \in Nat /\ wire.checksum \in Int
      /\ wire.rest \in Seq(Byte)
  BY DEF ReadInv, ReplyIsMemory, TakeReply
<1>2. /\ b = [address |-> wire.address, count |-> wire.count, checksum |-> wire.checksum, data |-> b.data]
      /\ b.data \in Seq(Byte)
  BY <1>1, DecodedBlock
<1>3. plan # <<>> /\ wire.address = plan[1].address /\ wire.count = plan[1].count
  BY DEF ReadInv, ReplyFits, TakeReply
<1>4. plan' = Tail(plan) /\ gathered' = Append(gathered, b) /\ UNCHANGED <<version, job>>
  BY DEF TakeReply
<1> HIDE DEF b
<1>5. b \in Blocks
  BY <1>1, <1>2 DEF Blocks
<1> QED
  BY <1>1, <1>2, <1>3, <1>4, <1>5 DEF BlockEnd, b

\* Every step of a reading, of the panel and of the installer keeps the invariant.
LEMMA ReadInvNext == ReadInv /\ [ReadNext]_readVars => ReadInv'
<1> SUFFICES ASSUME ReadInv, [ReadNext]_readVars PROVE ReadInv'
  OBVIOUS
<1>0. ReadTypes /\ ReplyFits /\ RegionIsSplit /\ ReplyIsMemory
  BY DEF ReadInv
<1>1. ASSUME NEW r \in DOMAIN REGIONS, StartRegion(r) PROVE ReadInv'
  <2>1. /\ PlanRegion(r) \in Requests
        /\ Tiles(PlanRegion(r), REGIONS[r][1], REGIONS[r][1] + REGIONS[r][2])
    BY RegionPlan
  <2>2. wire = Idle /\ wire' = Idle
    BY <1>0, <1>1 DEF StartRegion, ReadTypes, ReplyFits
  <2>3. ReadTypes'
    BY <1>0, <1>1, <2>1, NoRegion DEF StartRegion, ReadTypes
  <2>4. RegionIsSplit'
    BY <1>1, <2>1 DEF StartRegion, RegionIsSplit, Tiles, Reached, Base, End
  <2> QED
    BY <2>2, <2>3, <2>4 DEF ReadInv, ReplyFits, ReplyIsMemory
<1>2. ASSUME NEW w \in Windows, StartWindow(w) PROVE ReadInv'
  <2>1. w \in [address : Int, count : Int]
    BY ReadAssumption
  <2>2. wire = Idle /\ wire' = Idle
    BY <1>0, <1>2 DEF StartWindow, ReadTypes, ReplyFits
  <2>3. ReadTypes'
    <3>1. <<w>> \in Requests
      BY <2>1 DEF Requests
    <3> QED
      BY <1>0, <1>2, <3>1, NoRegion DEF StartWindow, ReadTypes
  <2> QED
    BY <1>2, <2>2, <2>3, NoRegion DEF ReadInv, StartWindow, ReplyFits, ReplyIsMemory, RegionIsSplit
<1>3. ASSUME NEW cut \in Cuts, NEW k \in Checksums, PanelReplies(cut, k) PROVE ReadInv'
  <2> DEFINE q == Head(plan)
             data == [i \in 1..(q.count - cut) |-> Cell(version, q.address + i - 1)]
  <2>1. q = plan[1] /\ plan # <<>> /\ q.address \in Int /\ q.count \in Nat /\ cut \in Nat /\ cut <= q.count
    <3>1. plan \in Seq([address : Int, count : Int]) /\ plan # <<>> /\ MayRead(q) /\ cut <= q.count
      BY <1>0, <1>3 DEF PanelReplies, ReadTypes, Requests
    <3>2. q = plan[1] /\ q \in [address : Int, count : Int]
      BY <3>1, Shortened
    <3>3. q.address \in Int /\ q.count \in Int
      BY <3>2
    <3>4. 0 < q.count
      BY <3>1, <3>3, Readable
    <3>5. cut \in Nat
      BY ReadAssumption
    <3> QED
      BY <3>1, <3>2, <3>3, <3>4, <3>5
  <2>2. \A a : Cell(version, a) \in Byte
    BY <1>0, ReadAssumption DEF ReadTypes, Cell, NAME_PAD, Byte
  <2>3. data \in Seq(Byte) /\ Len(data) = q.count - cut
    BY <2>1, <2>2
  <2>4. k \in Byte
    BY ReadAssumption
  <2>5. /\ Append(data, k) \in Seq(Byte) /\ Len(Append(data, k)) = q.count - cut + 1
        /\ \A j \in 1..(q.count - cut) : Append(data, k)[j] = Cell(version, q.address + j - 1)
    BY <2>1, <2>3, <2>4
  <2>6. /\ wire' = [address |-> q.address, count |-> q.count, checksum |-> version, rest |-> Append(data, k)]
        /\ UNCHANGED <<version, job, plan, gathered>> /\ MayRead(plan[1])
    BY <1>3, <2>1 DEF PanelReplies
  <2> HIDE DEF data
  <2>7. ReplyIsMemory'
    <3>1. /\ wire'.address = q.address /\ wire'.count = q.count /\ wire'.checksum = version
          /\ wire'.rest = Append(data, k)
      BY <2>6
    <3>2. version \in Int
      BY <1>0, ReadAssumption DEF ReadTypes
    <3>3. \A j \in 1..(wire'.count - cut) : wire'.rest[j] = Cell(wire'.checksum, wire'.address + j - 1)
      BY <2>5, <3>1
    <3> QED
      BY <2>1, <2>5, <3>1, <3>2, <3>3 DEF ReplyIsMemory, Cell
  <2>8. ReplyFits'
    <3>1. wire'.address = q.address /\ wire'.count = q.count /\ plan' = plan
      BY <2>6
    <3>2. wire'.address = plan'[1].address /\ wire'.count = plan'[1].count
      BY <2>1, <3>1
    <3>3. plan' # <<>> /\ MayRead(plan'[1])
      BY <2>1, <2>6
    <3> QED
      BY <3>2, <3>3 DEF ReplyFits
  <2> QED
    BY <1>0, <2>6, <2>7, <2>8 DEF ReadInv, ReadTypes, RegionIsSplit, Base, End, Reached
<1>4. CASE ReadRefused
  <2>1. wire = Idle
    BY <1>0, <1>4 DEF ReadRefused, ReplyFits, ReadTypes, Requests
  <2> QED
    BY <1>0, <1>4, <2>1, NoRegion
       DEF ReadInv, ReadRefused, ReadTypes, Requests, ReplyFits, ReplyIsMemory, RegionIsSplit
<1>5. CASE TakeReply
  <2> DEFINE b == DecodeProgramming(wire)
  <2>1. wire' = Idle
    BY <1>5 DEF TakeReply
  <2>2. CASE b = None
    BY <1>0, <1>5, <2>1, <2>2
       DEF ReadInv, TakeReply, ReadTypes, ReplyFits, ReplyIsMemory, RegionIsSplit, Base, End, Reached
  <2>3. CASE b # None
    <3>1. /\ b \in Blocks
          /\ b.address = plan[1].address /\ BlockEnd(b) = plan[1].address + plan[1].count
          /\ plan # <<>> /\ plan' = Tail(plan) /\ gathered' = Append(gathered, b)
          /\ UNCHANGED <<version, job>>
      BY <1>5, <2>3, TakeReplyKeeps
    <3> HIDE DEF b
    <3>2. ReadTypes'
      BY <1>0, <3>1 DEF ReadTypes, Requests
    <3>3. /\ Len(gathered') = Len(gathered) + 1 /\ gathered'[Len(gathered')] = b
          /\ \A i \in DOMAIN gathered : gathered'[i] = gathered[i]
          /\ DOMAIN gathered' = 1..(Len(gathered) + 1) /\ DOMAIN gathered = 1..Len(gathered)
          /\ Len(gathered) \in Nat /\ gathered' # <<>>
      <4>1. gathered \in Seq(Blocks)
        BY <1>0 DEF ReadTypes
      <4> QED
        BY <3>1, <4>1, Appended
    <3>4. /\ Len(plan') = Len(plan) - 1 /\ \A i \in 1..Len(plan') : plan'[i] = plan[i + 1]
          /\ Len(plan) \in Nat \ {0} /\ plan' \in Requests /\ (plan' = <<>> <=> Len(plan) = 1)
      BY <1>0, <3>1, Shortened DEF ReadTypes, Requests
    <3>5. ASSUME job \in DOMAIN REGIONS
          PROVE  /\ Tiles(plan, Reached, End) /\ Reached' = plan[1].address + plan[1].count
                 /\ Base' = Base /\ End' = End
      BY <1>0, <3>1, <3>3, <3>5 DEF RegionIsSplit, Reached, Base, End
    <3>6. ASSUME job \in DOMAIN REGIONS, NEW i \in DOMAIN gathered'
          PROVE  gathered'[i].address = IF i = 1 THEN Base ELSE BlockEnd(gathered'[i - 1])
      <4>1. CASE i \in DOMAIN gathered
        BY <1>0, <3>3, <3>6, <4>1 DEF RegionIsSplit
      <4>2. CASE i = Len(gathered) + 1
        <5>1. gathered'[i] = b /\ b.address = Reached
          BY <3>1, <3>3, <3>5, <3>6, <4>2 DEF Tiles
        <5>2. CASE gathered = <<>>
          BY <3>3, <4>2, <5>1, <5>2 DEF Reached
        <5>3. CASE gathered # <<>>
          <6>1. i # 1 /\ i - 1 = Len(gathered) /\ i - 1 \in DOMAIN gathered
            BY <3>3, <4>2, <5>3, <1>0 DEF ReadTypes
          <6> QED
            BY <3>3, <5>1, <5>3, <6>1 DEF Reached
        <5> QED
          BY <5>2, <5>3
      <4> QED
        BY <3>3, <4>1, <4>2
    <3>7. ASSUME job \in DOMAIN REGIONS, plan' = <<>> PROVE Reached' = End'
      BY <3>4, <3>5, <3>7 DEF Tiles
    <3>8. ASSUME job \in DOMAIN REGIONS, plan' # <<>> PROVE Tiles(plan', Reached', End')
      <4>1. Len(plan') >= 1 /\ Len(plan) >= 2
        BY <3>4, <3>8
      <4>2. plan'[1].address = Reached'
        BY <4>1, <3>4, <3>5, <3>8 DEF Tiles
      <4>3. \A i \in 1..(Len(plan') - 1) : plan'[i + 1].address = plan'[i].address + plan'[i].count
        <5> TAKE i \in 1..(Len(plan') - 1)
        <5>1. /\ i + 1 \in 1..(Len(plan) - 1) /\ i \in 1..Len(plan') /\ i + 1 \in 1..Len(plan')
          BY <3>4, <4>1
        <5>2. plan[(i + 1) + 1].address = plan[i + 1].address + plan[i + 1].count
          BY <3>5, <3>8, <5>1 DEF Tiles
        <5>3. plan'[i] = plan[i + 1] /\ plan'[i + 1] = plan[(i + 1) + 1]
          BY <3>4, <5>1
        <5> QED
          BY <5>2, <5>3
      <4>4. plan'[Len(plan')].address + plan'[Len(plan')].count = End'
        BY <4>1, <3>4, <3>5, <3>8 DEF Tiles
      <4> QED
        BY <4>2, <4>3, <4>4, <3>8 DEF Tiles
    <3>9. RegionIsSplit'
      BY <3>1, <3>3, <3>5, <3>6, <3>7, <3>8 DEF RegionIsSplit
    <3> QED
      BY <2>1, <3>2, <3>9 DEF ReadInv, ReplyFits, ReplyIsMemory
  <2> QED
    BY <2>2, <2>3
<1>6. CASE ReadDone
  <2>1. wire = Idle
    BY <1>0, <1>6 DEF ReadDone, ReplyFits
  <2> QED
    BY <1>0, <1>6, <2>1, NoRegion
       DEF ReadInv, ReadDone, ReadTypes, ReplyFits, ReplyIsMemory, RegionIsSplit
<1>7. CASE Reprogram
  BY <1>0, <1>7, ReadAssumption
     DEF ReadInv, Reprogram, ReadTypes, ReplyFits, ReplyIsMemory, RegionIsSplit, Base, End, Reached, Cell
<1>8. CASE UNCHANGED readVars
  BY <1>0, <1>8
     DEF ReadInv, readVars, ReadTypes, ReplyFits, ReplyIsMemory, RegionIsSplit, Base, End, Reached, Cell
<1> QED
  BY <1>1, <1>2, <1>3, <1>4, <1>5, <1>6, <1>7, <1>8 DEF ReadNext

\* So it always holds.
LEMMA ReadInvAlways == ReadSpec => []ReadInv
BY ReadInvInit, ReadInvNext, PTL DEF ReadSpec

\* However the reads and the installer interleave, the blocks of a region that
\* was read to its end are the region, byte for byte in its order.
THEOREM ReadingIsContiguous == ReadSpec => []RegionIsContiguous
<1>1. ReadInv => RegionIsContiguous
  <2> SUFFICES ASSUME ReadInv, job \in DOMAIN REGIONS, plan = <<>>
               PROVE  LET base == REGIONS[job][1]
                      IN /\ gathered # <<>>
                         /\ \A i \in DOMAIN gathered :
                              gathered[i].address = IF i = 1 THEN base ELSE BlockEnd(gathered[i - 1])
                         /\ BlockEnd(gathered[Len(gathered)]) = base + REGIONS[job][2]
    BY DEF RegionIsContiguous
  <2> QED
    BY DEF ReadInv, RegionIsSplit, Base, End, Reached
<1> QED
  BY <1>1, ReadInvAlways, PTL

\* A reply that lacks bytes yields no block, or a block of the panel's memory,
\* unless it lacks exactly one: then the checksum is taken for the last byte
\* (decode_programming).
THEOREM ReadingIsMemory == 1 \notin Cuts => (ReadSpec => []BlocksHold)
<1> SUFFICES ASSUME 1 \notin Cuts PROVE ReadSpec => []BlocksHold
  OBVIOUS
<1>1. ReadInit => BlocksHold
  BY DEF ReadInit, BlocksHold
<1>2. ReadInv /\ BlocksHold /\ [ReadNext]_readVars => BlocksHold'
  <2> SUFFICES ASSUME ReadInv, BlocksHold, [ReadNext]_readVars PROVE BlocksHold'
    OBVIOUS
  <2>1. CASE TakeReply /\ DecodeProgramming(wire) # None
    <3> DEFINE b == DecodeProgramming(wire)
    <3>1. gathered' = Append(gathered, b) /\ gathered \in Seq(Blocks)
      BY <2>1, TakeReplyKeeps DEF ReadInv, ReadTypes
    <3>2. PICK cut \in Cuts :
            /\ cut <= wire.count
            /\ wire.rest \in Seq(Byte) /\ Len(wire.rest) = wire.count - cut + 1
            /\ \A j \in 1..(wire.count - cut) : wire.rest[j] = Cell(wire.checksum, wire.address + j - 1)
      BY <2>1 DEF ReadInv, ReplyIsMemory, TakeReply
    <3>3. /\ wire.address \in Int /\ wire.count \in Nat /\ wire.checksum \in Int /\ cut \in Nat \ {1}
      BY <2>1, ReadAssumption DEF ReadInv, ReplyIsMemory, TakeReply
    <3>4. /\ b = [address |-> wire.address, count |-> wire.count, checksum |-> wire.checksum, data |-> b.data]
          /\ b.data \in Seq(Byte) /\ Len(b.data) = wire.count /\ wire.count <= Len(wire.rest)
          /\ \A j \in 1..wire.count : b.data[j] = wire.rest[j]
      BY <2>1, <3>2, <3>3, DecodedBlock
    <3>5. cut = 0
      BY <3>2, <3>3, <3>4
    <3> HIDE DEF b
    <3>6. Len(b.data) = b.count /\ \A j \in DOMAIN b.data : b.data[j] = Cell(b.checksum, b.address + j - 1)
      <4>1. b.count = wire.count /\ b.checksum = wire.checksum /\ b.address = wire.address
        BY <3>4
      <4>2. DOMAIN b.data = 1..wire.count
        BY <3>4, <3>3
      <4> QED
        BY <3>2, <3>3, <3>4, <3>5, <4>1, <4>2
    <3>7. \A i \in DOMAIN gathered' : gathered'[i] = b \/ (i \in DOMAIN gathered /\ gathered'[i] = gathered[i])
      <4>1. b \in Blocks
        BY <2>1, TakeReplyKeeps DEF b
      <4>2. /\ DOMAIN gathered' = 1..(Len(gathered) + 1) /\ DOMAIN gathered = 1..Len(gathered)
            /\ Len(gathered) \in Nat /\ Len(gathered') = Len(gathered) + 1
            /\ \A i \in DOMAIN gathered : gathered'[i] = gathered[i]
            /\ gathered'[Len(gathered')] = b
        BY <3>1, <4>1, Appended
      <4>3. ASSUME NEW i \in DOMAIN gathered'
            PROVE  gathered'[i] = b \/ (i \in DOMAIN gathered /\ gathered'[i] = gathered[i])
        <5>1. CASE i \in DOMAIN gathered
          BY <4>2, <5>1
        <5>2. CASE i \notin DOMAIN gathered
          <6>1. i = Len(gathered')
            BY <4>2, <4>3, <5>2
          <6> QED
            BY <4>2, <6>1
        <5> QED
          BY <5>1, <5>2
      <4> QED
        BY <4>3
    <3> QED
      BY <3>6, <3>7 DEF BlocksHold, Cell
  <2>2. CASE gathered' = gathered \/ gathered' = <<>>
    BY <2>2 DEF BlocksHold, Cell
  <2> QED
    BY <2>1, <2>2 DEF ReadNext, readVars, StartRegion, StartWindow, ReadRefused, PanelReplies, TakeReply,
                      ReadDone, Reprogram
<1> QED
  BY <1>1, <1>2, ReadInvAlways, PTL DEF ReadSpec

\* What the run checks of the newest block.
COROLLARY NewestIsMemory == 1 \notin Cuts => (ReadSpec => []BlocksAreMemory)
<1>1. ReadInv /\ BlocksHold => BlocksAreMemory
  <2> SUFFICES ASSUME ReadInv, BlocksHold, NEW b \in Newest
               PROVE  /\ Len(b.data) = b.count
                      /\ \A j \in DOMAIN b.data : b.data[j] = Cell(b.checksum, b.address + j - 1)
    BY DEF BlocksAreMemory
  <2>1. gathered # <<>> /\ b = gathered[Len(gathered)]
    BY DEF Newest
  <2>2. Len(gathered) \in DOMAIN gathered
    BY <2>1 DEF ReadInv, ReadTypes
  <2> QED
    BY <2>1, <2>2 DEF BlocksHold
<1> QED
  BY <1>1, ReadInvAlways, ReadingIsMemory, PTL

=============================================================================
