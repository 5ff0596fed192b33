--------------------------- MODULE SettingsProofs ---------------------------
(***************************************************************************)
(* Theorems about what a client's parsers make of the panel's programming: *)
(* from any block of the panel's memory they take the records that it holds*)
(* whole, and each says what the installer set; and where the programming  *)
(* did not change, so does a region, joined from the blocks that it was    *)
(* read in.  The first parts follow a setting into the panel's bytes and   *)
(* back: where PanelMemory puts it, and what Programming reads there.      *)
(***************************************************************************)
EXTENDS MonitoringProofs

-----------------------------------------------------------------------------
(* The bytes in which the panel keeps what the installer sets.               *)

\* What flag i of a set adds to its byte.
Weight(on, w, i) == IF w[i][1] \in on THEN w[i][2] ELSE 0

\* s[m] is the weight of the first m flags.
Sums(s, on, w, n) == s[0] = 0 /\ \A i \in 1..n : s[i] = s[i - 1] + Weight(on, w, i)

\* The byte of a set of flags is such a sum.
LEMMA SumIs ==
  ASSUME NEW on, NEW n \in Nat, NEW w, Len(w) = n, \A i \in 1..n : w[i][2] \in Nat
  PROVE  \E s : Sums(s, on, w, n) /\ Sum8(on, w) = s[n]
<1> DEFINE step == [i \in 1..n |-> [x \in Nat |-> x + Weight(on, w, i)]]
           b(i) == IF w[i][1] \in on THEN w[i][2] ELSE 0
           Value(f) == f = [i \in 0..Len(w) |-> IF i = 0 THEN 0 ELSE f[i - 1] + b(i)]
           h == CHOOSE f : Value(f)
<1>1. Sum8(on, w) = h[n]
  BY DEF Sum8
<1>2. \A i \in 1..n : b(i) = Weight(on, w, i) /\ b(i) \in Nat
  BY DEF Weight
<1> HIDE DEF b
<1>3. step \in [1..n -> [Nat -> Nat]] /\ \A i \in 1..n, x \in Nat : step[i][x] = x + Weight(on, w, i)
  <2>1. \A i \in 1..n, x \in Nat : x + Weight(on, w, i) \in Nat
    BY <1>2
  <2> QED
    BY <2>1
<1> HIDE DEF step, h
<1>4. PICK g \in [0..n -> Nat] : Rounds(g, n, 0, step)
  <2>1. n \in Nat /\ 0 \in Nat
    OBVIOUS
  <2> QED
    BY <1>3, <2>1, LoopExists
<1>5. Value(g)
  <2>1. ASSUME NEW i \in 0..n PROVE g[i] = IF i = 0 THEN 0 ELSE g[i - 1] + b(i)
    <3>1. CASE i = 0
      BY <1>4, <3>1 DEF Rounds
    <3>2. CASE i # 0
      <4>1. i \in 1..n /\ i - 1 \in 0..n
        BY <3>2
      <4>2. g[i - 1] \in Nat
        BY <1>4, <4>1
      <4>3. g[i] = step[i][g[i - 1]]
        BY <1>4, <4>1 DEF Rounds
      <4>4. step[i][g[i - 1]] = g[i - 1] + b(i)
        BY <1>2, <1>3, <4>1, <4>2
      <4> QED
        BY <3>2, <4>3, <4>4
    <3> QED
      BY <3>1, <3>2
  <2> QED
    BY <2>1
<1>6. Value(h)
  BY <1>5 DEF h
<1>7. \A i \in 0..n : h[i] = IF i = 0 THEN 0 ELSE h[i - 1] + b(i)
  BY <1>6
<1>8. Sums(h, on, w, n)
  <2>1. 0 \in 0..n /\ \A i \in 1..n : i \in 0..n /\ i # 0
    OBVIOUS
  <2> QED
    BY <1>2, <1>7, <2>1 DEF Sums
<1> QED
  BY <1>1, <1>8

\* Whether a flag is set, as a bit.
Has(on, flag) == IF flag \in on THEN 1 ELSE 0

\* The byte of one flag.
LEMMA SumOfOne ==
  ASSUME NEW on, NEW w, Len(w) = 1, w[1][2] \in Nat
  PROVE  Sum8(on, w) = w[1][2] * Has(on, w[1][1])
<1> DEFINE n == 1
<1>1. n \in Nat /\ Len(w) = n
  OBVIOUS
<1>2. \A i \in 1..n : w[i][2] \in Nat
  <2>1. \A i \in 1..n : i = 1
    OBVIOUS
  <2> QED
    BY <2>1
<1> HIDE DEF n
<1>3. \E s : Sums(s, on, w, n) /\ Sum8(on, w) = s[n]
  BY <1>1, <1>2, SumIs
<1>4. PICK s : Sums(s, on, w, n) /\ Sum8(on, w) = s[n]
  BY <1>3
<1>5. /\ s[0] = 0
      /\ s[1] = s[0] + Weight(on, w, 1)
  BY <1>4 DEF Sums, n
<1>6. /\ Weight(on, w, 1) = w[1][2] * Has(on, w[1][1])
  BY DEF Weight, Has
<1>7. Weight(on, w, 1) \in Nat
  BY DEF Weight
<1>8. Sum8(on, w) = Weight(on, w, 1)
  BY <1>4, <1>5, <1>7 DEF n
<1> QED
  BY <1>6, <1>8

\* Of two flags.
LEMMA SumOfTwo ==
  ASSUME NEW on, NEW w, Len(w) = 2, w[1][2] \in Nat, w[2][2] \in Nat
  PROVE  Sum8(on, w) = w[1][2] * Has(on, w[1][1]) + w[2][2] * Has(on, w[2][1])
<1> DEFINE n == 2
<1>1. n \in Nat /\ Len(w) = n
  OBVIOUS
<1>2. \A i \in 1..n : w[i][2] \in Nat
  <2>1. \A i \in 1..n : i = 1 \/ i = 2
    OBVIOUS
  <2> QED
    BY <2>1
<1> HIDE DEF n
<1>3. \E s : Sums(s, on, w, n) /\ Sum8(on, w) = s[n]
  BY <1>1, <1>2, SumIs
<1>4. PICK s : Sums(s, on, w, n) /\ Sum8(on, w) = s[n]
  BY <1>3
<1>5. /\ s[0] = 0
      /\ s[1] = s[0] + Weight(on, w, 1) /\ s[2] = s[1] + Weight(on, w, 2)
  BY <1>4 DEF Sums, n
<1>6. /\ Weight(on, w, 1) = w[1][2] * Has(on, w[1][1])
      /\ Weight(on, w, 2) = w[2][2] * Has(on, w[2][1])
  BY DEF Weight, Has
<1>7. Weight(on, w, 1) \in Nat /\ Weight(on, w, 2) \in Nat
  BY DEF Weight
<1>8. Sum8(on, w) = Weight(on, w, 1) + Weight(on, w, 2)
  BY <1>4, <1>5, <1>7 DEF n
<1> QED
  BY <1>6, <1>8

\* Of four.
LEMMA SumOfFour ==
  ASSUME NEW on, NEW w, Len(w) = 4, w[1][2] \in Nat, w[2][2] \in Nat, w[3][2] \in Nat, w[4][2] \in Nat
  PROVE  Sum8(on, w) = w[1][2] * Has(on, w[1][1]) + w[2][2] * Has(on, w[2][1])
                           + w[3][2] * Has(on, w[3][1]) + w[4][2] * Has(on, w[4][1])
<1> DEFINE n == 4
<1>1. n \in Nat /\ Len(w) = n
  OBVIOUS
<1>2. \A i \in 1..n : w[i][2] \in Nat
  <2>1. \A i \in 1..n : i = 1 \/ i = 2 \/ i = 3 \/ i = 4
    OBVIOUS
  <2> QED
    BY <2>1
<1> HIDE DEF n
<1>3. \E s : Sums(s, on, w, n) /\ Sum8(on, w) = s[n]
  BY <1>1, <1>2, SumIs
<1>4. PICK s : Sums(s, on, w, n) /\ Sum8(on, w) = s[n]
  BY <1>3
<1>5. /\ s[0] = 0
      /\ s[1] = s[0] + Weight(on, w, 1) /\ s[2] = s[1] + Weight(on, w, 2)
      /\ s[3] = s[2] + Weight(on, w, 3) /\ s[4] = s[3] + Weight(on, w, 4)
  BY <1>4 DEF Sums, n
<1>6. /\ Weight(on, w, 1) = w[1][2] * Has(on, w[1][1])
      /\ Weight(on, w, 2) = w[2][2] * Has(on, w[2][1])
      /\ Weight(on, w, 3) = w[3][2] * Has(on, w[3][1])
      /\ Weight(on, w, 4) = w[4][2] * Has(on, w[4][1])
  BY DEF Weight, Has
<1>7. Weight(on, w, 1) \in Nat /\ Weight(on, w, 2) \in Nat /\ Weight(on, w, 3) \in Nat
      /\ Weight(on, w, 4) \in Nat
  BY DEF Weight
<1>8. Sum8(on, w) = Weight(on, w, 1) + Weight(on, w, 2) + Weight(on, w, 3) + Weight(on, w, 4)
  BY <1>4, <1>5, <1>7 DEF n
<1> QED
  BY <1>6, <1>8

\* Of the seven in a zone's fourth attribute.
LEMMA SumOfSeven ==
  ASSUME NEW on
  PROVE  Sum8(on, ZoneBits3)
           = Has(on, "bypass") + 4 * Has(on, "pulsed") + 8 * Has(on, "minimum") + 16 * Has(on, "medium")
             + 32 * Has(on, "maximum") + 64 * Has(on, "chime") + 128 * Has(on, "open_door")
<1> DEFINE w == ZoneBits3
           n == 7
<1>1. /\ n \in Nat /\ Len(w) = n
      /\ w[1] = <<"bypass", 1>> /\ w[2] = <<"pulsed", 4>> /\ w[3] = <<"minimum", 8>>
      /\ w[4] = <<"medium", 16>> /\ w[5] = <<"maximum", 32>> /\ w[6] = <<"chime", 64>>
      /\ w[7] = <<"open_door", 128>>
  BY DEF ZoneBits3
<1>2. \A i \in 1..n : w[i][2] \in Nat
  <2>1. \A i \in 1..n : i \in {1, 2, 3, 4, 5, 6, 7}
    OBVIOUS
  <2> QED
    BY <1>1, <2>1
<1> HIDE DEF w, n
<1>3. \E s : Sums(s, on, w, n) /\ Sum8(on, w) = s[n]
  <2>1. n \in Nat /\ Len(w) = n
    BY <1>1
  <2> QED
    BY <1>2, <2>1, SumIs
<1>4. PICK s : Sums(s, on, w, n) /\ Sum8(on, w) = s[n]
  BY <1>3
<1>5. /\ s[0] = 0 /\ s[1] = s[0] + Weight(on, w, 1) /\ s[2] = s[1] + Weight(on, w, 2)
      /\ s[3] = s[2] + Weight(on, w, 3) /\ s[4] = s[3] + Weight(on, w, 4)
      /\ s[5] = s[4] + Weight(on, w, 5) /\ s[6] = s[5] + Weight(on, w, 6)
      /\ s[7] = s[6] + Weight(on, w, 7)
  BY <1>4 DEF Sums, n
<1>6. /\ Weight(on, w, 1) = Has(on, "bypass") /\ Weight(on, w, 2) = 4 * Has(on, "pulsed")
      /\ Weight(on, w, 3) = 8 * Has(on, "minimum") /\ Weight(on, w, 4) = 16 * Has(on, "medium")
      /\ Weight(on, w, 5) = 32 * Has(on, "maximum") /\ Weight(on, w, 6) = 64 * Has(on, "chime")
      /\ Weight(on, w, 7) = 128 * Has(on, "open_door")
  BY <1>1 DEF Weight, Has
<1>7. \A f : Has(on, f) \in {0, 1}
  BY DEF Has
<1>8. Sum8(on, w) = s[7]
  BY <1>4 DEF n
<1> QED
  BY <1>5, <1>6, <1>7, <1>8 DEF w

\* Where a name stands padded, it is read back (decode_name).
LEMMA NameIsRead ==
  ASSUME NEW text, IsName(text), NEW data \in Seq(Byte), Len(data) = 9,
         \A i \in 1..9 : data[i] = Padded(text, 9)[i]
  PROVE  DecodeName(data) = text
<1> DEFINE n == Len(text)
           pads == {i \in DOMAIN data : data[i] = NAME_PAD}
           length == IF pads = {} THEN Len(data)
                     ELSE (CHOOSE i \in pads : \A j \in pads : i <= j) - 1
<1>0. n \in Nat /\ n <= 9
  <2>1. Len(text) <= 9 /\ text \in Seq(0..254)
    BY DEF IsName
  <2>2. Len(text) \in Nat
    BY <2>1, LenProperties
  <2> QED
    BY <2>1, <2>2
<1>1. /\ text \in Seq(0..254) /\ \A i \in 1..n : text[i] \in 0..254
      /\ text # <<>> => text[1] \notin Whitespace /\ text[n] \notin Whitespace
  <2>1. text \in Seq(0..254) /\ Len(text) <= 9
    BY DEF IsName
  <2>2. \A i \in 1..Len(text) : text[i] \in 0..254
    BY <2>1, ElementOfSeq
  <2>3. text # <<>> => text[1] \notin Whitespace /\ text[n] \notin Whitespace
    BY DEF IsName
  <2> QED
    BY <2>1, <2>2, <2>3, Zenon
<1> HIDE DEF n
<1>3. \A i \in 1..9 : data[i] = IF i <= n THEN text[i] ELSE 255
  BY DEF Padded, n
<1>4. DOMAIN data = 1..9
  OBVIOUS
<1>5. \A i : i \in pads <=> i \in 1..9 /\ i > n
  <2>1. ASSUME NEW i \in 1..9, i <= n PROVE data[i] # NAME_PAD
    <3>1. i \in 1..n
      BY <1>0, <2>1
    <3>2. data[i] = text[i] /\ text[i] \in 0..254
      BY <1>1, <1>3, <2>1, <3>1
    <3>3. \A x \in 0..254 : x # 255
      OBVIOUS
    <3> QED
      BY <3>2, <3>3, Zenon DEF NAME_PAD
  <2>2. ASSUME NEW i \in 1..9, i > n PROVE data[i] = NAME_PAD
    BY <1>0, <1>3, <2>2 DEF NAME_PAD
  <2> QED
    BY <1>0, <1>4, <2>1, <2>2
<1>6. DecodeName(data) = Strip(SubSeq(data, 1, length))
  BY DEF DecodeName
<1> HIDE DEF pads
<1>7. length = n
  <2>1. CASE n = 9
    <3>1. pads = {}
      BY <1>5, <2>1
    <3> QED
      BY <2>1, <3>1
  <2>2. CASE n # 9
    <3>1. n + 1 \in pads /\ \A j \in pads : j \in Nat /\ n + 1 <= j
      BY <1>0, <1>5, <2>2
    <3>0. length = IF pads = {} THEN Len(data) ELSE (CHOOSE i \in pads : \A j \in pads : i <= j) - 1
      BY DEF length
    <3> DEFINE first == CHOOSE i \in pads : \A j \in pads : i <= j
    <3>2. first \in pads /\ \A j \in pads : first <= j
      BY <3>1
    <3> HIDE DEF first
    <3>3. first = n + 1
      BY <1>0, <3>1, <3>2
    <3>4. pads # {}
      BY <3>1
    <3>5. length = first - 1
      BY <3>0, <3>4 DEF first
    <3> QED
      BY <1>0, <3>3, <3>5
  <2> QED
    BY <2>1, <2>2
<1> HIDE DEF length
<1>8. SubSeq(data, 1, n) = text
  <2>1. text \in Seq(Byte)
    <3>1. \A x \in 0..254 : x \in Byte
      BY DEF Byte
    <3> QED
      BY <1>1, <3>1, LargerSeq
  <2> DEFINE from == 0
  <2>2. from \in Nat /\ from + Len(text) <= Len(data)
    BY <1>0 DEF n
  <2>3. \A i \in 1..Len(text) : data[from + i] = text[i]
    <3>1. ASSUME NEW i \in 1..n PROVE data[0 + i] = text[i]
      <4>1. i \in 1..9 /\ i <= n /\ 0 + i = i
        BY <1>0
      <4> QED
        BY <1>3, <4>1
    <3> QED
      BY <3>1 DEF n
  <2>4. from + 1 = 1 /\ from + Len(text) = n
    BY <1>0 DEF n
  <2> HIDE DEF from
  <2>5. SubSeq(data, from + 1, from + Len(text)) = text
    BY <2>1, <2>2, <2>3, StretchIs
  <2> QED
    BY <2>4, <2>5
<1>9. Strip(text) = text
  BY <1>1, StripKeeps DEF n
<1> QED
  BY <1>6, <1>7, <1>8, <1>9

\* The records of a table stand one after the other.
HoldsRecords(table, base, size, max, records) ==
  /\ DOMAIN table \subseteq base..(base + max * size - 1)
  /\ \A n \in DOMAIN records, k \in 1..size :
       /\ base + (n - 1) * size + k - 1 \in DOMAIN table
       /\ table[base + (n - 1) * size + k - 1] = records[n][k]

\* So does Table put them.
LEMMA TableIs ==
  ASSUME NEW base \in Nat, NEW size \in {2, 8, 9, 16}, NEW max \in Nat,
         NEW records, DOMAIN records \subseteq 1..max
  PROVE  HoldsRecords(Table(base, size, records), base, size, max, records)
<1> DEFINE numbers == DOMAIN records
           cells == UNION {(base + (n - 1) * size)..(base + n * size - 1) : n \in numbers}
           t == [a \in cells |-> records[((a - base) \div size) + 1][((a - base) % size) + 1]]
<1>1. Table(base, size, records) = t
  BY DEF Table
<1>2. ASSUME NEW n \in Nat \ {0}, NEW k \in 1..size
      PROVE  LET a == base + (n - 1) * size + k - 1
             IN /\ a \in (base + (n - 1) * size)..(base + n * size - 1)
                /\ (a - base) \div size = n - 1 /\ (a - base) % size = k - 1
  <2>1. CASE size = 2
    BY <2>1
  <2>2. CASE size = 8
    BY <2>2
  <2>3. CASE size = 9
    BY <2>3
  <2>4. CASE size = 16
    BY <2>4
  <2> QED
    BY <2>1, <2>2, <2>3, <2>4
<1>3. ASSUME NEW n \in 1..max
      PROVE (base + (n - 1) * size)..(base + n * size - 1) \subseteq base..(base + max * size - 1)
  <2>1. CASE size = 2
    BY <2>1
  <2>2. CASE size = 8
    BY <2>2
  <2>3. CASE size = 9
    BY <2>3
  <2>4. CASE size = 16
    BY <2>4
  <2> QED
    BY <2>1, <2>2, <2>3, <2>4
<1>4. cells \subseteq base..(base + max * size - 1)
  <2>1. ASSUME NEW a \in cells PROVE a \in base..(base + max * size - 1)
    <3>1. PICK n \in numbers : a \in (base + (n - 1) * size)..(base + n * size - 1)
      OBVIOUS
    <3> QED
      BY <1>3, <3>1
  <2> QED
    BY <2>1
<1>5. ASSUME NEW n \in numbers, NEW k \in 1..size
      PROVE  LET a == base + (n - 1) * size + k - 1
             IN a \in cells /\ t[a] = records[n][k]
  <2> DEFINE a == base + (n - 1) * size + k - 1
  <2>0. n \in Nat \ {0} /\ n - 1 + 1 = n /\ k - 1 + 1 = k
    OBVIOUS
  <2>1. /\ a \in (base + (n - 1) * size)..(base + n * size - 1)
        /\ (a - base) \div size = n - 1 /\ (a - base) % size = k - 1
    BY <1>2, <2>0
  <2> HIDE DEF a
  <2>2. a \in cells
    BY <2>1
  <2> HIDE DEF cells
  <2>3. t[a] = records[n][k]
    BY <2>0, <2>1, <2>2
  <2> QED
    BY <2>2, <2>3 DEF a
<1> HIDE DEF cells
<1>6. DOMAIN t = cells
  OBVIOUS
<1> HIDE DEF t
<1> QED
  BY <1>1, <1>4, <1>5, <1>6 DEF HoldsRecords

\* Data that stand from an address on.
Stands(cells, base, size, data) ==
  /\ DOMAIN cells = base..(base + size - 1)
  /\ \A k \in 1..size : cells[base + k - 1] = data[k]

\* So does From put them.
LEMMA FromIs ==
  ASSUME NEW base \in Nat, NEW size \in Nat, NEW data, Len(data) = size
  PROVE  Stands(From(base, data), base, size, data)
<1>1. From(base, data) = [a \in base..(base + size - 1) |-> data[a - base + 1]]
  BY DEF From
<1>2. \A k \in 1..size : base + k - 1 \in base..(base + size - 1) /\ base + k - 1 - base + 1 = k
  OBVIOUS
<1> QED
  BY <1>1, <1>2 DEF Stands

\* Whose an address is.
Owner(a) ==
  IF a <= 31 THEN 6 ELSE IF a <= 147 THEN 1 ELSE IF a <= 296 THEN 7 ELSE IF a <= 337 THEN 8
  ELSE IF a <= 511 THEN 2 ELSE IF a <= 1287 THEN 9 ELSE IF a <= 2975 THEN 3
  ELSE IF a <= 4607 THEN 4 ELSE 5

\* All addresses of a part are its own.
Owned(part, i) == \A a \in DOMAIN part : Owner(a) = i

\* Parts that do not overlap keep their bytes when they are put together.
LEMMA PartsKeepTheirBytes ==
  ASSUME NEW parts, NEW m \in Nat, DOMAIN parts = 1..m, \A i \in 1..m : Owned(parts[i], i)
  PROVE  \A i \in 1..m : \A a \in DOMAIN parts[i] :
           a \in DOMAIN Joined(parts) /\ Joined(parts)[a] = parts[i][a]
<1> DEFINE mem == Joined(parts)
<1>1. ASSUME NEW i \in 1..m, NEW a \in DOMAIN parts[i]
      PROVE  a \in DOMAIN mem /\ mem[a] = parts[i][a]
  <2> DEFINE j == CHOOSE j \in DOMAIN parts : a \in DOMAIN parts[j]
  <2>1. j \in 1..m /\ a \in DOMAIN parts[j]
    OBVIOUS
  <2> HIDE DEF j
  <2>2. j = i
    BY <2>1 DEF Owned
  <2>3. a \in UNION {DOMAIN parts[k] : k \in DOMAIN parts}
    OBVIOUS
  <2>4. mem[a] = parts[j][a] /\ a \in DOMAIN mem
    BY <2>3 DEF j, Joined
  <2> QED
    BY <2>2, <2>4
<1> QED
  BY <1>1

\* Where a record's bytes stand.
KeepsRecords(v, base, size, records) ==
  \A n \in DOMAIN records, k \in 1..size : Cell(v, base + (n - 1) * size + k - 1) = records[n][k]

\* Where a field's bytes stand.
KeepsBytes(v, base, size, data) == \A k \in 1..size : Cell(v, base + k - 1) = data[k]

NameBytes(text) == Padded(text, 9)

\* The panel's memory has each record and field of the settings in its place.
LEMMA MemoryIs ==
  ASSUME NEW v \in 1..Len(Image), NEW s, s = Settings[v]
  PROVE  /\ KeepsRecords(v, 112, 9, Each(NameBytes, s.partition_names))
         /\ KeepsRecords(v, 448, 16, Each(PgmBytes, s.pgms))
         /\ KeepsRecords(v, 1408, 16, Each(UserBytes, s.users))
         /\ KeepsRecords(v, 4096, 16, Each(ZoneBytes, s.zones))
         /\ KeepsRecords(v, 6144, 8, Each(WirelessBytes, s.wireless))
         /\ KeepsRecords(v, 0, 2, Each(HolidayBytes, s.holidays))
         /\ KeepsBytes(v, 288, 9, TimerBytes(s.timers, s.autotest))
         /\ Cell(v, 336) = AutoArmBytes(s.auto_arm)[1] /\ Cell(v, 337) = AutoArmBytes(s.auto_arm)[2]
         /\ Cell(v, 1287) = Sum8(s.options, OptionBits)
<1> DEFINE r1 == Each(NameBytes, s.partition_names)
           r2 == Each(PgmBytes, s.pgms)
           r3 == Each(UserBytes, s.users)
           r4 == Each(ZoneBytes, s.zones)
           r5 == Each(WirelessBytes, s.wireless)
           r6 == Each(HolidayBytes, s.holidays)
           d7 == TimerBytes(s.timers, s.autotest)
           d8 == AutoArmBytes(s.auto_arm)
           d9 == <<Sum8(s.options, OptionBits)>>
           parts == <<Table(112, 9, r1), Table(448, 16, r2), Table(1408, 16, r3), Table(4096, 16, r4),
                      Table(6144, 8, r5), Table(0, 2, r6), From(288, d7),
                      From(336, d8), From(1287, d9)>>
<1>1. Image[v] = Joined(parts)
  <2>1. Image[v] = Memory(s)
    BY MonitoringAssumption
  <2>2. r1 = Each(LAMBDA name : Padded(name, 9), s.partition_names)
    BY DEF Each, NameBytes
  <2>3. 111 + 1 = 112 /\ 447 + 1 = 448
    OBVIOUS
  <2>4. parts = Sections(s)
    <3> DEFINE names == Each(LAMBDA name : Padded(name, 9), s.partition_names)
               t2 == Each(PgmBytes, s.pgms)
    <3>1. Sections(s) = <<Table(111 + 1, 9, names), Table(447 + 1, 16, t2), Table(1408, 16, r3),
                          Table(4096, 16, r4), Table(6144, 8, r5), Table(0, 2, r6), From(288, d7),
                          From(336, d8), From(1287, d9)>>
      BY DEF Sections
    <3>2. names = r1 /\ t2 = r2
      BY <2>2
    <3> HIDE DEF names, t2, r1, r2, r3, r4, r5, r6, d7, d8, d9
    <3> QED
      BY <2>3, <3>1, <3>2
  <2> HIDE DEF parts
  <2> QED
    BY <2>1, <2>4 DEF Memory
<1>2. Installable(s)
  BY SettingsAssumption
<1>3. /\ DOMAIN r1 \subseteq 1..4 /\ DOMAIN r2 \subseteq 1..4 /\ DOMAIN r3 \subseteq 1..98
      /\ DOMAIN r4 \subseteq 1..32 /\ DOMAIN r5 \subseteq 1..32 /\ DOMAIN r6 \subseteq 1..16
  BY <1>2 DEF Installable, Each
<1>4. Len(d7) = 9
  <2> DEFINE first == [i \in 1..8 |-> TimerByte(s.timers[i])]
             unit == IF s.autotest = None THEN 255
                     ELSE s.autotest[1] + (IF s.autotest[2] = "minutes" THEN 128 ELSE 0)
             S == {TimerByte(s.timers[i]) : i \in 1..8} \cup {unit}
             last == <<unit>>
  <2>1. d7 = first \o last
    BY DEF TimerBytes
  <2>2. first \in Seq(S) /\ Len(first) = 8 /\ last \in Seq(S) /\ Len(last) = 1
    OBVIOUS
  <2> HIDE DEF first, unit, last, S, d7
  <2>3. Len(first \o last) = Len(first) + Len(last)
    BY <2>2, ConcatProperties
  <2> QED
    BY <2>1, <2>2, <2>3
<1>5. Len(d8) = 2 /\ Len(d9) = 1 /\ d9[1] = Sum8(s.options, OptionBits)
  BY DEF AutoArmBytes
<1> HIDE DEF r1, r2, r3, r4, r5, r6, d7, d8, d9
<1> DEFINE b1 == 112
           b2 == 448
           b3 == 1408
           b4 == 4096
           b5 == 6144
           b7 == 288
           b8 == 336
           b9 == 1287
           m3 == 98
           m4 == 32
<1>6. /\ HoldsRecords(Table(b1, 9, r1), b1, 9, 4, r1)
      /\ HoldsRecords(Table(b2, 16, r2), b2, 16, 4, r2)
      /\ HoldsRecords(Table(b3, 16, r3), b3, 16, m3, r3)
      /\ HoldsRecords(Table(b4, 16, r4), b4, 16, m4, r4)
      /\ HoldsRecords(Table(b5, 8, r5), b5, 8, m4, r5)
      /\ HoldsRecords(Table(0, 2, r6), 0, 2, 16, r6)
  <2>1. \A base \in Nat, size \in {2, 8, 9, 16}, max \in Nat : \A r :
          DOMAIN r \subseteq 1..max => HoldsRecords(Table(base, size, r), base, size, max, r)
    BY TableIs
  <2>2. /\ b1 \in Nat /\ b2 \in Nat /\ b3 \in Nat /\ b4 \in Nat /\ b5 \in Nat /\ 0 \in Nat
        /\ 4 \in Nat /\ m3 \in Nat /\ m4 \in Nat /\ 16 \in Nat
    OBVIOUS
  <2>3. 9 \in {2, 8, 9, 16} /\ 16 \in {2, 8, 9, 16} /\ 8 \in {2, 8, 9, 16} /\ 2 \in {2, 8, 9, 16}
    OBVIOUS
  <2>4. /\ DOMAIN r1 \subseteq 1..4 /\ DOMAIN r2 \subseteq 1..4 /\ DOMAIN r3 \subseteq 1..m3
        /\ DOMAIN r4 \subseteq 1..m4 /\ DOMAIN r5 \subseteq 1..m4 /\ DOMAIN r6 \subseteq 1..16
    BY <1>3
  <2> HIDE DEF b1, b2, b3, b4, b5, m3, m4
  <2>5. HoldsRecords(Table(b1, 9, r1), b1, 9, 4, r1) /\ HoldsRecords(Table(b2, 16, r2), b2, 16, 4, r2)
    BY <2>1, <2>2, <2>3, <2>4
  <2>6. HoldsRecords(Table(b3, 16, r3), b3, 16, m3, r3)
        /\ HoldsRecords(Table(b4, 16, r4), b4, 16, m4, r4)
    BY <2>1, <2>2, <2>3, <2>4
  <2>7. HoldsRecords(Table(b5, 8, r5), b5, 8, m4, r5) /\ HoldsRecords(Table(0, 2, r6), 0, 2, 16, r6)
    BY <2>1, <2>2, <2>3, <2>4
  <2> QED
    BY <2>5, <2>6, <2>7
<1>7. /\ DOMAIN From(b7, d7) = 288..296 /\ \A k \in 1..9 : From(b7, d7)[b7 + k - 1] = d7[k]
      /\ DOMAIN From(b8, d8) = 336..337 /\ From(b8, d8)[b8] = d8[1] /\ From(b8, d8)[b8 + 1] = d8[2]
      /\ DOMAIN From(b9, d9) = 1287..1287 /\ From(b9, d9)[b9] = d9[1]
  <2>1. \A base, size \in Nat : \A d : Len(d) = size => Stands(From(base, d), base, size, d)
    BY FromIs
  <2>2. b7 \in Nat /\ b8 \in Nat /\ b9 \in Nat /\ 9 \in Nat /\ 2 \in Nat /\ 1 \in Nat
    OBVIOUS
  <2>3. b7 + 9 - 1 = 296 /\ b8 + 2 - 1 = 337 /\ b9 + 1 - 1 = 1287 /\ b7 = 288 /\ b8 = 336 /\ b9 = 1287
        /\ b8 + 1 - 1 = b8 /\ b8 + 2 - 1 = b8 + 1 /\ b9 + 1 - 1 = b9
    OBVIOUS
  <2> HIDE DEF b7, b8, b9
  <2>a. Stands(From(b7, d7), b7, 9, d7) /\ Stands(From(b8, d8), b8, 2, d8)
        /\ Stands(From(b9, d9), b9, 1, d9)
    BY <1>4, <1>5, <2>1, <2>2
  <2>4. DOMAIN From(b7, d7) = b7..(b7 + 9 - 1) /\ \A k \in 1..9 : From(b7, d7)[b7 + k - 1] = d7[k]
    BY <2>a, Zenon DEF Stands
  <2>5. DOMAIN From(b8, d8) = b8..(b8 + 2 - 1) /\ \A k \in 1..2 : From(b8, d8)[b8 + k - 1] = d8[k]
    BY <2>a, Zenon DEF Stands
  <2>6. DOMAIN From(b9, d9) = b9..(b9 + 1 - 1) /\ \A k \in 1..1 : From(b9, d9)[b9 + k - 1] = d9[k]
    BY <2>a, Zenon DEF Stands
  <2>7. 1 \in 1..2 /\ 2 \in 1..2 /\ 1 \in 1..1
    OBVIOUS
  <2>8. From(b8, d8)[b8] = d8[1] /\ From(b8, d8)[b8 + 1] = d8[2]
    BY <2>3, <2>5, <2>7
  <2>9. From(b9, d9)[b9] = d9[1]
    BY <2>3, <2>6, <2>7
  <2> QED
    BY <2>3, <2>4, <2>5, <2>6, <2>8, <2>9
<1>8. parts[1] = Table(b1, 9, r1) /\ parts[2] = Table(b2, 16, r2) /\ parts[3] = Table(b3, 16, r3)
      /\ parts[4] = Table(b4, 16, r4) /\ parts[5] = Table(b5, 8, r5) /\ parts[6] = Table(0, 2, r6)
      /\ parts[7] = From(b7, d7) /\ parts[8] = From(b8, d8) /\ parts[9] = From(b9, d9)
      /\ DOMAIN parts = 1..9
  OBVIOUS
<1> HIDE DEF parts
<1>9. /\ DOMAIN parts[1] \subseteq b1..(b1 + 4 * 9 - 1)
      /\ DOMAIN parts[2] \subseteq b2..(b2 + 4 * 16 - 1)
      /\ DOMAIN parts[3] \subseteq b3..(b3 + m3 * 16 - 1)
      /\ DOMAIN parts[4] \subseteq b4..(b4 + m4 * 16 - 1)
      /\ DOMAIN parts[5] \subseteq b5..(b5 + m4 * 8 - 1)
      /\ DOMAIN parts[6] \subseteq 0..(0 + 16 * 2 - 1)
  <2> HIDE DEF b1, b2, b3, b4, b5, m3, m4
  <2> QED
    BY <1>6, <1>8, Zenon DEF HoldsRecords
<1>10. /\ \A a \in b1..(b1 + 4 * 9 - 1) : Owner(a) = 1
       /\ \A a \in b2..(b2 + 4 * 16 - 1) : Owner(a) = 2
       /\ \A a \in b3..(b3 + m3 * 16 - 1) : Owner(a) = 3
       /\ \A a \in b4..(b4 + m4 * 16 - 1) : Owner(a) = 4
       /\ \A a \in b5..(b5 + m4 * 8 - 1) : Owner(a) = 5
       /\ \A a \in 0..(0 + 16 * 2 - 1) : Owner(a) = 6
       /\ \A a \in 288..296 : Owner(a) = 7
       /\ \A a \in 336..337 : Owner(a) = 8
       /\ \A a \in 1287..1287 : Owner(a) = 9
  BY DEF Owner
<1>11. \A i \in 1..9 : Owned(parts[i], i)
  <2>0. /\ DOMAIN parts[7] = 288..296 /\ DOMAIN parts[8] = 336..337 /\ DOMAIN parts[9] = 1287..1287
    BY <1>7, <1>8
  <2>b. /\ \A a \in 288..296 : Owner(a) = 7
        /\ \A a \in 336..337 : Owner(a) = 8
        /\ \A a \in 1287..1287 : Owner(a) = 9
    BY <1>10
  <2>a. /\ \A a \in b1..(b1 + 4 * 9 - 1) : Owner(a) = 1
        /\ \A a \in b2..(b2 + 4 * 16 - 1) : Owner(a) = 2
        /\ \A a \in b3..(b3 + m3 * 16 - 1) : Owner(a) = 3
        /\ \A a \in b4..(b4 + m4 * 16 - 1) : Owner(a) = 4
        /\ \A a \in b5..(b5 + m4 * 8 - 1) : Owner(a) = 5
        /\ \A a \in 0..(0 + 16 * 2 - 1) : Owner(a) = 6
    BY <1>10
  <2>1. \A i \in 1..9 : i = 1 \/ i = 2 \/ i = 3 \/ i = 4 \/ i = 5 \/ i = 6 \/ i = 7 \/ i = 8 \/ i = 9
    OBVIOUS
  <2> HIDE DEF b1, b2, b3, b4, b5, m3, m4
  <2>2. Owned(parts[1], 1)
    BY <1>9, <2>a, Zenon DEF Owned
  <2>3. Owned(parts[2], 2)
    BY <1>9, <2>a, Zenon DEF Owned
  <2>4. Owned(parts[3], 3)
    BY <1>9, <2>a, Zenon DEF Owned
  <2>5. Owned(parts[4], 4)
    BY <1>9, <2>a, Zenon DEF Owned
  <2>6. Owned(parts[5], 5)
    BY <1>9, <2>a, Zenon DEF Owned
  <2>7. Owned(parts[6], 6)
    BY <1>9, <2>a, Zenon DEF Owned
  <2>8. Owned(parts[7], 7)
    BY <2>0, <2>b DEF Owned
  <2>9. Owned(parts[8], 8)
    BY <2>0, <2>b DEF Owned
  <2>10. Owned(parts[9], 9)
    BY <2>0, <2>b DEF Owned
  <2> SUFFICES ASSUME NEW i \in 1..9 PROVE Owned(parts[i], i)
    OBVIOUS
  <2>11. CASE i \in {1, 2, 3, 4, 5}
    BY <2>2, <2>3, <2>4, <2>5, <2>6, <2>11
  <2>12. CASE i \in {6, 7, 8, 9}
    BY <2>7, <2>8, <2>9, <2>10, <2>12
  <2> QED
    BY <2>1, <2>11, <2>12
<1>12. \A i \in 1..9 : \A a \in DOMAIN parts[i] : Cell(v, a) = parts[i][a]
  <2>1. \A i \in 1..9 : \A a \in DOMAIN parts[i] :
          a \in DOMAIN Joined(parts) /\ Joined(parts)[a] = parts[i][a]
    <3> DEFINE m == 9
    <3>1. m \in Nat /\ DOMAIN parts = 1..m
      BY <1>8
    <3>2. \A i \in 1..m : Owned(parts[i], i)
      BY <1>11
    <3> HIDE DEF m
    <3>3. \A i \in 1..m : \A a \in DOMAIN parts[i] :
            a \in DOMAIN Joined(parts) /\ Joined(parts)[a] = parts[i][a]
      BY <3>1, <3>2, PartsKeepTheirBytes
    <3> QED
      BY <3>3 DEF m
  <2> QED
    BY <1>1, <2>1, Zenon DEF Cell
<1>13. ASSUME NEW i \in 1..9, NEW base, NEW size, NEW max, NEW r,
              HoldsRecords(parts[i], base, size, max, r)
       PROVE  KeepsRecords(v, base, size, r)
  BY <1>12, <1>13, Zenon DEF HoldsRecords, KeepsRecords
<1>14. /\ KeepsRecords(v, b1, 9, r1) /\ KeepsRecords(v, b2, 16, r2) /\ KeepsRecords(v, b3, 16, r3)
       /\ KeepsRecords(v, b4, 16, r4) /\ KeepsRecords(v, b5, 8, r5) /\ KeepsRecords(v, 0, 2, r6)
  <2>1. 1 \in 1..9 /\ 2 \in 1..9 /\ 3 \in 1..9 /\ 4 \in 1..9 /\ 5 \in 1..9 /\ 6 \in 1..9
    OBVIOUS
  <2> HIDE DEF b1, b2, b3, b4, b5, m3, m4
  <2>2. KeepsRecords(v, b1, 9, r1) /\ KeepsRecords(v, b2, 16, r2) /\ KeepsRecords(v, b3, 16, r3)
    BY <1>6, <1>8, <1>13, <2>1
  <2>3. KeepsRecords(v, b4, 16, r4) /\ KeepsRecords(v, b5, 8, r5) /\ KeepsRecords(v, 0, 2, r6)
    BY <1>6, <1>8, <1>13, <2>1
  <2> QED
    BY <2>2, <2>3
<1>15. /\ \A k \in 1..9 : Cell(v, b7 + k - 1) = d7[k]
       /\ Cell(v, b8) = d8[1] /\ Cell(v, b8 + 1) = d8[2] /\ Cell(v, b9) = d9[1]
  <2>1. 7 \in 1..9 /\ 8 \in 1..9 /\ 9 \in 1..9 /\ b8 \in 336..337 /\ b8 + 1 \in 336..337
        /\ b9 \in 1287..1287
        /\ \A k \in 1..9 : b7 + k - 1 \in 288..296
    OBVIOUS
  <2> HIDE DEF b7, b8, b9
  <2>2. \A a \in DOMAIN From(b7, d7) : Cell(v, a) = From(b7, d7)[a]
    BY <1>8, <1>12, <2>1
  <2>3. \A a \in DOMAIN From(b8, d8) : Cell(v, a) = From(b8, d8)[a]
    BY <1>8, <1>12, <2>1
  <2>4. \A a \in DOMAIN From(b9, d9) : Cell(v, a) = From(b9, d9)[a]
    BY <1>8, <1>12, <2>1
  <2>a. b8 \in DOMAIN From(b8, d8) /\ b8 + 1 \in DOMAIN From(b8, d8)
        /\ \A k \in 1..9 : b7 + k - 1 \in DOMAIN From(b7, d7)
    BY <1>7, <2>1
  <2>b. /\ \A k \in 1..9 : From(b7, d7)[b7 + k - 1] = d7[k]
        /\ From(b8, d8)[b8] = d8[1] /\ From(b8, d8)[b8 + 1] = d8[2]
    BY <1>7
  <2>5. \A k \in 1..9 : Cell(v, b7 + k - 1) = d7[k]
    BY <2>2, <2>a, <2>b, Zenon
  <2>6. Cell(v, b8) = d8[1] /\ Cell(v, b8 + 1) = d8[2]
    BY <2>3, <2>a, <2>b, Zenon
  <2>7. Cell(v, b9) = d9[1]
    BY <1>7, <2>1, <2>4
  <2> QED
    BY <2>5, <2>6, <2>7
<1>16. /\ \A k \in 1..9 : Cell(v, 288 + k - 1) = d7[k]
       /\ Cell(v, 336) = d8[1] /\ Cell(v, 337) = d8[2] /\ Cell(v, 1287) = d9[1]
  <2>1. b7 = 288 /\ b8 = 336 /\ b8 + 1 = 337 /\ b9 = 1287
    OBVIOUS
  <2> QED
    BY <1>15, <2>1
<1> HIDE DEF b7, b8, b9
<1>17. KeepsBytes(v, 288, 9, d7) /\ Cell(v, 336) = d8[1] /\ Cell(v, 337) = d8[2]
       /\ Cell(v, 1287) = d9[1]
  BY <1>16 DEF KeepsBytes
<1>18. /\ KeepsRecords(v, 112, 9, r1) /\ KeepsRecords(v, 448, 16, r2) /\ KeepsRecords(v, 1408, 16, r3)
       /\ KeepsRecords(v, 4096, 16, r4) /\ KeepsRecords(v, 6144, 8, r5) /\ KeepsRecords(v, 0, 2, r6)
  BY <1>14
<1> QED
  BY <1>5, <1>17, <1>18 DEF r1, r2, r3, r4, r5, r6, d7, d8

-----------------------------------------------------------------------------
(* What a record's bytes tell.                                               *)

\* A record's bytes are its name's and, after them, the others.
LEMMA BytesJoin ==
  ASSUME NEW n \in Nat, NEW m \in Nat, NEW p, NEW t,
         p = [i \in 1..n |-> p[i]], t = [i \in 1..m |-> t[i]]
  PROVE  \A k \in 1..(n + m) : (p \o t)[k] = IF k <= n THEN p[k] ELSE t[k - n]
<1> DEFINE S == {p[i] : i \in 1..n} \cup {t[i] : i \in 1..m}
<1>1. p \in Seq(S) /\ Len(p) = n
  OBVIOUS
<1>2. t \in Seq(S) /\ Len(t) = m
  OBVIOUS
<1> HIDE DEF S
<1> QED
  BY <1>1, <1>2, ConcatProperties

\* The name and the rest of a record.
LEMMA RestIs ==
  ASSUME NEW r \in Seq(Byte), Len(r) = 16
  PROVE  /\ SubSeq(r, 1, 9) \in Seq(Byte) /\ Len(SubSeq(r, 1, 9)) = 9
         /\ \A i \in 1..9 : SubSeq(r, 1, 9)[i] = r[i]
         /\ SubSeq(r, 10, 16) \in Seq(Byte) /\ Len(SubSeq(r, 10, 16)) = 7
         /\ \A i \in 1..7 : SubSeq(r, 10, 16)[i] = r[9 + i]
<1>1. \A i \in 1..16 : r[i] \in Byte
  BY ElementOfSeq
<1>2. (\A i \in 1..9 : r[i] \in Byte) /\ \A i \in 10..16 : r[i] \in Byte
  BY <1>1
<1>3. SubSeq(r, 1, 9) \in Seq(Byte) /\ Len(SubSeq(r, 1, 9)) = 9
      /\ \A i \in 1..9 : SubSeq(r, 1, 9)[i] = r[i]
  BY <1>2, SubSeqProperties
<1>4. SubSeq(r, 10, 16) \in Seq(Byte) /\ Len(SubSeq(r, 10, 16)) = 7
      /\ \A i \in 1..7 : SubSeq(r, 10, 16)[i] = r[9 + i]
  BY <1>2, SubSeqProperties
<1> QED
  BY <1>3, <1>4

\* x is four bits and a number of sixteens; or a small number and four bits.
OfBits(x, b1, b2, b4, b8, high) == x = b1 + 2 * b2 + 4 * b4 + 8 * b8 + 16 * high
OverBits(x, low, b16, b32, b64, b128) == x = low + 16 * b16 + 32 * b32 + 64 * b64 + 128 * b128

\* The three bits of a zone's sensitivity.
Level(x) == ((x \div 8) % 8) * 8

\* Flags of one byte.
LEMMA FourBits ==
  ASSUME NEW b1 \in {0, 1}, NEW b2 \in {0, 1}, NEW b4 \in {0, 1}, NEW b8 \in {0, 1}, NEW high \in Nat,
         NEW x, OfBits(x, b1, b2, b4, b8, high)
  PROVE  /\ Bit(x, 1) <=> b1 = 1
         /\ Bit(x, 2) <=> b2 = 1
         /\ Bit(x, 4) <=> b4 = 1
         /\ Bit(x, 8) <=> b8 = 1
         /\ x \div 16 = high
BY DEF Bit, OfBits

\* And of its upper half.
LEMMA HighBits ==
  ASSUME NEW low \in Nat, low < 16, NEW b16 \in {0, 1}, NEW b32 \in {0, 1}, NEW b64 \in {0, 1},
         NEW b128 \in {0, 1},
         NEW x, OverBits(x, low, b16, b32, b64, b128)
  PROVE  /\ Bit(x, 16) <=> b16 = 1
         /\ Bit(x, 32) <=> b32 = 1
         /\ Bit(x, 64) <=> b64 = 1
         /\ Bit(x, 128) <=> b128 = 1
         /\ Level(x) = 8 * (low \div 8) + 16 * b16 + 32 * b32
BY DEF Bit, OverBits, Level

\* Whether a flag is on, from its bit.
LEMMA HasIs == \A on, f : Has(on, f) \in {0, 1} /\ (Has(on, f) = 1 <=> f \in on)
BY DEF Has

\* r has the bytes of s; t has seven.
HasBytes(r, size, s) == \A k \in 1..size : r[k] = s[k]
Seven(t) == t = [i \in 1..7 |-> t[i]]

\* The bytes of a record that has a name, and what comes after it.
LEMMA NamedRecord ==
  ASSUME NEW text, IsName(text), NEW t, Seven(t),
         NEW r \in Seq(Byte), Len(r) = 16, HasBytes(r, 16, Padded(text, 9) \o t)
  PROVE  /\ DecodeName(SubSeq(r, 1, 9)) = text
         /\ SubSeq(r, 10, 16) \in Seq(Byte) /\ Len(SubSeq(r, 10, 16)) = 7
         /\ \A i \in 1..7 : SubSeq(r, 10, 16)[i] = t[i]
<1> DEFINE p == Padded(text, 9)
           d == SubSeq(r, 1, 9)
           a == SubSeq(r, 10, 16)
<1>1. p = [i \in 1..9 |-> p[i]]
  BY DEF Padded
<1>2. /\ d \in Seq(Byte) /\ Len(d) = 9 /\ \A i \in 1..9 : d[i] = r[i]
      /\ a \in Seq(Byte) /\ Len(a) = 7 /\ \A i \in 1..7 : a[i] = r[9 + i]
  BY RestIs
<1> HIDE DEF p, d, a
<1>3. \A k \in 1..(9 + 7) : (p \o t)[k] = IF k <= 9 THEN p[k] ELSE t[k - 9]
  BY <1>1, BytesJoin DEF Seven
<1>a. \A k \in 1..16 : r[k] = IF k <= 9 THEN p[k] ELSE t[k - 9]
  <2> SUFFICES ASSUME NEW k \in 1..16 PROVE r[k] = IF k <= 9 THEN p[k] ELSE t[k - 9]
    OBVIOUS
  <2>1. k \in 1..(9 + 7)
    OBVIOUS
  <2>2. (p \o t)[k] = IF k <= 9 THEN p[k] ELSE t[k - 9]
    BY <1>3, <2>1
  <2>3. r[k] = (p \o t)[k]
    BY DEF p, HasBytes
  <2> QED
    BY <2>2, <2>3
<1>4. ASSUME NEW i \in 1..9 PROVE d[i] = Padded(text, 9)[i]
  <2>1. i \in 1..16 /\ i <= 9
    OBVIOUS
  <2>2. r[i] = p[i]
    BY <1>a, <2>1
  <2>3. d[i] = r[i]
    BY <1>2
  <2> QED
    BY <2>2, <2>3 DEF p
<1>5. ASSUME NEW i \in 1..7 PROVE a[i] = t[i]
  <2>1. 9 + i \in 1..16 /\ ~(9 + i <= 9) /\ 9 + i - 9 = i
    OBVIOUS
  <2> QED
    BY <1>2, <1>a, <2>1
<1>6. DecodeName(d) = text
  BY <1>2, <1>4, NameIsRead
<1> QED
  BY <1>2, <1>5, <1>6 DEF d, a

\* A zone's options and sensitivity, from the bits of its fourth byte.
LEMMA ZoneOptionsAreRead ==
  ASSUME NEW on, NEW a \in Seq(Byte), Len(a) = 7, a[4] = Sum8(on, ZoneBits3)
  PROVE  /\ AllowsBypass(a) <=> "bypass" \in on
         /\ SirenPulsed(a) <=> "pulsed" \in on
         /\ Chime(a) <=> "chime" \in on
         /\ OpenDoor(a) <=> "open_door" \in on
         /\ Level(a[4])
              = 8 * Has(on, "minimum") + 16 * Has(on, "medium") + 32 * Has(on, "maximum")
<1>1. PICK b1 \in {0, 1}, b4 \in {0, 1}, b8 \in {0, 1}, b16 \in {0, 1}, b32 \in {0, 1},
           b64 \in {0, 1}, b128 \in {0, 1} :
        /\ b1 = Has(on, "bypass") /\ b4 = Has(on, "pulsed") /\ b8 = Has(on, "minimum")
        /\ b16 = Has(on, "medium") /\ b32 = Has(on, "maximum") /\ b64 = Has(on, "chime")
        /\ b128 = Has(on, "open_door")
  BY HasIs
<1>2. a[4] = b1 + 4 * b4 + 8 * b8 + 16 * b16 + 32 * b32 + 64 * b64 + 128 * b128
  BY <1>1, SumOfSeven
<1> DEFINE high == b16 + 2 * b32 + 4 * b64 + 8 * b128
           low == b1 + 4 * b4 + 8 * b8
<1>0. PICK b2 \in {0, 1} : b2 = 0
  OBVIOUS
<1>3. high \in Nat /\ OfBits(a[4], b1, b2, b4, b8, high)
  BY <1>0, <1>2 DEF OfBits
<1>4. low \in Nat /\ low < 16 /\ OverBits(a[4], low, b16, b32, b64, b128) /\ low \div 8 = b8
  BY <1>2 DEF OverBits
<1> HIDE DEF high, low
<1>5. (Bit(a[4], 1) <=> b1 = 1) /\ (Bit(a[4], 4) <=> b4 = 1)
  BY <1>3, FourBits
<1>6. /\ Bit(a[4], 64) <=> b64 = 1
      /\ Bit(a[4], 128) <=> b128 = 1
      /\ Level(a[4]) = 8 * (low \div 8) + 16 * b16 + 32 * b32
  <2>1. PICK x : x = a[4]
    OBVIOUS
  <2>2. OverBits(x, low, b16, b32, b64, b128)
    BY <1>4, <2>1
  <2>3. /\ Bit(x, 64) <=> b64 = 1
        /\ Bit(x, 128) <=> b128 = 1
        /\ Level(x) = 8 * (low \div 8) + 16 * b16 + 32 * b32
    <3>1. low \in Nat /\ low < 16
      BY <1>4
    <3>2. Bit(x, 64) <=> b64 = 1
      BY <2>2, <3>1, HighBits
    <3>3. Bit(x, 128) <=> b128 = 1
      BY <2>2, <3>1, HighBits
    <3>4. Level(x) = 8 * (low \div 8) + 16 * b16 + 32 * b32
      BY <2>2, <3>1, HighBits
    <3> QED
      BY <3>2, <3>3, <3>4
  <2> QED
    BY <2>1, <2>3
<1>7. /\ AllowsBypass(a) <=> Bit(a[4], 1)
      /\ SirenPulsed(a) <=> Bit(a[4], 4)
      /\ Chime(a) <=> Bit(a[4], 64)
      /\ OpenDoor(a) <=> Bit(a[4], 128)
  BY DEF AllowsBypass, SirenPulsed, Chime, OpenDoor, Flag, ALLOWS_BYPASS_MASK, SIREN_PULSED_MASK,
         CHIME_MASK, OPEN_DOOR_MASK
<1>8. /\ b1 = 1 <=> "bypass" \in on
      /\ b4 = 1 <=> "pulsed" \in on
      /\ b64 = 1 <=> "chime" \in on
      /\ b128 = 1 <=> "open_door" \in on
  BY <1>1, HasIs
<1> QED
  BY <1>1, <1>4, <1>5, <1>6, <1>7, <1>8

\* Four numbers of partitions or outputs, and four flags, of one byte.
LEMMA NumbersAndFlags ==
  ASSUME NEW S, NEW on, NEW x, x = Sum8(S, ZoneBits4) + Sum8(on, ZoneBits4o)
  PROVE  /\ Bit(x, 1) <=> 1 \in S
         /\ Bit(x, 2) <=> 2 \in S
         /\ Bit(x, 4) <=> 3 \in S
         /\ Bit(x, 8) <=> 4 \in S
         /\ Bit(x, 16) <=> "stay" \in on
         /\ Bit(x, 32) <=> "smart" \in on
         /\ Bit(x, 64) <=> "silent" \in on
         /\ Bit(x, 128) <=> "auto" \in on
<1>1. PICK b1 \in {0, 1}, b2 \in {0, 1}, b4 \in {0, 1}, b8 \in {0, 1} :
        b1 = Has(S, 1) /\ b2 = Has(S, 2) /\ b4 = Has(S, 3) /\ b8 = Has(S, 4)
  BY HasIs
<1>2. PICK b16 \in {0, 1}, b32 \in {0, 1}, b64 \in {0, 1}, b128 \in {0, 1} :
        b16 = Has(on, "stay") /\ b32 = Has(on, "smart") /\ b64 = Has(on, "silent")
        /\ b128 = Has(on, "auto")
  BY HasIs
<1>3. Sum8(S, ZoneBits4) = b1 + 2 * b2 + 4 * b4 + 8 * b8
  <2>1. Sum8(S, ZoneBits4) = 1 * Has(S, 1) + 2 * Has(S, 2) + 4 * Has(S, 3) + 8 * Has(S, 4)
    <3>1. Len(ZoneBits4) = 4 /\ ZoneBits4[1] = <<1, 1>> /\ ZoneBits4[2] = <<2, 2>>
          /\ ZoneBits4[3] = <<3, 4>> /\ ZoneBits4[4] = <<4, 8>>
      BY DEF ZoneBits4
    <3> QED
      BY <3>1, SumOfFour
  <2> QED
    BY <1>1, <2>1
<1>4. Sum8(on, ZoneBits4o) = 16 * b16 + 32 * b32 + 64 * b64 + 128 * b128
  <2>1. Sum8(on, ZoneBits4o) = 16 * Has(on, "stay") + 32 * Has(on, "smart") + 64 * Has(on, "silent")
                               + 128 * Has(on, "auto")
    <3>1. Len(ZoneBits4o) = 4 /\ ZoneBits4o[1] = <<"stay", 16>> /\ ZoneBits4o[2] = <<"smart", 32>>
          /\ ZoneBits4o[3] = <<"silent", 64>> /\ ZoneBits4o[4] = <<"auto", 128>>
      BY DEF ZoneBits4o
    <3> QED
      BY <3>1, SumOfFour
  <2> QED
    BY <1>2, <2>1
<1> DEFINE high == b16 + 2 * b32 + 4 * b64 + 8 * b128
           low == b1 + 2 * b2 + 4 * b4 + 8 * b8
<1>5. high \in Nat /\ OfBits(x, b1, b2, b4, b8, high)
  BY <1>3, <1>4 DEF OfBits
<1>6. low \in Nat /\ low < 16 /\ OverBits(x, low, b16, b32, b64, b128)
  BY <1>3, <1>4 DEF OverBits
<1> HIDE DEF high, low
<1>7. (Bit(x, 1) <=> b1 = 1) /\ (Bit(x, 2) <=> b2 = 1) /\ (Bit(x, 4) <=> b4 = 1)
      /\ (Bit(x, 8) <=> b8 = 1)
  BY <1>5, FourBits
<1>8. (Bit(x, 16) <=> b16 = 1) /\ (Bit(x, 32) <=> b32 = 1) /\ (Bit(x, 64) <=> b64 = 1)
      /\ (Bit(x, 128) <=> b128 = 1)
  BY <1>6, HighBits
<1>9. /\ b1 = 1 <=> 1 \in S
      /\ b2 = 1 <=> 2 \in S
      /\ b4 = 1 <=> 3 \in S
      /\ b8 = 1 <=> 4 \in S
  BY <1>1, HasIs
<1>10. /\ b16 = 1 <=> "stay" \in on
       /\ b32 = 1 <=> "smart" \in on
       /\ b64 = 1 <=> "silent" \in on
       /\ b128 = 1 <=> "auto" \in on
  BY <1>2, HasIs
<1> QED
  BY <1>7, <1>8, <1>9, <1>10

\* The numbers whose bits are set.
LowBits(x, S) ==
  /\ Bit(x, 1) <=> 1 \in S
  /\ Bit(x, 2) <=> 2 \in S
  /\ Bit(x, 4) <=> 3 \in S
  /\ Bit(x, 8) <=> 4 \in S

\* So are they read.
LEMMA NumbersAreRead ==
  ASSUME NEW a, NEW i \in Nat, Len(a) > i, NEW S \in SUBSET (1..4),
         LowBits(a[i + 1], S)
  PROVE  {n \in 1..4 : Flag(a, i, 2^(n - 1))} = S
<1>1. ASSUME NEW n \in 1..4 PROVE Flag(a, i, 2^(n - 1)) <=> n \in S
  <2>1. CASE n = 1
    BY <2>1 DEF Flag, LowBits
  <2>2. CASE n = 2
    BY <2>2 DEF Flag, LowBits
  <2>3. CASE n = 3
    BY <2>3 DEF Flag, LowBits
  <2>4. CASE n = 4
    BY <2>4 DEF Flag, LowBits
  <2> QED
    BY <2>1, <2>2, <2>3, <2>4
<1> QED
  BY <1>1

\* Seven attributes are not none.
LEMMA NotEmpty == \A a \in Seq(Byte) : Len(a) = 7 => a # <<>>
<1>1. SUFFICES ASSUME NEW a \in Seq(Byte), Len(a) = 7, a = <<>> PROVE FALSE
  OBVIOUS
<1>2. Len(a) = 0
  BY <1>1
<1> QED
  BY <1>1, <1>2

\* The kind of a zone, whose byte also says that the zone is on.
LEMMA KindIsRead == \A n \in 0..15 : 16 + n # 0 /\ (16 + n) % 16 = n
OBVIOUS

\* A zone's record tells what was set of it.
LEMMA ZoneIsTold ==
  ASSUME NEW z, IsZone(z), NEW r \in Seq(Byte), Len(r) = 16, HasBytes(r, 16, ZoneBytes(z))
  PROVE  ZoneTold(ZoneRecord(r)) = z
<1> DEFINE on == z.options \cup {z.sensitivity}
           kind == IF z.type = None THEN 0 ELSE 16 + z.type
           flags3 == Sum8(on, ZoneBits3)
           flags4 == Sum8(z.partitions, ZoneBits4) + Sum8(z.options, ZoneBits4o)
           t == <<kind, 255, 255, flags3, flags4, 255, 255>>
           a == SubSeq(r, 10, 16)
           name == DecodeName(SubSeq(r, 1, 9))
<1>1. Seven(t) /\ t[1] = kind /\ t[4] = flags3 /\ t[5] = flags4
  BY DEF Seven
<1>2. IsName(z.name) /\ HasBytes(r, 16, Padded(z.name, 9) \o t)
  <2>1. IsName(z.name)
    BY DEF IsZone
  <2>3. ZoneBytes(z) = Padded(z.name, 9) \o t
    BY DEF ZoneBytes
  <2> HIDE DEF t
  <2> QED
    BY <2>1, <2>3
<1>3. name = z.name /\ a \in Seq(Byte) /\ Len(a) = 7 /\ \A i \in 1..7 : a[i] = t[i]
  <2> HIDE DEF t
  <2> QED
    BY <1>1, <1>2, NamedRecord
<1>4. ZoneRecord(r) = [name |-> name, attributes |-> a]
  BY DEF ZoneRecord, NAME_LENGTH
<1> HIDE DEF a, name, t
<1>5. a[1] = kind /\ a[4] = flags3 /\ a[5] = flags4
  BY <1>1, <1>3
<1>6. ZoneTypeIndex(a) = z.type
  <2>1. z.type \in 0..15 \/ z.type = None
    BY DEF IsZone
  <2>2. a # <<>>
    BY <1>3, NotEmpty, Zenon
  <2>3. None \notin 0..15
    BY NoneAssumption DEF Byte
  <2>4. CASE z.type = None
    BY <1>5, <2>4 DEF ZoneTypeIndex, Enabled
  <2>5. CASE z.type \in 0..15
    <3>1. a[1] = 16 + z.type
      BY <1>5, <2>3, <2>5
    <3>2. a[1] # 0 /\ a[1] % 16 = z.type
      BY <2>5, <3>1, KindIsRead, Zenon
    <3> QED
      BY <2>2, <3>2 DEF ZoneTypeIndex, Enabled
  <2> QED
    BY <2>1, <2>4, <2>5
<1> HIDE DEF kind
<1>7. /\ AllowsBypass(a) <=> "bypass" \in on
      /\ SirenPulsed(a) <=> "pulsed" \in on
      /\ Chime(a) <=> "chime" \in on
      /\ OpenDoor(a) <=> "open_door" \in on
      /\ Level(a[4]) = 8 * Has(on, "minimum") + 16 * Has(on, "medium") + 32 * Has(on, "maximum")
  BY <1>3, <1>5, ZoneOptionsAreRead
<1>8. /\ Bit(a[5], 1) <=> 1 \in z.partitions
      /\ Bit(a[5], 2) <=> 2 \in z.partitions
      /\ Bit(a[5], 4) <=> 3 \in z.partitions
      /\ Bit(a[5], 8) <=> 4 \in z.partitions
      /\ Bit(a[5], 16) <=> "stay" \in z.options
      /\ Bit(a[5], 32) <=> "smart" \in z.options
      /\ Bit(a[5], 64) <=> "silent" \in z.options
      /\ Bit(a[5], 128) <=> "auto" \in z.options
  BY <1>5, NumbersAndFlags
<1>9. ZonePartitions(a) = z.partitions
  <2>1. z.partitions \in SUBSET (1..4) /\ 4 \in Nat /\ Len(a) > 4
    BY <1>3 DEF IsZone
  <2>3. LowBits(a[4 + 1], z.partitions)
    BY <1>8 DEF LowBits
  <2>2. {n \in 1..4 : Flag(a, 4, 2^(n - 1))} = z.partitions
    BY <2>1, <2>3, NumbersAreRead
  <2> QED
    BY <2>2, Zenon DEF ZonePartitions, MAX_PARTITIONS
<1>10. /\ Stay(a) <=> "stay" \in z.options
       /\ Smart(a) <=> "smart" \in z.options
       /\ Silent(a) <=> "silent" \in z.options
       /\ AutoBypass(a) <=> "auto" \in z.options
  BY <1>3, <1>8 DEF Stay, Smart, Silent, AutoBypass, Flag, STAY_MASK, SMART_MASK, SILENT_MASK,
                        AUTO_BYPASS_MASK
<1>11. /\ AllowsBypass(a) <=> "bypass" \in z.options
       /\ SirenPulsed(a) <=> "pulsed" \in z.options
       /\ Chime(a) <=> "chime" \in z.options
       /\ OpenDoor(a) <=> "open_door" \in z.options
  <2>1. z.sensitivity \notin {"bypass", "pulsed", "chime", "open_door"}
    BY SettingsAssumption DEF IsZone, Levels, ZoneFlags
  <2> QED
    BY <1>7, <2>1
<1>12. Sensitivity(a) = CASE z.sensitivity = "minimum" -> 8
                          [] z.sensitivity = "medium" -> 16
                          [] z.sensitivity = "maximum" -> 32
                          [] OTHER -> None
  <2>1. z.sensitivity \in Levels \cup {None} /\ None \notin Levels
    BY SettingsAssumption DEF IsZone
  <2>2. "minimum" \notin z.options /\ "medium" \notin z.options /\ "maximum" \notin z.options
    BY DEF IsZone, ZoneFlags
  <2>3. Sensitivity(a) = IF Level(a[4]) \in {8, 16, 32} THEN Level(a[4]) ELSE None
    BY <1>3 DEF Sensitivity, Level, ZoneSensitivity
  <2>4. CASE z.sensitivity = "minimum"
    <3>1. Level(a[4]) = 8
      BY <1>7, <2>2, <2>4 DEF Has
    <3> QED
      BY <2>3, <2>4, <3>1
  <2>5. CASE z.sensitivity = "medium"
    <3>1. Level(a[4]) = 16
      BY <1>7, <2>2, <2>5 DEF Has
    <3> QED
      BY <2>3, <2>5, <3>1
  <2>6. CASE z.sensitivity = "maximum"
    <3>1. Level(a[4]) = 32
      BY <1>7, <2>2, <2>6 DEF Has
    <3> QED
      BY <2>3, <2>6, <3>1
  <2>7. CASE z.sensitivity = None
    <3>1. "minimum" \notin on /\ "medium" \notin on /\ "maximum" \notin on
      BY <2>1, <2>2, <2>7 DEF Levels
    <3>2. Level(a[4]) = 0
      BY <1>7, <3>1 DEF Has
    <3>3. None # "minimum" /\ None # "medium" /\ None # "maximum"
      BY <2>1 DEF Levels
    <3> QED
      BY <2>3, <2>7, <3>2, <3>3
  <2> QED
    BY <2>1, <2>4, <2>5, <2>6, <2>7 DEF Levels
<1> DEFINE levels == [minimum |-> 8, medium |-> 16, maximum |-> 32]
           level == IF Sensitivity(a) = None THEN None
                    ELSE CHOOSE l \in DOMAIN levels : levels[l] = Sensitivity(a)
<1>13. level = z.sensitivity
  <2>1. z.sensitivity \in Levels \cup {None} /\ None \notin Levels
    BY SettingsAssumption DEF IsZone
  <2>2. None \notin {8, 16, 32}
    BY NoneAssumption DEF Byte
  <2>3. DOMAIN levels = {"minimum", "medium", "maximum"} /\ levels["minimum"] = 8
        /\ levels["medium"] = 16
        /\ levels["maximum"] = 32
    OBVIOUS
  <2> HIDE DEF levels
  <2>4. CASE z.sensitivity \in Levels
    <3>1. Sensitivity(a) = levels[z.sensitivity] /\ z.sensitivity \in DOMAIN levels
      BY <1>12, <2>3, <2>4 DEF Levels
    <3>2. \A l \in DOMAIN levels : levels[l] = Sensitivity(a) => l = z.sensitivity
      BY <2>3, <3>1
    <3>3. Sensitivity(a) # None
      BY <2>2, <2>3, <3>1
    <3> QED
      BY <3>1, <3>2, <3>3
  <2>5. CASE z.sensitivity = None
    <3>1. Sensitivity(a) = None
      BY <1>12, <2>1, <2>5 DEF Levels
    <3> QED
      BY <2>5, <3>1
  <2> QED
    BY <2>1, <2>4, <2>5
<1> DEFINE flags == {<<"bypass", AllowsBypass(a)>>, <<"pulsed", SirenPulsed(a)>>, <<"chime", Chime(a)>>,
                     <<"open_door", OpenDoor(a)>>, <<"stay", Stay(a)>>, <<"smart", Smart(a)>>,
                     <<"silent", Silent(a)>>, <<"auto", AutoBypass(a)>>}
           told == {f[1] : f \in {f \in flags : f[2]}}
<1>14. told = z.options
  <2>1. z.options \subseteq ZoneFlags
    BY DEF IsZone
  <2>2. ASSUME NEW x \in told PROVE x \in z.options
    <3>1. PICK f \in flags : f[2] /\ x = f[1]
      OBVIOUS
    <3> QED
      BY <1>10, <1>11, <3>1
  <2>3. ASSUME NEW x \in z.options PROVE x \in told
    <3>1. \E f \in flags : f[2] /\ f[1] = x
      BY <1>10, <1>11, <2>1 DEF ZoneFlags
    <3> QED
      BY <3>1
  <2> QED
    BY <2>2, <2>3
<1> HIDE DEF told, level, levels
<1> QED
  BY <1>3, <1>4, <1>6, <1>9, <1>13, <1>14 DEF ZoneTold, told, level, levels, IsZone

\* A number of two digits is read back (_bcd_to_int).
LEMMA DigitsAreRead ==
  ASSUME NEW n \in Nat, n < 100
  PROVE  IsBcd(Bcd(n)) /\ BcdToInt(Bcd(n)) = n
<1>0. n \div 10 \in Nat /\ n % 10 \in Nat /\ n = 10 * (n \div 10) + (n % 10) /\ n % 10 < 10
      /\ n \div 10 < 10
  <2>1. n \div 10 \in Nat /\ n \div 10 < 10
    OBVIOUS
  <2>2. n % 10 \in 0..9
    OBVIOUS
  <2>3. n = 10 * (n \div 10) + (n % 10)
    OBVIOUS
  <2> QED
    BY <2>1, <2>2, <2>3
<1>1. PICK q \in Nat, m \in Nat : q = n \div 10 /\ m = n % 10 /\ n = 10 * q + m /\ m < 10 /\ q < 10
  BY <1>0
<1>2. PICK b \in Nat : b = Bcd(n) /\ b = 16 * q + m
  BY <1>1 DEF Bcd
<1>3. b \div 16 = q /\ b % 16 = m
  BY <1>1, <1>2
<1>4. IsBcd(b) /\ BcdToInt(b) = n
  BY <1>1, <1>3 DEF IsBcd, BcdToInt
<1> QED
  BY <1>2, <1>4

\* A time of day is read back (decode_bcd_time).
LEMMA TimeIsRead ==
  \A t \in (0..23) \X (0..59) : DecodeBcdTime(Bcd(t[1]), Bcd(t[2])) = t
<1> SUFFICES ASSUME NEW t \in (0..23) \X (0..59)
             PROVE  DecodeBcdTime(Bcd(t[1]), Bcd(t[2])) = t
  OBVIOUS
<1>1. t[1] \in Nat /\ t[1] < 100 /\ t[2] \in Nat /\ t[2] < 100 /\ t = <<t[1], t[2]>>
  OBVIOUS
<1>2. /\ IsBcd(Bcd(t[1])) /\ BcdToInt(Bcd(t[1])) = t[1]
      /\ IsBcd(Bcd(t[2])) /\ BcdToInt(Bcd(t[2])) = t[2]
  <2>1. PICK h \in Nat, m \in Nat : h = t[1] /\ m = t[2] /\ h < 100 /\ m < 100
    BY <1>1
  <2>2. IsBcd(Bcd(h)) /\ BcdToInt(Bcd(h)) = h /\ IsBcd(Bcd(m)) /\ BcdToInt(Bcd(m)) = m
    <3>1. \A n \in Nat : n < 100 => IsBcd(Bcd(n)) /\ BcdToInt(Bcd(n)) = n
      BY DigitsAreRead
    <3> QED
      BY <2>1, <3>1
  <2> QED
    BY <2>1, <2>2
<1> QED
  BY <1>1, <1>2 DEF DecodeBcdTime

\* So is a pulse's length (decode_pgm_duration).
LEMMA DurationIsRead ==
  \A s \in 1..55 \cup {60 * m : m \in 0..200} : DecodePgmDuration(DurationByte(s)) = s
<1> SUFFICES ASSUME NEW s \in 1..55 \cup {60 * m : m \in 0..200}
             PROVE  DecodePgmDuration(DurationByte(s)) = s
  OBVIOUS
<1>1. CASE s \in 1..55
  <2>1. s % 60 # 0 /\ 200 + s > 200 /\ 200 + s - 200 = s
    BY <1>1
  <2> QED
    BY <2>1 DEF DecodePgmDuration, DurationByte
<1>2. CASE s \in {60 * m : m \in 0..200}
  <2>1. PICK m \in 0..200 : s = 60 * m
    BY <1>2
  <2>2. s % 60 = 0 /\ s \div 60 = m /\ ~(m > 200) /\ m * 60 = s
    BY <2>1
  <2> QED
    BY <2>2 DEF DecodePgmDuration, DurationByte
<1> QED
  BY <1>1, <1>2

\* An output's record tells what was set of it.
LEMMA PgmIsTold ==
  ASSUME NEW g, IsPgm(g), NEW r \in Seq(Byte), Len(r) = 16, HasBytes(r, 16, PgmBytes(g))
  PROVE  PgmTold(PgmRecord(r)) = g
<1> DEFINE t == <<Bcd(g.on[1]), Bcd(g.on[2]), Bcd(g.off[1]), Bcd(g.off[2]), DurationByte(g.seconds),
                  g.function, 255>>
           a == SubSeq(r, 10, 16)
           name == DecodeName(SubSeq(r, 1, 9))
<1>1. Seven(t) /\ t[1] = Bcd(g.on[1]) /\ t[2] = Bcd(g.on[2]) /\ t[3] = Bcd(g.off[1])
      /\ t[4] = Bcd(g.off[2])
      /\ t[5] = DurationByte(g.seconds) /\ t[6] = g.function
  BY DEF Seven
<1>2. IsName(g.name) /\ HasBytes(r, 16, Padded(g.name, 9) \o t)
  <2>1. IsName(g.name)
    BY DEF IsPgm
  <2>2. PgmBytes(g) = Padded(g.name, 9) \o t
    BY DEF PgmBytes
  <2> HIDE DEF t
  <2> QED
    BY <2>1, <2>2
<1> HIDE DEF t
<1>3. name = g.name /\ a \in Seq(Byte) /\ Len(a) = 7 /\ \A i \in 1..7 : a[i] = t[i]
  BY <1>1, <1>2, NamedRecord
<1>4. PgmRecord(r) = [name |-> name, attributes |-> a]
  BY DEF PgmRecord, ZoneRecord, NAME_LENGTH
<1> HIDE DEF a, name
<1>5. a[1] = Bcd(g.on[1]) /\ a[2] = Bcd(g.on[2]) /\ a[3] = Bcd(g.off[1]) /\ a[4] = Bcd(g.off[2])
      /\ a[5] = DurationByte(g.seconds) /\ a[6] = g.function
  BY <1>1, <1>3
<1>6. g.on \in (0..23) \X (0..59) /\ g.off \in (0..23) \X (0..59)
      /\ g.seconds \in 1..55 \cup {60 * m : m \in 0..200} /\ g.function \in 0..25
  BY DEF IsPgm
<1>7. Len(a) >= 6 /\ Len(a) > 4 /\ Len(a) > 1 /\ Len(a) > 3
  BY <1>3
<1>8. OnAt(a) = g.on /\ OffAt(a) = g.off
  BY <1>5, <1>6, <1>7, TimeIsRead, Zenon DEF OnAt, OffAt
<1>9. DurationSeconds(a) = g.seconds
  BY <1>5, <1>6, <1>7, DurationIsRead, Zenon DEF DurationSeconds
<1>10. Function(a) = g.function
  BY <1>5, <1>6, <1>7, Zenon DEF Function, PgmFunction
<1>11. g = [name |-> g.name, on |-> g.on, off |-> g.off, seconds |-> g.seconds, function |-> g.function]
  BY DEF IsPgm
<1> QED
  BY <1>3, <1>4, <1>8, <1>9, <1>10, <1>11 DEF PgmTold

\* The bits of a user's second byte: four permissions and four outputs.
LEMMA PermissionBits ==
  ASSUME NEW may, NEW S, NEW x, x = Sum8(may, UserBits) + Sum8(S, UserPgmBits)
  PROVE  /\ Bit(x, 1) <=> "disarm" \in may
         /\ Bit(x, 2) <=> "forced_arm" \in may
         /\ Bit(x, 4) <=> "bypass_zones" \in may
         /\ Bit(x, 8) <=> 1 \in S
         /\ Bit(x, 16) <=> 2 \in S
         /\ Bit(x, 32) <=> 3 \in S
         /\ Bit(x, 64) <=> 4 \in S
         /\ Bit(x, 128) <=> "remote_access" \in may
<1>1. PICK b1 \in {0, 1}, b2 \in {0, 1}, b4 \in {0, 1}, b128 \in {0, 1} :
        b1 = Has(may, "disarm") /\ b2 = Has(may, "forced_arm") /\ b4 = Has(may, "bypass_zones")
        /\ b128 = Has(may, "remote_access")
  BY HasIs
<1>2. PICK b8 \in {0, 1}, b16 \in {0, 1}, b32 \in {0, 1}, b64 \in {0, 1} :
        b8 = Has(S, 1) /\ b16 = Has(S, 2) /\ b32 = Has(S, 3) /\ b64 = Has(S, 4)
  BY HasIs
<1>3. Sum8(may, UserBits) = b1 + 2 * b2 + 4 * b4 + 128 * b128
  <2>1. Sum8(may, UserBits) = 1 * Has(may, "disarm") + 2 * Has(may, "forced_arm")
                              + 4 * Has(may, "bypass_zones")
                              + 128 * Has(may, "remote_access")
    <3>1. Len(UserBits) = 4 /\ UserBits[1] = <<"disarm", 1>> /\ UserBits[2] = <<"forced_arm", 2>>
          /\ UserBits[3] = <<"bypass_zones", 4>> /\ UserBits[4] = <<"remote_access", 128>>
      BY DEF UserBits
    <3> QED
      BY <3>1, SumOfFour
  <2> QED
    BY <1>1, <2>1
<1>4. Sum8(S, UserPgmBits) = 8 * b8 + 16 * b16 + 32 * b32 + 64 * b64
  <2>1. Sum8(S, UserPgmBits) = 8 * Has(S, 1) + 16 * Has(S, 2) + 32 * Has(S, 3) + 64 * Has(S, 4)
    <3>1. Len(UserPgmBits) = 4 /\ UserPgmBits[1] = <<1, 8>> /\ UserPgmBits[2] = <<2, 16>>
          /\ UserPgmBits[3] = <<3, 32>> /\ UserPgmBits[4] = <<4, 64>>
      BY DEF UserPgmBits
    <3> QED
      BY <3>1, SumOfFour
  <2> QED
    BY <1>2, <2>1
<1> DEFINE high == b16 + 2 * b32 + 4 * b64 + 8 * b128
           low == b1 + 2 * b2 + 4 * b4 + 8 * b8
<1>5. high \in Nat /\ OfBits(x, b1, b2, b4, b8, high)
  BY <1>3, <1>4 DEF OfBits
<1>6. low \in Nat /\ low < 16 /\ OverBits(x, low, b16, b32, b64, b128)
  BY <1>3, <1>4 DEF OverBits
<1> HIDE DEF high, low
<1>7. (Bit(x, 1) <=> b1 = 1) /\ (Bit(x, 2) <=> b2 = 1) /\ (Bit(x, 4) <=> b4 = 1)
      /\ (Bit(x, 8) <=> b8 = 1)
  BY <1>5, FourBits
<1>8. (Bit(x, 16) <=> b16 = 1) /\ (Bit(x, 32) <=> b32 = 1) /\ (Bit(x, 64) <=> b64 = 1)
      /\ (Bit(x, 128) <=> b128 = 1)
  BY <1>6, HighBits
<1>9. /\ b1 = 1 <=> "disarm" \in may
      /\ b2 = 1 <=> "forced_arm" \in may
      /\ b4 = 1 <=> "bypass_zones" \in may
      /\ b128 = 1 <=> "remote_access" \in may
  BY <1>1, HasIs
<1>10. /\ b8 = 1 <=> 1 \in S
       /\ b16 = 1 <=> 2 \in S
       /\ b32 = 1 <=> 3 \in S
       /\ b64 = 1 <=> 4 \in S
  BY <1>2, HasIs
<1> QED
  BY <1>7, <1>8, <1>9, <1>10

\* The bits of the others: two permissions, one, and the partitions.
LEMMA OtherPermissionBits ==
  ASSUME NEW may, NEW S,
         NEW x, x = Sum8(may, <<<<"patrol", 1>>, <<"operate_fence", 2>>>>),
         NEW y, y = Sum8(may, <<<<"schedule_tasks", 128>>>>),
         NEW z, z = Sum8(S, ZoneBits4)
  PROVE  /\ Bit(x, 1) <=> "patrol" \in may
         /\ Bit(x, 2) <=> "operate_fence" \in may
         /\ Bit(y, 128) <=> "schedule_tasks" \in may
         /\ LowBits(z, S)
<1> DEFINE w == <<<<"patrol", 1>>, <<"operate_fence", 2>>>>
           u == <<<<"schedule_tasks", 128>>>>
<1>1. x = Has(may, "patrol") + 2 * Has(may, "operate_fence")
  <2>1. Len(w) = 2 /\ w[1] = <<"patrol", 1>> /\ w[2] = <<"operate_fence", 2>> /\ x = Sum8(may, w)
    OBVIOUS
  <2> HIDE DEF w
  <2>2. Sum8(may, w) = 1 * Has(may, "patrol") + 2 * Has(may, "operate_fence")
    BY <2>1, SumOfTwo
  <2>3. Has(may, "patrol") \in {0, 1}
    BY HasIs
  <2> QED
    BY <2>1, <2>2, <2>3
<1>2. y = 128 * Has(may, "schedule_tasks")
  <2>1. Len(u) = 1 /\ u[1] = <<"schedule_tasks", 128>> /\ y = Sum8(may, u)
    OBVIOUS
  <2> HIDE DEF u
  <2> QED
    BY <2>1, SumOfOne
<1>3. z = 1 * Has(S, 1) + 2 * Has(S, 2) + 4 * Has(S, 3) + 8 * Has(S, 4)
  <2>1. Len(ZoneBits4) = 4 /\ ZoneBits4[1] = <<1, 1>> /\ ZoneBits4[2] = <<2, 2>>
        /\ ZoneBits4[3] = <<3, 4>> /\ ZoneBits4[4] = <<4, 8>>
    BY DEF ZoneBits4
  <2> QED
    BY <2>1, SumOfFour
<1>4. (Bit(x, 1) <=> "patrol" \in may) /\ (Bit(x, 2) <=> "operate_fence" \in may)
  <2>1. PICK b1 \in {0, 1}, b2 \in {0, 1} : b1 = Has(may, "patrol") /\ b2 = Has(may, "operate_fence")
    BY HasIs
  <2>2. x = b1 + 2 * b2
    BY <1>1, <2>1
  <2>3. (Bit(x, 1) <=> b1 = 1) /\ (Bit(x, 2) <=> b2 = 1)
    BY <2>2 DEF Bit
  <2> QED
    BY <2>1, <2>3, HasIs
<1>5. Bit(y, 128) <=> "schedule_tasks" \in may
  <2>1. PICK b \in {0, 1} : b = Has(may, "schedule_tasks")
    BY HasIs
  <2>2. y = 128 * b
    BY <1>2, <2>1
  <2>3. Bit(y, 128) <=> b = 1
    BY <2>2 DEF Bit
  <2> QED
    BY <2>1, <2>3, HasIs
<1>6. LowBits(z, S)
  <2>1. PICK b1 \in {0, 1}, b2 \in {0, 1}, b4 \in {0, 1}, b8 \in {0, 1} :
          b1 = Has(S, 1) /\ b2 = Has(S, 2) /\ b4 = Has(S, 3) /\ b8 = Has(S, 4)
    BY HasIs
  <2>2. PICK high \in Nat : high = 0
    OBVIOUS
  <2>3. OfBits(z, b1, b2, b4, b8, high)
    BY <1>3, <2>1, <2>2 DEF OfBits
  <2>4. (Bit(z, 1) <=> b1 = 1) /\ (Bit(z, 2) <=> b2 = 1) /\ (Bit(z, 4) <=> b4 = 1)
      /\ (Bit(z, 8) <=> b8 = 1)
    BY <2>3, FourBits
  <2>5. /\ b1 = 1 <=> 1 \in S
        /\ b2 = 1 <=> 2 \in S
        /\ b4 = 1 <=> 3 \in S
        /\ b8 = 1 <=> 4 \in S
    BY <2>1, HasIs
  <2> QED
    BY <2>4, <2>5 DEF LowBits
<1> QED
  BY <1>4, <1>5, <1>6

\* The outputs whose bits are set.
PgmBitsOf(x, S) ==
  /\ Bit(x, 8) <=> 1 \in S
  /\ Bit(x, 16) <=> 2 \in S
  /\ Bit(x, 32) <=> 3 \in S
  /\ Bit(x, 64) <=> 4 \in S

\* So are they read.
LEMMA OutputsAreRead ==
  ASSUME NEW a, NEW i \in Nat, Len(a) > i, NEW S \in SUBSET (1..4), PgmBitsOf(a[i + 1], S)
  PROVE  {n \in 1..4 : Flag(a, i, 8 * 2^(n - 1))} = S
<1>1. ASSUME NEW n \in 1..4 PROVE Flag(a, i, 8 * 2^(n - 1)) <=> n \in S
  <2>1. CASE n = 1
    BY <2>1 DEF Flag, PgmBitsOf
  <2>2. CASE n = 2
    BY <2>2 DEF Flag, PgmBitsOf
  <2>3. CASE n = 3
    BY <2>3 DEF Flag, PgmBitsOf
  <2>4. CASE n = 4
    BY <2>4 DEF Flag, PgmBitsOf
  <2> QED
    BY <2>1, <2>2, <2>3, <2>4
<1> QED
  BY <1>1, Zenon

\* c has three members, or four.
Three(c) == c = [i \in 1..3 |-> c[i]]
Four(t) == t = [i \in 1..4 |-> t[i]]

\* The parts of a user's record: its name, its code, its four attributes.
LEMMA UserRecordIs ==
  ASSUME NEW text, IsName(text), NEW c, Three(c), NEW t, Four(t),
         NEW r \in Seq(Byte), Len(r) = 16, HasBytes(r, 16, Padded(text, 9) \o c \o t)
  PROVE  /\ DecodeName(SubSeq(r, 1, 9)) = text
         /\ \A i \in 1..3 : r[9 + i] = c[i]
         /\ Len(SubSeq(r, 13, 16)) = 4 /\ \A i \in 1..4 : SubSeq(r, 13, 16)[i] = t[i]
<1> DEFINE p == Padded(text, 9)
           pc == p \o c
<1>1. p = [i \in 1..9 |-> p[i]]
  BY DEF Padded
<1> HIDE DEF p
<1>2. \A k \in 1..(9 + 3) : pc[k] = IF k <= 9 THEN p[k] ELSE c[k - 9]
  BY <1>1, BytesJoin DEF Three
<1>3. pc = [i \in 1..12 |-> pc[i]]
  <2> DEFINE S == {p[i] : i \in 1..9} \cup {c[i] : i \in 1..3}
  <2>1. p \in Seq(S) /\ Len(p) = 9
    BY <1>1
  <2>2. c \in Seq(S) /\ Len(c) = 3
    BY DEF Three
  <2> HIDE DEF S
  <2>a. p \o c \in Seq(S) /\ Len(p \o c) = Len(p) + Len(c)
    BY <2>1, <2>2, ConcatProperties
  <2>3. p \o c \in Seq(S) /\ Len(p \o c) = 12
    BY <2>1, <2>2, <2>a
  <2> HIDE DEF pc
  <2>4. pc \in Seq(S) /\ Len(pc) = 12
    BY <2>3 DEF pc
  <2> QED
    BY <2>4
<1> HIDE DEF pc
<1>4. \A k \in 1..(12 + 4) : (pc \o t)[k] = IF k <= 12 THEN pc[k] ELSE t[k - 12]
  BY <1>3, BytesJoin DEF Four
<1>5. \A k \in 1..16 : r[k] = (pc \o t)[k]
  BY DEF p, pc, HasBytes
<1>6. ASSUME NEW k \in 1..16
      PROVE r[k] = IF k <= 9 THEN p[k] ELSE IF k <= 12 THEN c[k - 9] ELSE t[k - 12]
  <2>1. k \in 1..(12 + 4) /\ (k <= 12 => k \in 1..(9 + 3))
    OBVIOUS
  <2>a. (pc \o t)[k] = IF k <= 12 THEN pc[k] ELSE t[k - 12]
    BY <1>4, <2>1
  <2>b. r[k] = (pc \o t)[k]
    BY <1>5
  <2>2. r[k] = IF k <= 12 THEN pc[k] ELSE t[k - 12]
    BY <2>a, <2>b
  <2>3. k <= 12 => pc[k] = IF k <= 9 THEN p[k] ELSE c[k - 9]
    BY <1>2, <2>1
  <2> QED
    BY <2>2, <2>3
<1>7. SubSeq(r, 1, 9) \in Seq(Byte) /\ Len(SubSeq(r, 1, 9)) = 9
      /\ \A i \in 1..9 : SubSeq(r, 1, 9)[i] = r[i]
  BY RestIs
<1>8. Len(SubSeq(r, 13, 16)) = 4 /\ \A i \in 1..4 : SubSeq(r, 13, 16)[i] = r[12 + i]
  OBVIOUS
<1>9. DecodeName(SubSeq(r, 1, 9)) = text
  <2> DEFINE d == SubSeq(r, 1, 9)
  <2>1. ASSUME NEW i \in 1..9 PROVE d[i] = Padded(text, 9)[i]
    <3>1. i \in 1..16 /\ i <= 9
      OBVIOUS
    <3>2. r[i] = p[i]
      BY <1>6, <3>1
    <3>3. d[i] = r[i]
      BY <1>7
    <3> QED
      BY <3>2, <3>3 DEF p
  <2>2. d \in Seq(Byte) /\ Len(d) = 9
    BY <1>7
  <2> HIDE DEF d
  <2>3. DecodeName(d) = text
    BY <2>1, <2>2, NameIsRead
  <2> QED
    BY <2>3 DEF d
<1>10. ASSUME NEW i \in 1..3 PROVE r[9 + i] = c[i]
  <2>1. 9 + i \in 1..16 /\ ~(9 + i <= 9) /\ 9 + i <= 12 /\ 9 + i - 9 = i
    OBVIOUS
  <2> QED
    BY <1>6, <2>1
<1>11. ASSUME NEW i \in 1..4 PROVE SubSeq(r, 13, 16)[i] = t[i]
  <2>1. 12 + i \in 1..16 /\ ~(12 + i <= 9) /\ ~(12 + i <= 12) /\ 12 + i - 12 = i
    OBVIOUS
  <2>2. r[12 + i] = t[i]
    BY <1>6, <2>1
  <2> QED
    BY <1>8, <2>2
<1> QED
  BY <1>8, <1>9, <1>10, <1>11

\* A user's record tells what was set of the user, but for the code.
LEMMA UserIsTold ==
  ASSUME NEW u, IsUser(u), NEW r \in Seq(Byte), Len(r) = 16, HasBytes(r, 16, UserBytes(u))
  PROVE  UserTold(UserRecord(r)) = UserSet(u)
<1> DEFINE c == IF u.code = None THEN <<255, 255, 255>> ELSE u.code
           b1 == Sum8(u.may, <<<<"patrol", 1>>, <<"operate_fence", 2>>>>)
           b2 == Sum8(u.may, UserBits) + Sum8(u.pgms, UserPgmBits)
           b3 == Sum8(u.may, <<<<"schedule_tasks", 128>>>>)
           b4 == Sum8(u.arms, ZoneBits4)
           t == <<b1, b2, b3, b4>>
           a == SubSeq(r, 13, 16)
           name == DecodeName(SubSeq(r, 1, 9))
           coded == \E i \in 10..12 : r[i] # NAME_PAD
<1>1. Four(t) /\ t[1] = b1 /\ t[2] = b2 /\ t[3] = b3 /\ t[4] = b4
  BY DEF Four
<1>2. Three(c) /\ (u.code = None <=> \A k \in 1..3 : c[k] = 255)
  <2>1. CASE u.code = None
    BY <2>1 DEF Three
  <2>2. CASE u.code # None
    <3>1. c = u.code /\ u.code \in Seq(Byte) /\ Len(u.code) = 3 /\ \E k \in 1..3 : u.code[k] # 255
      BY <2>2 DEF IsUser
    <3>a. PICK x \in Seq(Byte) : x = u.code /\ Len(x) = 3
      BY <3>1
    <3>2. x = [i \in 1..3 |-> x[i]]
      BY <3>a
    <3>3. Three(x)
      BY <3>2, Zenon DEF Three
    <3>4. c = x /\ \E k \in 1..3 : x[k] # 255
      BY <3>1, <3>a
    <3> HIDE DEF c
    <3> QED
      BY <2>2, <3>3, <3>4
  <2> QED
    BY <2>1, <2>2
<1>3. HasBytes(r, 16, Padded(u.name, 9) \o c \o t)
  BY DEF UserBytes
<1>4. IsName(u.name) /\ u.may \subseteq UserFlags /\ u.pgms \in SUBSET (1..4)
      /\ u.arms \in SUBSET (1..4)
  BY DEF IsUser
<1> HIDE DEF t, c
<1>5. name = u.name /\ (\A i \in 1..3 : r[9 + i] = c[i]) /\ Len(a) = 4 /\ \A i \in 1..4 : a[i] = t[i]
  BY <1>1, <1>2, <1>3, <1>4, UserRecordIs
<1>6. UserRecord(r) = [name |-> name, has_code |-> coded, attributes |-> a]
  BY DEF UserRecord, NAME_LENGTH
<1> HIDE DEF name, a
<1>7. a[1] = b1 /\ a[2] = b2 /\ a[3] = b3 /\ a[4] = b4
  BY <1>1, <1>5
<1>8. coded <=> u.code # None
  <2>1. \A i \in 10..12 : i - 9 \in 1..3 /\ 9 + (i - 9) = i
    OBVIOUS
  <2>2. \A i \in 1..3 : 9 + i \in 10..12
    OBVIOUS
  <2>3. (\A i \in 10..12 : r[i] = 255) <=> \A k \in 1..3 : c[k] = 255
    BY <1>5, <2>1, <2>2
  <2> QED
    BY <1>2, <2>3 DEF NAME_PAD
<1> HIDE DEF coded, b1, b2, b3, b4
<1>9. /\ Bit(a[1], 1) <=> "patrol" \in u.may
      /\ Bit(a[1], 2) <=> "operate_fence" \in u.may
      /\ Bit(a[3], 128) <=> "schedule_tasks" \in u.may
      /\ LowBits(a[4], u.arms)
  BY <1>7, OtherPermissionBits DEF b1, b3, b4
<1>10. /\ Bit(a[2], 1) <=> "disarm" \in u.may
       /\ Bit(a[2], 2) <=> "forced_arm" \in u.may
       /\ Bit(a[2], 4) <=> "bypass_zones" \in u.may
       /\ Bit(a[2], 128) <=> "remote_access" \in u.may
       /\ PgmBitsOf(a[2], u.pgms)
  BY <1>7, PermissionBits DEF b2, PgmBitsOf
<1> DEFINE p == UserPermissions(a)
<1>11. p.pgms = u.pgms
  <2>1. 1 \in Nat /\ Len(a) > 1 /\ a[1 + 1] = a[2]
    BY <1>5
  <2>2. {n \in 1..4 : Flag(a, 1, 8 * 2^(n - 1))} = u.pgms
    BY <1>4, <1>10, <2>1, OutputsAreRead
  <2> QED
    BY <2>2 DEF UserPermissions, MAX_PGMS
<1>12. p.arm_partitions = u.arms
  <2>1. 3 \in Nat /\ Len(a) > 3 /\ a[3 + 1] = a[4]
    BY <1>5
  <2>2. {n \in 1..4 : Flag(a, 3, 2^(n - 1))} = u.arms
    BY <1>4, <1>9, <2>1, NumbersAreRead
  <2> QED
    BY <2>2 DEF UserPermissions, MAX_PARTITIONS
<1>13. /\ Flag(a, 0, 1) <=> "patrol" \in u.may
       /\ Flag(a, 0, 2) <=> "operate_fence" \in u.may
       /\ Flag(a, 2, 128) <=> "schedule_tasks" \in u.may
       /\ Flag(a, 1, 1) <=> "disarm" \in u.may
       /\ Flag(a, 1, 2) <=> "forced_arm" \in u.may
       /\ Flag(a, 1, 4) <=> "bypass_zones" \in u.may
       /\ Flag(a, 1, 128) <=> "remote_access" \in u.may
  BY <1>5, <1>9, <1>10 DEF Flag
<1>14. \A f \in UserFlags : p[f] <=> f \in u.may
  BY <1>13 DEF UserPermissions, UserFlags
<1>15. {f \in UserFlags : p[f]} = u.may
  BY <1>4, <1>14
<1>16. UserTold(UserRecord(r)) = [name |-> name, has_code |-> coded, may |-> {f \in UserFlags : p[f]},
                                  pgms |-> p.pgms, arms |-> p.arm_partitions]
  BY <1>6 DEF UserTold, UserFlags
<1> HIDE DEF p
<1>17. coded = (u.code # None)
  BY <1>8
<1> QED
  BY <1>5, <1>11, <1>12, <1>15, <1>16, <1>17 DEF UserSet

\* A transmitter's record tells its serial and its zone.
LEMMA WirelessIsTold ==
  ASSUME NEW w, IsWireless(w), NEW r \in Seq(Byte), Len(r) = 8, HasBytes(r, 8, WirelessBytes(w))
  PROVE  LET told == WirelessRecord(r)
         IN [serial |-> told.serial, zone |-> told.zone] = w
<1> DEFINE t == <<w.zone, 255, 255, 255>>
<1>0. w.serial \in Seq(Byte) /\ Len(w.serial) = 4 /\ w = [serial |-> w.serial, zone |-> w.zone]
  BY DEF IsWireless
<1>1. PICK s \in Seq(Byte) : s = w.serial /\ Len(s) = 4
  BY <1>0
<1>2. s = [i \in 1..4 |-> s[i]]
  BY <1>1
<1>3. t = [i \in 1..4 |-> t[i]] /\ t[1] = w.zone
  OBVIOUS
<1>4. WirelessBytes(w) = s \o t
  BY <1>1 DEF WirelessBytes
<1> HIDE DEF t
<1>5. \A k \in 1..(4 + 4) : (s \o t)[k] = IF k <= 4 THEN s[k] ELSE t[k - 4]
  BY <1>2, <1>3, BytesJoin
<1>6. ASSUME NEW k \in 1..8 PROVE r[k] = IF k <= 4 THEN s[k] ELSE t[k - 4]
  <2>1. k \in 1..(4 + 4)
    OBVIOUS
  <2>2. r[k] = (s \o t)[k]
    BY <1>4 DEF HasBytes
  <2> QED
    BY <1>5, <2>1, <2>2
<1>7. r[5] = w.zone
  <2>1. 5 \in 1..8 /\ ~(5 <= 4) /\ 5 - 4 = 1
    OBVIOUS
  <2> QED
    BY <1>3, <1>6, <2>1
<1>8. \A i \in 1..4 : r[i] = s[i]
  <2>1. \A i \in 1..4 : i \in 1..8 /\ i <= 4
    OBVIOUS
  <2> QED
    BY <1>6, <2>1
<1>9. SubSeq(r, 1, 4) = s
  <2>1. PICK from \in Nat : from = 0
    OBVIOUS
  <2>2. from + Len(s) <= Len(r) /\ \A i \in 1..Len(s) : r[from + i] = s[i]
    BY <1>1, <1>8, <2>1
  <2>3. SubSeq(r, from + 1, from + Len(s)) = s
    BY <2>2, StretchIs
  <2>4. from + 1 = 1 /\ from + Len(s) = 4
    BY <1>1, <2>1
  <2> QED
    BY <2>3, <2>4
<1> QED
  BY <1>0, <1>1, <1>7, <1>9 DEF WirelessRecord

\* A holiday's record tells its day and month.
LEMMA HolidayIsTold ==
  ASSUME NEW h \in (1..31) \X (1..12), NEW r, HasBytes(r, 2, HolidayBytes(h))
  PROVE  HolidayFormatted(HolidayRecord(r)) = h
<1>1. r[1] = Bcd(h[1]) /\ r[2] = Bcd(h[2])
  <2>1. 1 \in 1..2 /\ 2 \in 1..2 /\ HolidayBytes(h)[1] = Bcd(h[1]) /\ HolidayBytes(h)[2] = Bcd(h[2])
    BY DEF HolidayBytes
  <2> QED
    BY <2>1 DEF HasBytes
<1>2. PICK d \in Nat, m \in Nat :
        d = h[1] /\ m = h[2] /\ d < 100 /\ m < 100 /\ d \in 1..31 /\ m \in 1..12 /\ h = <<d, m>>
  OBVIOUS
<1>3. BcdToInt(Bcd(d)) = d /\ BcdToInt(Bcd(m)) = m
  <2>1. \A n \in Nat : n < 100 => IsBcd(Bcd(n)) /\ BcdToInt(Bcd(n)) = n
    BY DigitsAreRead
  <2> QED
    BY <1>2, <2>1
<1>4. HolidayRecord(r) = [day |-> d, month |-> m]
  BY <1>1, <1>2, <1>3 DEF HolidayRecord
<1> QED
  BY <1>2, <1>4 DEF HolidayFormatted

\* The timers' nine bytes tell the eight timers and the interval of the test.
LEMMA TimersAreTold ==
  ASSUME NEW timers \in [1..8 -> (0..254) \cup {None}], NEW autotest, IsAutotest(autotest),
         NEW r, HasBytes(r, 9, TimerBytes(timers, autotest)), NEW told, told = TimerSettings(r)
  PROVE  /\ told.timers = timers
         /\ AutotestTold(told) = autotest
<1> DEFINE first == [i \in 1..8 |-> TimerByte(timers[i])]
           unit == IF autotest = None THEN 255
                   ELSE autotest[1] + (IF autotest[2] = "minutes" THEN 128 ELSE 0)
           last == <<unit>>
<1>1. \A k \in 1..(8 + 1) : (first \o last)[k] = IF k <= 8 THEN first[k] ELSE last[k - 8]
  <2>1. first = [i \in 1..8 |-> first[i]] /\ last = [i \in 1..1 |-> last[i]]
    OBVIOUS
  <2> HIDE DEF first, last
  <2> QED
    BY <2>1, BytesJoin
<1>2. TimerBytes(timers, autotest) = first \o last
  BY DEF TimerBytes
<1>3. last[1] = unit /\ \A i \in 1..8 : first[i] = TimerByte(timers[i])
  OBVIOUS
<1> HIDE DEF first, last, unit
<1>4. ASSUME NEW k \in 1..9 PROVE r[k] = IF k <= 8 THEN first[k] ELSE last[k - 8]
  <2>1. k \in 1..(8 + 1)
    OBVIOUS
  <2>2. r[k] = (first \o last)[k]
    BY <1>2 DEF HasBytes
  <2> QED
    BY <1>1, <2>1, <2>2
<1>5. \A i \in 1..8 : r[i] = TimerByte(timers[i])
  <2>1. \A i \in 1..8 : i \in 1..9 /\ i <= 8
    OBVIOUS
  <2> QED
    BY <1>3, <1>4, <2>1
<1>6. r[9] = unit
  <2>1. 9 \in 1..9 /\ ~(9 <= 8) /\ 9 - 8 = 1
    OBVIOUS
  <2> QED
    BY <1>3, <1>4, <2>1
<1>7. None \notin Byte
  BY NoneAssumption
<1>8. \A i \in 1..8 : Timer(r[i]) = timers[i]
  <2> SUFFICES ASSUME NEW i \in 1..8 PROVE Timer(r[i]) = timers[i]
    OBVIOUS
  <2>1. timers[i] \in (0..254) \cup {None} /\ r[i] = TimerByte(timers[i])
    BY <1>5
  <2>2. CASE timers[i] = None
    BY <2>1, <2>2 DEF Timer, TimerByte
  <2>3. CASE timers[i] # None
    <3>1. timers[i] \in 0..254
      BY <2>1, <2>3
    <3>2. timers[i] # 255
      BY <3>1
    <3> QED
      BY <2>1, <2>3, <3>2 DEF Timer, TimerByte
  <2> QED
    BY <2>2, <2>3
<1>9. [i \in 1..8 |-> Timer(r[i])] = timers
  BY <1>8
<1>10. CASE autotest = None
  <2>1. 9 \in 1..9 /\ r[9] = 255
    BY <1>6, <1>10 DEF unit
  <2>2. TimerSettings(r).timers = timers /\ TimerSettings(r).autotest_interval = None
    BY <1>9, <2>1 DEF TimerSettings
  <2> QED
    BY <1>10, <2>2 DEF AutotestTold
<1>11. CASE autotest # None
  <2>1. PICK n \in 0..127, w \in {"minutes", "hours"} :
          autotest = <<n, w>> /\ ~(n = 127 /\ w = "minutes")
    BY <1>11 DEF IsAutotest
  <2>2. unit = n + (IF w = "minutes" THEN 128 ELSE 0)
    BY <1>11, <2>1 DEF unit
  <2>3. unit # 255 /\ unit % 128 = n /\ (Bit(unit, 128) <=> w = "minutes")
    <3>1. CASE w = "minutes"
      <4>1. unit = n + 128
        BY <2>2, <3>1
      <4>2. n # 127
        BY <2>1, <3>1
      <4> QED
        BY <2>1, <3>1, <4>1, <4>2 DEF Bit
    <3>2. CASE w = "hours"
      <4>1. unit = n
        BY <2>1, <2>2, <3>2
      <4> QED
        BY <2>1, <3>2, <4>1 DEF Bit
    <3> QED
      BY <2>1, <3>1, <3>2
  <2>4. TimerSettings(r) = [timers |-> timers, autotest_interval |-> n,
                            autotest_in_minutes |-> Bit(unit, 128)]
    <3>1. 9 \in 1..9 /\ r[9] # 255 /\ r[9] % 128 = n
      BY <1>6, <2>3
    <3>2. (r[9] # 255 /\ Bit(r[9], 128)) = Bit(unit, 128)
      <4>1. r[9] = unit /\ (r[9] # 255) = TRUE
        BY <1>6, <2>3
      <4>2. Bit(unit, 128) \in BOOLEAN
        BY DEF Bit
      <4> QED
        BY <4>1, <4>2, Zenon
    <3> QED
      BY <1>6, <1>9, <3>1, <3>2 DEF TimerSettings
  <2>5. n # None
    BY <1>7 DEF Byte
  <2>6. told.timers = timers /\ told.autotest_interval = n /\ told.autotest_in_minutes = Bit(unit, 128)
    BY <2>4
  <2>7. AutotestTold(told) = <<n, IF Bit(unit, 128) THEN "minutes" ELSE "hours">>
    BY <2>5, <2>6 DEF AutotestTold
  <2> QED
    BY <2>1, <2>3, <2>6, <2>7
<1> QED
  BY <1>10, <1>11

\* The byte of the zones' options tells which are on.
LEMMA OptionsAreTold ==
  ASSUME NEW on, on \subseteq {"end_of_line_resistor", "siren_on_short", "zone_doubling",
                                "wired_tamper"},
         NEW x, x = Sum8(on, OptionBits)
  PROVE  OptionsTold(GlobalZoneOptions(x)) = on
<1>1. PICK b1 \in {0, 1}, b2 \in {0, 1}, b4 \in {0, 1}, b8 \in {0, 1} :
        b1 = Has(on, "end_of_line_resistor") /\ b2 = Has(on, "siren_on_short")
        /\ b4 = Has(on, "zone_doubling")
        /\ b8 = Has(on, "wired_tamper")
  BY HasIs
<1>2. x = b1 + 2 * b2 + 4 * b4 + 8 * b8
  <2>1. Sum8(on, OptionBits) = 1 * Has(on, "end_of_line_resistor") + 2 * Has(on, "siren_on_short")
                               + 4 * Has(on, "zone_doubling") + 8 * Has(on, "wired_tamper")
    <3>1. Len(OptionBits) = 4 /\ OptionBits[1] = <<"end_of_line_resistor", 1>>
          /\ OptionBits[2] = <<"siren_on_short", 2>> /\ OptionBits[3] = <<"zone_doubling", 4>>
          /\ OptionBits[4] = <<"wired_tamper", 8>>
      BY DEF OptionBits
    <3> QED
      BY <3>1, SumOfFour
  <2> QED
    BY <1>1, <2>1
<1>3. PICK high \in Nat : high = 0
  OBVIOUS
<1>4. OfBits(x, b1, b2, b4, b8, high)
  BY <1>2, <1>3 DEF OfBits
<1>5. (Bit(x, 1) <=> b1 = 1) /\ (Bit(x, 2) <=> b2 = 1) /\ (Bit(x, 4) <=> b4 = 1)
      /\ (Bit(x, 8) <=> b8 = 1)
  BY <1>4, FourBits
<1>6. /\ Bit(x, 1) <=> "end_of_line_resistor" \in on
      /\ Bit(x, 2) <=> "siren_on_short" \in on
      /\ Bit(x, 4) <=> "zone_doubling" \in on
      /\ Bit(x, 8) <=> "wired_tamper" \in on
  BY <1>1, <1>5, HasIs
<1> DEFINE o == GlobalZoneOptions(x)
           names == {"end_of_line_resistor", "siren_on_short", "zone_doubling", "wired_tamper"}
<1>7. DOMAIN o = names
  BY DEF GlobalZoneOptions
<1>8. \A f \in names : o[f] <=> f \in on
  BY <1>6 DEF GlobalZoneOptions
<1> HIDE DEF o
<1>9. {f \in DOMAIN o : o[f]} = on
  BY <1>7, <1>8
<1> QED
  BY <1>9 DEF OptionsTold, o

-----------------------------------------------------------------------------
(* The tables of a block that holds the panel's bytes.                       *)

\* Block b is the panel's memory in its version v.
IsBlock(b, v) ==
  /\ v \in 1..Len(Image) /\ b.address \in Int /\ b.count = Len(b.data)
  /\ IsMemory(b.data, v, b.address)

\* The records that a parser finds in b: those that b covers, each with its bytes.
TableRead(b, table, size, max, records) ==
  /\ Held(b.data, b.address, table, size, max)
       = {n \in 1..max : Covers(b, table + (n - 1) * size, size)}
  /\ \A n \in 1..max : Covers(b, table + (n - 1) * size, size) /\ n \in DOMAIN records =>
       /\ RecordAt(b.data, b.address, table, size, n - 1) \in Seq(Byte)
       /\ Len(RecordAt(b.data, b.address, table, size, n - 1)) = size
       /\ HasBytes(RecordAt(b.data, b.address, table, size, n - 1), size, records[n])

\* So do they find them (_record_at).
LEMMA TableOfMemory ==
  ASSUME NEW v, NEW b, IsBlock(b, v), NEW table \in Int, NEW size \in Nat \ {0}, NEW max \in Nat,
         NEW records, KeepsRecords(v, table, size, records)
  PROVE  TableRead(b, table, size, max, records)
<1> DEFINE R(n) == RecordAt(b.data, b.address, table, size, n - 1)
           First(n) == table + (n - 1) * size
<1>0. b.address \in Int /\ b.count = Len(b.data) /\ IsMemory(b.data, v, b.address)
      /\ Len(b.data) \in Nat
  BY LenProperties DEF IsBlock, IsMemory
<1>a. PICK base \in Int : base = b.address
  BY <1>0
<1>b. PICK data : data = b.data
  OBVIOUS
<1>1. base = b.address /\ data = b.data
  BY <1>a, <1>b
<1>2. ASSUME NEW n \in 1..max
      PROVE  /\ IsRecord(R(n), v, data, base, First(n), size)
             /\ R(n) # <<>> <=> Covers(b, First(n), size)
  <2>0. PICK first \in Int : first = First(n)
    <3>1. n - 1 \in Int /\ size \in Int
      OBVIOUS
    <3>2. (n - 1) * size \in Int
      BY <3>1
    <3> QED
      BY <3>2
  <2>1. n \in Nat \ {0}
    OBVIOUS
  <2>2. IsRecord(RecordAt(data, base, table, size, n - 1), v, data, base, first, size)
    <3>1. IsMemory(data, v, base) /\ first = table + (n - 1) * size
      BY <1>0, <1>1, <2>0
    <3> QED
      BY <2>1, <3>1, RecordOfMemory
  <2>3. Covers(b, First(n), size) <=> base <= first /\ first + size <= base + Len(data)
    BY <1>0, <1>1, <2>0 DEF Covers, BlockEnd
  <2>4. ~(base <= first /\ first + size <= base + Len(data))
          => RecordAt(data, base, table, size, n - 1) = <<>>
    <3> DEFINE offset == table + (n - 1) * size - base
    <3>1. offset = first - base
      BY <2>0
    <3>2. ASSUME ~(base <= first /\ first + size <= base + Len(data))
          PROVE  offset < 0 \/ offset + size > Len(data)
      BY <1>0, <1>1, <3>1, <3>2
    <3> QED
      BY <3>2 DEF RecordAt
  <2> QED
    BY <1>1, <2>0, <2>2, <2>3, <2>4 DEF IsRecord
<1>3. Held(b.data, b.address, table, size, max)
        = {n \in 1..max : Covers(b, table + (n - 1) * size, size)}
  BY <1>2 DEF Held
<1>4. ASSUME NEW n \in 1..max, Covers(b, First(n), size), n \in DOMAIN records
      PROVE  R(n) \in Seq(Byte) /\ Len(R(n)) = size /\ HasBytes(R(n), size, records[n])
  <2>1. R(n) # <<>> /\ IsRecord(R(n), v, data, base, First(n), size)
    BY <1>2, <1>4
  <2>2. R(n) \in Seq(Byte) /\ Len(R(n)) = size /\ \A k \in 1..size : R(n)[k] = Cell(v, First(n) + k - 1)
    BY <2>1 DEF IsRecord
  <2>3. \A k \in 1..size : Cell(v, First(n) + k - 1) = records[n][k]
    BY <1>4, Zenon DEF KeepsRecords
  <2> QED
    BY <2>2, <2>3 DEF HasBytes
<1> QED
  BY <1>3, <1>4 DEF TableRead

-----------------------------------------------------------------------------
(* What each parser makes of such a block.                                   *)

\* The zones of a block are those that were set (parse_zones).
LEMMA ZonesAreTold ==
  ASSUME NEW v, NEW b, IsBlock(b, v), NEW parsed, parsed = ParseZones(b.data, b.address)
  PROVE  /\ DOMAIN parsed = {n \in 1..32 : Covers(b, ZoneAddress(n), 16)}
         /\ \A n \in DOMAIN parsed \cap DOMAIN Settings[v].zones :
              ZoneTold(parsed[n]) = Settings[v].zones[n]
<1> DEFINE set == Settings[v].zones
           table == 4096
           size == 16
           max == 32
           r(n) == RecordAt(b.data, b.address, table, size, n - 1)
<1>1. v \in 1..Len(Image) /\ DOMAIN set \subseteq 1..32 /\ \A n \in DOMAIN set : IsZone(set[n])
  BY SettingsAssumption DEF IsBlock, Installable
<1>2. PICK records : /\ KeepsRecords(v, table, size, records) /\ DOMAIN records = DOMAIN set
                     /\ \A n \in DOMAIN set : records[n] = ZoneBytes(set[n])
  <2>1. KeepsRecords(v, table, size, Each(ZoneBytes, set))
    BY <1>1, MemoryIs
  <2> HIDE DEF table
  <2> QED
    BY <2>1 DEF Each
<1>3. parsed = [n \in Held(b.data, b.address, table, size, max) |-> ZoneRecord(r(n))]
  BY DEF ParseZones, ZONE_BASE, ZONE_RECORD_SIZE, MAX_ZONES
<1>4. table \in Int /\ size \in Nat \ {0} /\ max \in Nat
  OBVIOUS
<1>5. \A n : ZoneAddress(n) = table + (n - 1) * size
  BY DEF ZoneAddress, ZONE_BASE, ZONE_RECORD_SIZE
<1> HIDE DEF table, size, max
<1>6. TableRead(b, table, size, max, records)
  BY <1>2, <1>4, TableOfMemory
<1>7. DOMAIN parsed = {n \in 1..max : Covers(b, ZoneAddress(n), size)}
  BY <1>3, <1>5, <1>6 DEF TableRead
<1>8. ASSUME NEW n \in DOMAIN parsed \cap DOMAIN set
      PROVE  ZoneTold(parsed[n]) = set[n]
  <2>1. /\ parsed[n] = ZoneRecord(r(n)) /\ r(n) \in Seq(Byte) /\ Len(r(n)) = size
        /\ HasBytes(r(n), size, ZoneBytes(set[n]))
    BY <1>2, <1>3, <1>5, <1>6, <1>7, <1>8 DEF TableRead
  <2>2. /\ r(n) \in Seq(Byte) /\ Len(r(n)) = 16 /\ HasBytes(r(n), 16, ZoneBytes(set[n]))
        /\ IsZone(set[n])
    BY <1>1, <1>8, <2>1 DEF size
  <2> QED
    BY <2>1, <2>2, ZoneIsTold
<1> QED
  BY <1>7, <1>8 DEF max, size

\* So are its outputs (parse_pgms).
LEMMA PgmsAreTold ==
  ASSUME NEW v, NEW b, IsBlock(b, v), NEW parsed, parsed = ParsePgms(b.data, b.address)
  PROVE  /\ DOMAIN parsed = {n \in 1..4 : Covers(b, PgmAddress(n), 16)}
         /\ \A n \in DOMAIN parsed \cap DOMAIN Settings[v].pgms :
              PgmTold(parsed[n]) = Settings[v].pgms[n]
<1> DEFINE set == Settings[v].pgms
           table == 448
           size == 16
           max == 4
           r(n) == RecordAt(b.data, b.address, table, size, n - 1)
<1>1. v \in 1..Len(Image) /\ DOMAIN set \subseteq 1..4 /\ \A n \in DOMAIN set : IsPgm(set[n])
  BY SettingsAssumption DEF IsBlock, Installable
<1>2. PICK records : /\ KeepsRecords(v, table, size, records) /\ DOMAIN records = DOMAIN set
                     /\ \A n \in DOMAIN set : records[n] = PgmBytes(set[n])
  <2>1. KeepsRecords(v, table, size, Each(PgmBytes, set))
    BY <1>1, MemoryIs
  <2> HIDE DEF table
  <2> QED
    BY <2>1 DEF Each
<1>3. parsed = [n \in Held(b.data, b.address, table, size, max) |-> PgmRecord(r(n))]
  BY DEF ParsePgms, PGM_BASE, REGION_FLAG_SIZE, PGM_RECORD_SIZE, MAX_PGMS
<1>4. table \in Int /\ size \in Nat \ {0} /\ max \in Nat
  OBVIOUS
<1>5. \A n : PgmAddress(n) = table + (n - 1) * size
  BY DEF PgmAddress, PGM_BASE, REGION_FLAG_SIZE, PGM_RECORD_SIZE
<1> HIDE DEF table, size, max
<1>6. TableRead(b, table, size, max, records)
  BY <1>2, <1>4, TableOfMemory
<1>7. DOMAIN parsed = {n \in 1..max : Covers(b, PgmAddress(n), size)}
  BY <1>3, <1>5, <1>6 DEF TableRead
<1>8. ASSUME NEW n \in DOMAIN parsed \cap DOMAIN set
      PROVE  PgmTold(parsed[n]) = set[n]
  <2>1. /\ parsed[n] = PgmRecord(r(n)) /\ r(n) \in Seq(Byte) /\ Len(r(n)) = size
        /\ HasBytes(r(n), size, PgmBytes(set[n]))
    BY <1>2, <1>3, <1>5, <1>6, <1>7, <1>8 DEF TableRead
  <2>2. /\ r(n) \in Seq(Byte) /\ Len(r(n)) = 16 /\ HasBytes(r(n), 16, PgmBytes(set[n]))
        /\ IsPgm(set[n])
    BY <1>1, <1>8, <2>1 DEF size
  <2> QED
    BY <2>1, <2>2, PgmIsTold
<1> QED
  BY <1>7, <1>8 DEF max, size

\* Its users, but for their codes (parse_users).
LEMMA UsersAreTold ==
  ASSUME NEW v, NEW b, IsBlock(b, v), NEW parsed, parsed = ParseUsers(b.data, b.address)
  PROVE  /\ DOMAIN parsed = {n \in 1..98 : Covers(b, UserAddress(n), 16)}
         /\ \A n \in DOMAIN parsed \cap DOMAIN Settings[v].users :
              UserTold(parsed[n]) = UserSet(Settings[v].users[n])
<1> DEFINE set == Settings[v].users
           table == 1408
           size == 16
           max == 98
           r(n) == RecordAt(b.data, b.address, table, size, n - 1)
<1>1. v \in 1..Len(Image) /\ DOMAIN set \subseteq 1..98 /\ \A n \in DOMAIN set : IsUser(set[n])
  BY SettingsAssumption DEF IsBlock, Installable
<1>2. PICK records : /\ KeepsRecords(v, table, size, records) /\ DOMAIN records = DOMAIN set
                     /\ \A n \in DOMAIN set : records[n] = UserBytes(set[n])
  <2>1. KeepsRecords(v, table, size, Each(UserBytes, set))
    BY <1>1, MemoryIs
  <2> HIDE DEF table
  <2> QED
    BY <2>1 DEF Each
<1>3. parsed = [n \in Held(b.data, b.address, table, size, max) |-> UserRecord(r(n))]
  BY DEF ParseUsers, USER_BASE, USER_RECORD_SIZE, MAX_USERS
<1>4. table \in Int /\ size \in Nat \ {0} /\ max \in Nat
  OBVIOUS
<1>5. \A n : UserAddress(n) = table + (n - 1) * size
  BY DEF UserAddress, USER_BASE, USER_RECORD_SIZE
<1> HIDE DEF table, size, max
<1>6. TableRead(b, table, size, max, records)
  BY <1>2, <1>4, TableOfMemory
<1>7. DOMAIN parsed = {n \in 1..max : Covers(b, UserAddress(n), size)}
  BY <1>3, <1>5, <1>6 DEF TableRead
<1>8. ASSUME NEW n \in DOMAIN parsed \cap DOMAIN set
      PROVE  UserTold(parsed[n]) = UserSet(set[n])
  <2>1. /\ parsed[n] = UserRecord(r(n)) /\ r(n) \in Seq(Byte) /\ Len(r(n)) = size
        /\ HasBytes(r(n), size, UserBytes(set[n]))
    BY <1>2, <1>3, <1>5, <1>6, <1>7, <1>8 DEF TableRead
  <2>2. /\ r(n) \in Seq(Byte) /\ Len(r(n)) = 16 /\ HasBytes(r(n), 16, UserBytes(set[n]))
        /\ IsUser(set[n])
    BY <1>1, <1>8, <2>1 DEF size
  <2> QED
    BY <2>1, <2>2, UserIsTold
<1> QED
  BY <1>7, <1>8 DEF max, size

\* The names of its partitions (parse_partitions).
LEMMA PartitionsAreTold ==
  ASSUME NEW v, NEW b, IsBlock(b, v), NEW parsed, parsed = ParsePartitions(b.data, b.address)
  PROVE  /\ DOMAIN parsed = {n \in 1..4 : Covers(b, PartitionAddress(n), 9)}
         /\ \A n \in DOMAIN parsed \cap DOMAIN Settings[v].partition_names :
              parsed[n].name = Settings[v].partition_names[n]
<1> DEFINE set == Settings[v].partition_names
           table == 112
           size == 9
           max == 4
           r(n) == RecordAt(b.data, b.address, table, size, n - 1)
<1>1. v \in 1..Len(Image) /\ DOMAIN set \subseteq 1..4 /\ \A n \in DOMAIN set : IsName(set[n])
  BY SettingsAssumption DEF IsBlock, Installable
<1>2. PICK records : /\ KeepsRecords(v, table, size, records) /\ DOMAIN records = DOMAIN set
                     /\ \A n \in DOMAIN set : records[n] = NameBytes(set[n])
  <2>1. KeepsRecords(v, table, size, Each(NameBytes, set))
    BY <1>1, MemoryIs
  <2> HIDE DEF table
  <2> QED
    BY <2>1 DEF Each, NameBytes
<1>3. parsed = [n \in Held(b.data, b.address, table, size, max) |-> [name |-> DecodeName(r(n))]]
  BY DEF ParsePartitions, PARTITION_NAMES_BASE, REGION_FLAG_SIZE, PARTITION_RECORD_SIZE, NAME_LENGTH,
          MAX_PARTITIONS
<1>4. table \in Int /\ size \in Nat \ {0} /\ max \in Nat
  OBVIOUS
<1>5. \A n : PartitionAddress(n) = table + (n - 1) * size
  BY DEF PartitionAddress, PARTITION_NAMES_BASE, REGION_FLAG_SIZE, PARTITION_RECORD_SIZE, NAME_LENGTH
<1> HIDE DEF table, size, max
<1>6. TableRead(b, table, size, max, records)
  BY <1>2, <1>4, TableOfMemory
<1>7. DOMAIN parsed = {n \in 1..max : Covers(b, PartitionAddress(n), size)}
  BY <1>3, <1>5, <1>6 DEF TableRead
<1>8. ASSUME NEW n \in DOMAIN parsed \cap DOMAIN set
      PROVE  parsed[n].name = set[n]
  <2>1. /\ parsed[n] = [name |-> DecodeName(r(n))] /\ r(n) \in Seq(Byte) /\ Len(r(n)) = size
        /\ HasBytes(r(n), size, NameBytes(set[n]))
    BY <1>2, <1>3, <1>5, <1>6, <1>7, <1>8 DEF TableRead
  <2>2. /\ r(n) \in Seq(Byte) /\ Len(r(n)) = 9 /\ HasBytes(r(n), 9, NameBytes(set[n]))
        /\ IsName(set[n])
    BY <1>1, <1>8, <2>1 DEF size
  <2>3. DecodeName(r(n)) = set[n]
    <3>1. \A i \in 1..9 : r(n)[i] = Padded(set[n], 9)[i]
      BY <2>2 DEF HasBytes, NameBytes
    <3> HIDE DEF r, set
    <3> QED
      BY <2>2, <3>1, NameIsRead
  <2> QED
    BY <2>1, <2>3
<1> QED
  BY <1>7, <1>8 DEF max, size

\* Its wireless devices (parse_wireless).
LEMMA DevicesAreTold ==
  ASSUME NEW v, NEW b, IsBlock(b, v), NEW parsed, parsed = ParseWireless(b.data, b.address)
  PROVE  /\ DOMAIN parsed = {n \in 1..32 : Covers(b, WirelessAddress(n), 8)}
         /\ \A n \in DOMAIN parsed \cap DOMAIN Settings[v].wireless :
              [serial |-> parsed[n].serial, zone |-> parsed[n].zone] = Settings[v].wireless[n]
<1> DEFINE set == Settings[v].wireless
           table == 6144
           size == 8
           max == 32
           r(n) == RecordAt(b.data, b.address, table, size, n - 1)
<1>1. v \in 1..Len(Image) /\ DOMAIN set \subseteq 1..32 /\ \A n \in DOMAIN set : IsWireless(set[n])
  BY SettingsAssumption DEF IsBlock, Installable
<1>2. PICK records : /\ KeepsRecords(v, table, size, records) /\ DOMAIN records = DOMAIN set
                     /\ \A n \in DOMAIN set : records[n] = WirelessBytes(set[n])
  <2>1. KeepsRecords(v, table, size, Each(WirelessBytes, set))
    BY <1>1, MemoryIs
  <2> HIDE DEF table
  <2> QED
    BY <2>1 DEF Each
<1>3. parsed = [n \in Held(b.data, b.address, table, size, max) |-> WirelessRecord(r(n))]
  BY DEF ParseWireless, WIRELESS_BASE, WIRELESS_RECORD_SIZE, MAX_WIRELESS
<1>4. table \in Int /\ size \in Nat \ {0} /\ max \in Nat
  OBVIOUS
<1>5. \A n : WirelessAddress(n) = table + (n - 1) * size
  BY DEF WirelessAddress, WIRELESS_BASE, WIRELESS_RECORD_SIZE
<1> HIDE DEF table, size, max
<1>6. TableRead(b, table, size, max, records)
  BY <1>2, <1>4, TableOfMemory
<1>7. DOMAIN parsed = {n \in 1..max : Covers(b, WirelessAddress(n), size)}
  BY <1>3, <1>5, <1>6 DEF TableRead
<1>8. ASSUME NEW n \in DOMAIN parsed \cap DOMAIN set
      PROVE  [serial |-> parsed[n].serial, zone |-> parsed[n].zone] = set[n]
  <2>1. /\ parsed[n] = WirelessRecord(r(n)) /\ r(n) \in Seq(Byte) /\ Len(r(n)) = size
        /\ HasBytes(r(n), size, WirelessBytes(set[n]))
    BY <1>2, <1>3, <1>5, <1>6, <1>7, <1>8 DEF TableRead
  <2>2. /\ r(n) \in Seq(Byte) /\ Len(r(n)) = 8 /\ HasBytes(r(n), 8, WirelessBytes(set[n]))
        /\ IsWireless(set[n])
    BY <1>1, <1>8, <2>1 DEF size
  <2> QED
    BY <2>1, <2>2, WirelessIsTold
<1> QED
  BY <1>7, <1>8 DEF max, size

\* Its holidays (parse_holidays).
LEMMA HolidaysAreTold ==
  ASSUME NEW v, NEW b, IsBlock(b, v), NEW parsed, parsed = ParseHolidays(b.data, b.address)
  PROVE  /\ DOMAIN parsed = {n \in 1..16 : Covers(b, 2 * (n - 1), 2)}
         /\ \A n \in DOMAIN parsed \cap DOMAIN Settings[v].holidays :
              HolidayFormatted(parsed[n]) = Settings[v].holidays[n]
<1> DEFINE set == Settings[v].holidays
           table == 0
           size == 2
           max == 16
           r(n) == RecordAt(b.data, b.address, table, size, n - 1)
<1>1. v \in 1..Len(Image) /\ DOMAIN set \subseteq 1..16
      /\ \A n \in DOMAIN set : set[n] \in (1..31) \X (1..12)
  BY SettingsAssumption DEF IsBlock, Installable
<1>2. PICK records : /\ KeepsRecords(v, table, size, records) /\ DOMAIN records = DOMAIN set
                     /\ \A n \in DOMAIN set : records[n] = HolidayBytes(set[n])
  <2>1. KeepsRecords(v, table, size, Each(HolidayBytes, set))
    BY <1>1, MemoryIs
  <2> HIDE DEF table
  <2> QED
    BY <2>1 DEF Each
<1>3. parsed = [n \in Held(b.data, b.address, table, size, max) |-> HolidayRecord(r(n))]
  BY DEF ParseHolidays, HOLIDAYS_BASE, HOLIDAY_RECORD_SIZE, MAX_HOLIDAYS
<1>4. table \in Int /\ size \in Nat \ {0} /\ max \in Nat
  OBVIOUS
<1>5. \A n \in Nat : 2 * (n - 1) = table + (n - 1) * size
  OBVIOUS
<1> HIDE DEF table, size, max
<1>6. TableRead(b, table, size, max, records)
  BY <1>2, <1>4, TableOfMemory
<1>7. DOMAIN parsed = {n \in 1..max : Covers(b, 2 * (n - 1), size)}
  BY <1>3, <1>5, <1>6 DEF TableRead
<1>8. ASSUME NEW n \in DOMAIN parsed \cap DOMAIN set
      PROVE  HolidayFormatted(parsed[n]) = set[n]
  <2>1. /\ parsed[n] = HolidayRecord(r(n)) /\ r(n) \in Seq(Byte) /\ Len(r(n)) = size
        /\ HasBytes(r(n), size, HolidayBytes(set[n]))
    BY <1>2, <1>3, <1>5, <1>6, <1>7, <1>8 DEF TableRead
  <2>2. /\ r(n) \in Seq(Byte) /\ Len(r(n)) = 2 /\ HasBytes(r(n), 2, HolidayBytes(set[n]))
        /\ set[n] \in (1..31) \X (1..12)
    BY <1>1, <1>8, <2>1 DEF size
  <2> QED
    BY <2>1, <2>2, HolidayIsTold
<1> QED
  BY <1>7, <1>8 DEF max, size

\* The timers and the autotest (parse_timers).
LEMMA BlockTimersAreTold ==
  ASSUME NEW v, NEW b, IsBlock(b, v), NEW told, told = ParseTimers(b.data, b.address)
  PROVE  IF Covers(b, 288, 9)
           THEN told.timers = Settings[v].timers /\ AutotestTold(told) = Settings[v].autotest
           ELSE told = None
<1> DEFINE s == Settings[v]
           table == 288
           size == 9
           records == [n \in {1} |-> TimerBytes(s.timers, s.autotest)]
           r == RecordAt(b.data, b.address, table, size, 0)
<1>1. v \in 1..Len(Image) /\ s.timers \in [1..8 -> (0..254) \cup {None}] /\ IsAutotest(s.autotest)
  BY SettingsAssumption DEF IsBlock, Installable
<1>2. KeepsRecords(v, table, size, records)
  <2>1. \A k \in 1..9 : Cell(v, 288 + k - 1) = TimerBytes(s.timers, s.autotest)[k]
    <3>1. KeepsBytes(v, 288, 9, TimerBytes(s.timers, s.autotest))
      BY <1>1, MemoryIs
    <3> QED
      BY <3>1 DEF KeepsBytes
  <2> QED
    BY <2>1 DEF KeepsRecords
<1>3. told = IF r = <<>> THEN None ELSE TimerSettings(r)
  BY DEF ParseTimers, TIMERS_BASE
<1>4. table \in Int /\ size \in Nat \ {0} /\ 1 \in Nat /\ table + (1 - 1) * size = table
  OBVIOUS
<1>5. Covers(b, table, size) <=> Covers(b, 288, 9)
  OBVIOUS
<1> HIDE DEF table, size
<1>6. TableRead(b, table, size, 1, records)
  BY <1>2, <1>4, TableOfMemory
<1>7. r # <<>> <=> Covers(b, table, size)
  <2>1. 1 \in Held(b.data, b.address, table, size, 1) <=> Covers(b, table, size)
    BY <1>4, <1>6 DEF TableRead
  <2>2. 1 \in Held(b.data, b.address, table, size, 1) <=> r # <<>>
    BY DEF Held
  <2> QED
    BY <2>1, <2>2
<1>8. CASE Covers(b, table, size)
  <2>1. HasBytes(r, size, records[1])
    BY <1>4, <1>6, <1>8 DEF TableRead
  <2>2. HasBytes(r, 9, TimerBytes(s.timers, s.autotest))
    BY <2>1 DEF size
  <2>3. told = TimerSettings(r)
    BY <1>3, <1>7, <1>8
  <2>4. PICK timers, autotest : /\ timers = s.timers /\ autotest = s.autotest
                               /\ timers \in [1..8 -> (0..254) \cup {None}] /\ IsAutotest(autotest)
                               /\ HasBytes(r, 9, TimerBytes(timers, autotest))
    BY <1>1, <2>2
  <2> HIDE DEF r, s
  <2>5. told.timers = timers /\ AutotestTold(told) = autotest
    BY <2>3, <2>4, TimersAreTold
  <2> QED
    BY <1>5, <1>8, <2>4, <2>5 DEF s
<1>9. CASE ~Covers(b, table, size)
  BY <1>3, <1>5, <1>7, <1>9
<1> QED
  BY <1>8, <1>9

\* The options of all the zones (parse_global_zone_options).
LEMMA BlockOptionsAreTold ==
  ASSUME NEW v, NEW b, IsBlock(b, v), NEW told, told = ParseGlobalZoneOptions(b.data, b.address)
  PROVE  IF Covers(b, 1287, 1) THEN OptionsTold(told) = Settings[v].options ELSE told = None
<1> DEFINE s == Settings[v]
           table == 1287
           size == 1
           records == [n \in {1} |-> <<Sum8(s.options, OptionBits)>>]
           r == RecordAt(b.data, b.address, table, size, 0)
<1>1. v \in 1..Len(Image)
      /\ s.options \subseteq {"end_of_line_resistor", "siren_on_short", "zone_doubling", "wired_tamper"}
  BY SettingsAssumption DEF IsBlock, Installable
<1>2. KeepsRecords(v, table, size, records)
  <2>1. Cell(v, 1287) = Sum8(s.options, OptionBits)
    BY <1>1, MemoryIs
  <2>2. \A k \in 1..1 : k = 1 /\ 1287 + (1 - 1) * 1 + k - 1 = 1287
    OBVIOUS
  <2> HIDE DEF s
  <2> QED
    BY <2>1, <2>2 DEF KeepsRecords
<1>3. told = IF r = <<>> THEN None ELSE GlobalZoneOptions(r[1])
  BY DEF ParseGlobalZoneOptions, GLOBAL_ZONE_OPTIONS_ADDRESS
<1>4. table \in Int /\ size \in Nat \ {0} /\ 1 \in Nat /\ table + (1 - 1) * size = table
  OBVIOUS
<1>5. Covers(b, table, size) <=> Covers(b, 1287, 1)
  OBVIOUS
<1> HIDE DEF table, size
<1>6. TableRead(b, table, size, 1, records)
  BY <1>2, <1>4, TableOfMemory
<1>7. r # <<>> <=> Covers(b, table, size)
  <2>1. 1 \in Held(b.data, b.address, table, size, 1) <=> Covers(b, table, size)
    BY <1>4, <1>6 DEF TableRead
  <2>2. 1 \in Held(b.data, b.address, table, size, 1) <=> r # <<>>
    BY DEF Held
  <2> QED
    BY <2>1, <2>2
<1>8. CASE Covers(b, table, size)
  <2>1. HasBytes(r, size, records[1])
    BY <1>4, <1>6, <1>8 DEF TableRead
  <2>2. r[1] = Sum8(s.options, OptionBits)
    BY <2>1 DEF size, HasBytes
  <2>3. told = GlobalZoneOptions(r[1])
    BY <1>3, <1>7, <1>8
  <2>4. OptionsTold(GlobalZoneOptions(r[1])) = s.options
    BY <1>1, <2>2, OptionsAreTold
  <2> QED
    BY <1>5, <1>8, <2>3, <2>4
<1>9. CASE ~Covers(b, table, size)
  BY <1>3, <1>5, <1>7, <1>9
<1> QED
  BY <1>8, <1>9

\* The hour of the automatic arming (parse_auto_arm_time).
LEMMA BlockAutoArmIsTold ==
  ASSUME NEW v, NEW b, IsBlock(b, v), NEW told, told = ParseAutoArmTime(b.data, b.address)
  PROVE  IF Covers(b, 336, 2) THEN told = Settings[v].auto_arm ELSE told = None
<1> DEFINE t == Settings[v].auto_arm
           table == 336
           size == 2
           records == [n \in {1} |-> AutoArmBytes(t)]
           r == RecordAt(b.data, b.address, table, size, 0)
<1>1. v \in 1..Len(Image) /\ IsAutoArm(t)
  BY SettingsAssumption DEF IsBlock, Installable
<1>2. KeepsRecords(v, table, size, records)
  <2>1. Cell(v, 336) = AutoArmBytes(t)[1] /\ Cell(v, 337) = AutoArmBytes(t)[2]
    BY <1>1, MemoryIs
  <2>2. \A k \in 1..2 : \/ k = 1 /\ 336 + (1 - 1) * 2 + k - 1 = 336
                        \/ k = 2 /\ 336 + (1 - 1) * 2 + k - 1 = 337
    OBVIOUS
  <2> HIDE DEF t
  <2> QED
    BY <2>1, <2>2 DEF KeepsRecords
<1>3. told = IF \/ r = <<>> \/ BcdToInt(r[1]) > 23 \/ BcdToInt(r[2]) > 59
                \/ (BcdToInt(r[1]) = 0 /\ BcdToInt(r[2]) = 0)
               THEN None ELSE <<BcdToInt(r[1]), BcdToInt(r[2])>>
  BY DEF ParseAutoArmTime, AUTO_ARM_SCHEDULE_ADDRESS
<1>4. table \in Int /\ size \in Nat \ {0} /\ 1 \in Nat /\ table + (1 - 1) * size = table
  OBVIOUS
<1>5. Covers(b, table, size) <=> Covers(b, 336, 2)
  OBVIOUS
<1> HIDE DEF table, size
<1>6. TableRead(b, table, size, 1, records)
  BY <1>2, <1>4, TableOfMemory
<1>7. r # <<>> <=> Covers(b, table, size)
  <2>1. 1 \in Held(b.data, b.address, table, size, 1) <=> Covers(b, table, size)
    BY <1>4, <1>6 DEF TableRead
  <2>2. 1 \in Held(b.data, b.address, table, size, 1) <=> r # <<>>
    BY DEF Held
  <2> QED
    BY <2>1, <2>2
<1>8. CASE Covers(b, table, size)
  <2>1. HasBytes(r, size, records[1])
    BY <1>4, <1>6, <1>8 DEF TableRead
  <2>2. r[1] = AutoArmBytes(t)[1] /\ r[2] = AutoArmBytes(t)[2]
    BY <2>1 DEF size, HasBytes
  <2> HIDE DEF r, t
  <2>3. PICK arm : arm = t /\ IsAutoArm(arm)
    BY <1>1
  <2>4. CASE arm = None
    <3>1. r[1] = 0 /\ r[2] = 0
      BY <2>2, <2>3, <2>4 DEF AutoArmBytes
    <3>2. BcdToInt(0) = 0
      BY DEF BcdToInt
    <3>3. told = None
      BY <1>3, <3>1, <3>2
    <3> QED
      BY <1>5, <1>8, <2>3, <2>4, <3>3 DEF t
  <2>5. CASE arm # None
    <3>1. PICK hour \in 0..23, minute \in 0..59 : arm = <<hour, minute>> /\ ~(hour = 0 /\ minute = 0)
      BY <2>3, <2>5 DEF IsAutoArm
    <3>2. r[1] = Bcd(hour) /\ r[2] = Bcd(minute)
      BY <2>2, <2>3, <2>5, <3>1 DEF AutoArmBytes
    <3>3. BcdToInt(r[1]) = hour /\ BcdToInt(r[2]) = minute
      <4>1. \A n \in Nat : n < 100 => BcdToInt(Bcd(n)) = n
        BY DigitsAreRead
      <4> QED
        BY <3>2, <4>1
    <3>4. told = <<hour, minute>>
      <4>1. ~(hour > 23) /\ ~(minute > 59) /\ ~(hour = 0 /\ minute = 0)
        BY <3>1
      <4> QED
        BY <1>3, <1>7, <1>8, <3>3, <4>1
    <3> QED
      BY <1>5, <1>8, <2>3, <3>1, <3>4 DEF t
  <2> QED
    BY <2>4, <2>5
<1>9. CASE ~Covers(b, table, size)
  BY <1>3, <1>5, <1>7, <1>9
<1> QED
  BY <1>8, <1>9

\* So a block of the panel's memory tells its settings.
LEMMA BlockTells ==
  ASSUME NEW v, NEW b, IsBlock(b, v)
  PROVE  Tells(b, Settings[v])
<1>1. PICK zones, pgms, users, names, devices, holidays :
        /\ zones = ParseZones(b.data, b.address) /\ pgms = ParsePgms(b.data, b.address)
        /\ users = ParseUsers(b.data, b.address) /\ names = ParsePartitions(b.data, b.address)
        /\ devices = ParseWireless(b.data, b.address) /\ holidays = ParseHolidays(b.data, b.address)
  OBVIOUS
<1>2. PICK timers, options, arm :
        /\ timers = ParseTimers(b.data, b.address)
        /\ options = ParseGlobalZoneOptions(b.data, b.address)
        /\ arm = ParseAutoArmTime(b.data, b.address)
  OBVIOUS
<1> DEFINE s == Settings[v]
<1>3. /\ DOMAIN zones = {n \in 1..32 : Covers(b, ZoneAddress(n), 16)}
      /\ \A n \in DOMAIN zones \cap DOMAIN s.zones : ZoneTold(zones[n]) = s.zones[n]
  BY <1>1, ZonesAreTold
<1>4. /\ DOMAIN pgms = {n \in 1..4 : Covers(b, PgmAddress(n), 16)}
      /\ \A n \in DOMAIN pgms \cap DOMAIN s.pgms : PgmTold(pgms[n]) = s.pgms[n]
  BY <1>1, PgmsAreTold
<1>5. /\ DOMAIN users = {n \in 1..98 : Covers(b, UserAddress(n), 16)}
      /\ \A n \in DOMAIN users \cap DOMAIN s.users : UserTold(users[n]) = UserSet(s.users[n])
  BY <1>1, UsersAreTold
<1>6. /\ DOMAIN names = {n \in 1..4 : Covers(b, PartitionAddress(n), 9)}
      /\ \A n \in DOMAIN names \cap DOMAIN s.partition_names : names[n].name = s.partition_names[n]
  BY <1>1, PartitionsAreTold
<1>7. /\ DOMAIN devices = {n \in 1..32 : Covers(b, WirelessAddress(n), 8)}
      /\ \A n \in DOMAIN devices \cap DOMAIN s.wireless :
           [serial |-> devices[n].serial, zone |-> devices[n].zone] = s.wireless[n]
  BY <1>1, DevicesAreTold
<1>8. /\ DOMAIN holidays = {n \in 1..16 : Covers(b, 2 * (n - 1), 2)}
      /\ \A n \in DOMAIN holidays \cap DOMAIN s.holidays : HolidayFormatted(holidays[n]) = s.holidays[n]
  BY <1>1, HolidaysAreTold
<1>9. IF Covers(b, 288, 9)
        THEN timers.timers = s.timers /\ AutotestTold(timers) = s.autotest
        ELSE timers = None
  BY <1>2, BlockTimersAreTold
<1>10. IF Covers(b, 1287, 1) THEN OptionsTold(options) = s.options ELSE options = None
  BY <1>2, BlockOptionsAreTold
<1>11. IF Covers(b, 336, 2) THEN arm = s.auto_arm ELSE arm = None
  BY <1>2, BlockAutoArmIsTold
<1> HIDE DEF s
<1>12. Tells(b, s)
  BY <1>1, <1>2, <1>3, <1>4, <1>5, <1>6, <1>7, <1>8, <1>9, <1>10, <1>11 DEF Tells, TableTells
<1> QED
  BY <1>12 DEF s

-----------------------------------------------------------------------------
(* Blocks, and regions that are joined from blocks.                          *)

\* Blocks that follow each other from base on, all of the panel's memory in its
\* version v.
Chain(blocks, v, base) ==
  \A i \in DOMAIN blocks :
    /\ blocks[i].address = IF i = 1 THEN base ELSE BlockEnd(blocks[i - 1])
    /\ Len(blocks[i].data) = blocks[i].count
    /\ \A j \in 1..Len(blocks[i].data) : blocks[i].data[j] = Cell(v, blocks[i].address + j - 1)

\* Lengths add up to where each part starts, and every place is in some part.
LEMMA PlaceInPart ==
  ASSUME NEW n \in Nat, NEW length \in [1..n -> Nat], NEW start \in [1..(n + 1) -> Int],
         start[1] = 0, \A k \in 1..n : start[k + 1] = start[k] + length[k]
  PROVE  /\ start \in [1..(n + 1) -> Nat]
         /\ \A j \in 1..start[n + 1] : \E k \in 1..n : \E b \in 1..length[k] : j = start[k] + b
<1> DEFINE Placed(m) ==
             /\ start[m + 1] \in Nat
             /\ \A j \in 1..start[m + 1] : \E k \in 1..n : \E b \in 1..length[k] : j = start[k] + b
           T == {m \in 0..n : Placed(m)}
<1>1. 0 \in T
  <2>1. 0 \in 0..n /\ start[0 + 1] = 0
    OBVIOUS
  <2> QED
    BY <2>1
<1>2. ASSUME NEW m \in 1..n, m - 1 \in T PROVE m \in T
  <2>1. start[m] \in Nat /\ m \in 0..n /\ (m - 1) + 1 = m
        /\ \A j \in 1..start[m] : \E k \in 1..n : \E b \in 1..length[k] : j = start[k] + b
    <3>1. (m - 1) + 1 = m /\ m \in 0..n
      OBVIOUS
    <3> QED
      BY <1>2, <3>1
  <2>2. start[m + 1] = start[m] + length[m] /\ length[m] \in Nat
    OBVIOUS
  <2>3. ASSUME NEW j \in 1..start[m + 1]
        PROVE  \E k \in 1..n : \E b \in 1..length[k] : j = start[k] + b
    <3>1. CASE j <= start[m]
      <4>1. j \in 1..start[m]
        BY <2>1, <3>1
      <4> QED
        BY <2>1, <4>1
    <3>2. CASE ~(j <= start[m])
      <4>1. j - start[m] \in 1..length[m] /\ j = start[m] + (j - start[m])
        BY <2>1, <2>2, <3>2
      <4> QED
        BY <4>1
    <3> QED
      BY <3>1, <3>2
  <2>4. start[m + 1] \in Nat
    BY <2>1, <2>2
  <2> QED
    BY <2>1, <2>3, <2>4
<1>3. 0..n \subseteq T
  <2> HIDE DEF T
  <2> QED
    BY <1>1, <1>2, InductionUpTo
<1>4. \A m \in 0..n : Placed(m)
  BY <1>3
<1> HIDE DEF T
<1>5. start \in [1..(n + 1) -> Nat]
  <2>1. ASSUME NEW k \in 1..(n + 1) PROVE start[k] \in Nat
    <3>1. k - 1 \in 0..n /\ (k - 1) + 1 = k
      OBVIOUS
    <3> QED
      BY <1>4, <3>1
  <2> QED
    BY <2>1
<1>6. n \in 0..n
  OBVIOUS
<1> QED
  BY <1>4, <1>5, <1>6

\* So they are one block of that memory.
LEMMA JoinedIsMemory ==
  ASSUME NEW v, NEW base \in Int, NEW blocks \in Seq(Blocks), Chain(blocks, v, base)
  PROVE  IsMemory(FlattenSeq([i \in DOMAIN blocks |-> blocks[i].data]), v, base)
<1> DEFINE n == Len(blocks)
           seqs == [i \in DOMAIN blocks |-> blocks[i].data]
           length == [i \in 1..n |-> blocks[i].count]
           start == [k \in 1..(n + 1) |-> IF k = 1 THEN 0 ELSE BlockEnd(blocks[k - 1]) - base]
           flat == FlattenSeq(seqs)
<1>1. n \in Nat /\ DOMAIN blocks = 1..n /\ \A i \in 1..n : blocks[i] \in Blocks
  <2>1. DOMAIN blocks = 1..Len(blocks)
    BY LenProperties
  <2> QED
    BY <2>1, ElementOfSeq
<1>2. \A i \in 1..n : /\ blocks[i].address \in Int /\ blocks[i].count \in Int
                      /\ blocks[i].data \in Seq(Byte) /\ Len(blocks[i].data) = blocks[i].count
                      /\ blocks[i].count \in Nat
  <2>1. \A i \in 1..n : /\ blocks[i].address \in Int /\ blocks[i].count \in Int
                        /\ blocks[i].data \in Seq(Byte) /\ Len(blocks[i].data) = blocks[i].count
    BY <1>1 DEF Blocks, Chain
  <2>2. \A s \in Seq(Byte) : Len(s) \in Nat
    BY LenProperties
  <2> HIDE DEF n
  <2> QED
    BY <2>1, <2>2
<1>3. seqs \in Seq(Seq(Byte)) /\ Len(seqs) = n
      /\ \A k \in 1..n : seqs[k] = blocks[k].data /\ Len(seqs[k]) = length[k]
  <2> HIDE DEF n
  <2>1. seqs = [i \in 1..n |-> blocks[i].data]
    BY <1>1
  <2>2. \A i \in 1..n : blocks[i].data \in Seq(Byte)
    BY <1>2
  <2> QED
    BY <1>1, <1>2, <2>1, <2>2
<1>4. \A k \in 1..n : blocks[k].address = base + start[k]
  <2> SUFFICES ASSUME NEW k \in 1..n PROVE blocks[k].address = base + start[k]
    OBVIOUS
  <2>1. blocks[k].address = IF k = 1 THEN base ELSE BlockEnd(blocks[k - 1])
    BY <1>1 DEF Chain
  <2>2. k \in 1..(n + 1)
    BY <1>1
  <2>3. blocks[k].address \in Int
    BY <1>2
  <2> HIDE DEF n
  <2>4. CASE k = 1
    BY <2>1, <2>2, <2>4
  <2>5. CASE k # 1
    <3>1. start[k] = BlockEnd(blocks[k - 1]) - base /\ BlockEnd(blocks[k - 1]) = blocks[k].address
      BY <2>1, <2>2, <2>5
    <3> QED
      BY <2>3, <3>1
  <2> QED
    BY <2>4, <2>5
<1> HIDE DEF n
<1>5. \A k \in 1..n : start[k + 1] = start[k] + length[k]
  <2> SUFFICES ASSUME NEW k \in 1..n PROVE start[k + 1] = start[k] + length[k]
    OBVIOUS
  <2>1. k + 1 \in 1..(n + 1) /\ k + 1 # 1 /\ (k + 1) - 1 = k /\ k \in 1..(n + 1)
    BY <1>1
  <2>2. start[k + 1] = BlockEnd(blocks[k]) - base
    BY <2>1
  <2>3. BlockEnd(blocks[k]) = blocks[k].address + length[k]
    BY DEF BlockEnd
  <2>4. blocks[k].address = base + start[k] /\ blocks[k].address \in Int /\ length[k] \in Nat
    BY <1>2, <1>4
  <2>5. start[k] \in Int
    <3>1. CASE k = 1
      BY <2>1, <3>1
    <3>2. CASE k # 1
      <4>1. k - 1 \in 1..n
        BY <1>1, <3>2
      <4>2. BlockEnd(blocks[k - 1]) \in Int
        BY <1>2, <4>1 DEF BlockEnd
      <4>3. start[k] = BlockEnd(blocks[k - 1]) - base
        BY <2>1, <3>2
      <4> QED
        BY <4>2, <4>3
    <3> QED
      BY <3>1, <3>2
  <2> HIDE DEF start, length
  <2> QED
    BY <2>2, <2>3, <2>4, <2>5
<1>6. start \in [1..(n + 1) -> Int] /\ start[1] = 0 /\ length \in [1..n -> Nat]
  <2>1. ASSUME NEW k \in 1..(n + 1) PROVE (IF k = 1 THEN 0 ELSE BlockEnd(blocks[k - 1]) - base) \in Int
    <3>1. CASE k = 1
      BY <3>1
    <3>2. CASE k # 1
      <4>1. k - 1 \in 1..n
        BY <1>1, <3>2
      <4>2. BlockEnd(blocks[k - 1]) \in Int
        BY <1>2, <4>1 DEF BlockEnd
      <4> QED
        BY <3>2, <4>2
    <3> QED
      BY <3>1, <3>2
  <2>2. 1 \in 1..(n + 1)
    BY <1>1
  <2>3. \A i \in 1..n : blocks[i].count \in Nat
    BY <1>2
  <2> QED
    BY <2>1, <2>2, <2>3
<1> HIDE DEF start, length, seqs
<1>7. /\ start \in [1..(n + 1) -> Nat]
      /\ \A j \in 1..start[n + 1] : \E k \in 1..n : \E b \in 1..length[k] : j = start[k] + b
  BY <1>1, <1>5, <1>6, PlaceInPart
<1>8. /\ flat \in Seq(Byte) /\ Len(flat) = start[n + 1]
      /\ \A k \in 1..n : \A b \in 1..length[k] : flat[start[k] + b] = seqs[k][b]
  <2>1. start \in [1..(Len(seqs) + 1) -> Nat]
        /\ \A k \in 1..Len(seqs) : start[k + 1] = start[k] + Len(seqs[k])
    BY <1>3, <1>5, <1>7
  <2>2. /\ flat \in Seq(Byte) /\ Len(flat) = start[Len(seqs) + 1]
        /\ \A k \in 1..Len(seqs) : \A b \in 1..Len(seqs[k]) : flat[start[k] + b] = seqs[k][b]
    <3>1. PICK parts \in Seq(Seq(Byte)) : parts = seqs
      BY <1>3
    <3>2. start[1] = 0 /\ start \in [1..(Len(parts) + 1) -> Nat]
          /\ \A k \in 1..Len(parts) : start[k + 1] = start[k] + Len(parts[k])
      BY <1>6, <2>1, <3>1
    <3>3. /\ FlattenSeq(parts) \in Seq(Byte) /\ Len(FlattenSeq(parts)) = start[Len(parts) + 1]
          /\ \A k \in 1..Len(parts) : \A b \in 1..Len(parts[k]) :
               FlattenSeq(parts)[start[k] + b] = parts[k][b]
      BY <3>2, FlattenIs
    <3> QED
      BY <3>1, <3>3
  <2> QED
    BY <1>3, <2>2
<1> HIDE DEF flat
<1>9. ASSUME NEW j \in 1..Len(flat) PROVE flat[j] = Cell(v, base + j - 1)
  <2>0. PICK k \in 1..n : \E b \in 1..length[k] : j = start[k] + b
    BY <1>7, <1>8
  <2>1. PICK b \in 1..length[k] : j = start[k] + b
    BY <2>0
  <2>2. flat[j] = blocks[k].data[b]
    BY <1>3, <1>8, <2>1
  <2>3. b \in 1..Len(blocks[k].data)
    BY <1>3
  <2>4. blocks[k].data[b] = Cell(v, blocks[k].address + b - 1)
    BY <1>1, <2>3 DEF Chain
  <2>5. blocks[k].address + b - 1 = base + j - 1
    <3>1. k \in 1..(n + 1)
      BY <1>1
    <3>2. start[k] \in Nat /\ length[k] \in Nat
      BY <1>6, <1>7, <3>1
    <3> QED
      BY <1>4, <2>1, <3>2
  <2> QED
    BY <2>2, <2>4, <2>5
<1> QED
  BY <1>8, <1>9 DEF IsMemory, flat, seqs
\* From any block that was received, wherever it starts and ends, the parsers
\* take the records that it holds whole, and those say what the installer set
\* (parse_zones and its fellows), unless a reply may lack exactly one byte.
THEOREM SettingsAreTold == 1 \notin Cuts => (Spec => []RecordsTellTheSettings)
<1>1. Learning => RecordsTellTheSettings
  <2> SUFFICES ASSUME Learning, NEW b \in Newest PROVE Tells(b, Settings[b.checksum])
    BY DEF RecordsTellTheSettings
  <2>1. gathered \in Seq(Blocks) /\ gathered # <<>> /\ b = gathered[Len(gathered)]
    BY DEF Newest, Learning, ReadInv, ReadTypes
  <2>2. Len(gathered) \in DOMAIN gathered /\ Len(gathered) \in 1..Len(gathered)
    <3>1. Len(gathered) \in Nat /\ DOMAIN gathered = 1..Len(gathered) /\ Len(gathered) # 0
      BY <2>1, EmptySeq, LenProperties
    <3> QED
      BY <3>1
  <2>3. PICK v : v = b.checksum
    OBVIOUS
  <2>4. /\ b \in Blocks /\ v \in 1..Len(Image) /\ Len(b.data) = b.count
        /\ \A j \in DOMAIN b.data : b.data[j] = Cell(v, b.address + j - 1)
    BY <2>1, <2>2, <2>3, ElementOfSeq DEF Learning, KpsAreVersions, BlocksHold
  <2>5. b.data \in Seq(Byte) /\ b.address \in Int /\ DOMAIN b.data = 1..Len(b.data)
    BY <2>4, LenProperties DEF Blocks
  <2>6. IsBlock(b, v)
    BY <2>4, <2>5 DEF IsBlock, IsMemory
  <2> QED
    BY <2>3, <2>6, BlockTells
<1> QED
  BY <1>1, LearningAlways, PTL

\* Where the panel's KP stayed the same, the blocks of a region that was read to
\* its end are, joined, one programming, and every record of it tells what was
\* set, though each read took only a part (plan_region).
THEOREM RegionTellsTheSettings == 1 \notin Cuts => (Spec => []RegionIsASnapshot)
<1>1. Learning => RegionIsASnapshot
  <2> DEFINE data == FlattenSeq([i \in DOMAIN gathered |-> gathered[i].data])
             whole == [address |-> REGIONS[job][1], count |-> Len(data), data |-> data]
             kps == {gathered[i].checksum : i \in DOMAIN gathered}
  <2> SUFFICES ASSUME Learning, job \in DOMAIN REGIONS, plan = <<>>, NEW v \in kps, kps = {v}
               PROVE  Tells(whole, Settings[v])
    BY DEF RegionIsASnapshot
  <2>1. gathered \in Seq(Blocks) /\ DOMAIN gathered = 1..Len(gathered) /\ Len(gathered) \in Nat
    BY LenProperties DEF Learning, ReadInv, ReadTypes
  <2>2. \A i \in DOMAIN gathered :
          /\ gathered[i] \in Blocks /\ gathered[i].checksum = v
          /\ gathered[i].address = IF i = 1 THEN REGIONS[job][1] ELSE BlockEnd(gathered[i - 1])
          /\ Len(gathered[i].data) = gathered[i].count
          /\ \A j \in DOMAIN gathered[i].data :
               gathered[i].data[j] = Cell(gathered[i].checksum, gathered[i].address + j - 1)
    <3>1. \A i \in DOMAIN gathered : gathered[i].checksum = v
      OBVIOUS
    <3>2. \A i \in DOMAIN gathered : gathered[i] \in Blocks
      BY <2>1, ElementOfSeq
    <3>3. \A i \in DOMAIN gathered :
            gathered[i].address = IF i = 1 THEN REGIONS[job][1] ELSE BlockEnd(gathered[i - 1])
      BY DEF Learning, ReadInv, RegionIsSplit, Base
    <3> QED
      BY <3>1, <3>2, <3>3 DEF Learning, BlocksHold
  <2>3. v \in 1..Len(Image) /\ 1 \in DOMAIN gathered
    <3>1. PICK i \in DOMAIN gathered : v = gathered[i].checksum
      OBVIOUS
    <3>2. v \in 1..Len(Image)
      BY <3>1 DEF Learning, KpsAreVersions
    <3> QED
      BY <2>1, <3>1, <3>2
  <2>4. PICK base \in Int : base = REGIONS[job][1]
    BY <2>2, <2>3 DEF Blocks
  <2>5. Chain(gathered, v, base)
    <3> SUFFICES ASSUME NEW i \in DOMAIN gathered
                 PROVE  /\ gathered[i].address = IF i = 1 THEN base ELSE BlockEnd(gathered[i - 1])
                        /\ Len(gathered[i].data) = gathered[i].count
                        /\ \A j \in 1..Len(gathered[i].data) :
                             gathered[i].data[j] = Cell(v, gathered[i].address + j - 1)
      BY Zenon DEF Chain
    <3> HIDE DEF data, kps
    <3>1. gathered[i].data \in Seq(Byte)
      BY <2>2 DEF Blocks
    <3>2. DOMAIN gathered[i].data = 1..Len(gathered[i].data)
      BY <3>1, LenProperties
    <3>3. gathered[i].address = IF i = 1 THEN base ELSE BlockEnd(gathered[i - 1])
      BY <2>2, <2>4
    <3>4. \A j \in DOMAIN gathered[i].data : gathered[i].data[j] = Cell(v, gathered[i].address + j - 1)
      BY <2>2
    <3> QED
      BY <2>2, <3>2, <3>3, <3>4
  <2>6. IsMemory(data, v, base)
    BY <2>1, <2>5, JoinedIsMemory
  <2> HIDE DEF data, kps
  <2>7. IsBlock(whole, v)
    BY <2>3, <2>4, <2>6 DEF IsBlock
  <2> QED
    BY <2>7, BlockTells
<1> QED
  BY <1>1, LearningAlways, PTL
=============================================================================
