----------------------------- MODULE CodecProofs -----------------------------
(***************************************************************************)
(* Lemmas about what a loop over bytes computes and about slices of frames, *)
(* which the proofs about the decoders share.  The library's induction     *)
(* theorems take an operator as a parameter; the least number of a set     *)
(* stands in for them.                                                     *)
(***************************************************************************)
EXTENDS Codec, SequencesExt, SequenceTheorems, FiniteSetTheorems, TLAPS

-----------------------------------------------------------------------------
(* Induction. *)

\* A set of numbers that is not empty has a least one.
LEMMA LeastNumber ==
  ASSUME NEW T, T \subseteq Nat, T # {}
  PROVE  \E n \in T : \A m \in T : n <= m
<1> DEFINE R == OpToRel(<, Nat)
<1>1. IsWellFoundedOn(R, Nat)
  BY NatLessThanWellFounded
<1>2. \A m, n \in Nat : m < n => <<m, n>> \in R
  BY DEF OpToRel
<1> HIDE DEF R
<1>3. \E n \in T : \A m \in T : <<m, n>> \notin R
  BY <1>1, WFMin
<1>4. PICK n \in T : \A m \in T : <<m, n>> \notin R
  BY <1>3
<1>5. ASSUME NEW m \in T PROVE n <= m
  <2>1. m \in Nat /\ n \in Nat /\ ~(m < n)
    BY <1>2, <1>4
  <2> QED
    BY <2>1
<1> QED
  BY <1>5

\* One that is bounded has a greatest.
LEMMA GreatestNumber ==
  ASSUME NEW n \in Nat, NEW T, T \subseteq 1..n, T # {}
  PROVE  \E i \in T : \A j \in T : j <= i
<1> DEFINE R == {n - i : i \in T}
<1>1. R \subseteq Nat /\ R # {}
  <2>1. \A i \in T : n - i \in Nat
    OBVIOUS
  <2> QED
    BY <2>1
<1>2. PICK r \in R : \A s \in R : r <= s
  <2> HIDE DEF R
  <2> QED
    BY <1>1, LeastNumber
<1>3. PICK i \in T : r = n - i
  OBVIOUS
<1>4. ASSUME NEW j \in T PROVE j <= i
  <2>1. n - j \in R /\ i \in Int /\ j \in Int
    OBVIOUS
  <2>2. n - i <= n - j
    BY <1>2, <1>3, <2>1
  <2> QED
    BY <2>1, <2>2
<1> QED
  BY <1>4

\* A set that holds 0 and with each number the next one holds them all.
LEMMA InductiveSet ==
  ASSUME NEW S, 0 \in S, \A n \in Nat : n \in S => n + 1 \in S
  PROVE  Nat \subseteq S
<1> SUFFICES ASSUME Nat \ S # {} PROVE FALSE
  OBVIOUS
<1>1. PICK n \in Nat \ S : \A m \in Nat \ S : n <= m
  BY LeastNumber
<1>2. n # 0 /\ n - 1 \in Nat /\ n - 1 \in S
  BY <1>1
<1> QED
  BY <1>1, <1>2

\* The same up to a number.
LEMMA InductionUpTo ==
  ASSUME NEW n \in Nat, NEW S, 0 \in S, \A i \in 1..n : i - 1 \in S => i \in S
  PROVE  0..n \subseteq S
<1> DEFINE T == {i \in Nat : i <= n => i \in S}
<1>1. 0 \in T
  OBVIOUS
<1>2. \A i \in Nat : i \in T => i + 1 \in T
  <2> SUFFICES ASSUME NEW i \in Nat, i \in T, i + 1 <= n PROVE i + 1 \in S
    OBVIOUS
  <2>1. i \in S /\ i + 1 \in 1..n /\ (i + 1) - 1 = i
    OBVIOUS
  <2> QED
    BY <2>1
<1> HIDE DEF T
<1>3. Nat \subseteq T
  BY <1>1, <1>2, InductiveSet
<1> QED
  BY <1>3 DEF T

-----------------------------------------------------------------------------
(* Loops.  A loop's result after i rounds is a function of i that its body   *)
(* determines.                                                               *)

\* f tells the result of every round of a loop, where step[i] is round i.
Rounds(f, n, base, step) == f[0] = base /\ \A i \in 1..n : f[i] = step[i][f[i - 1]]

\* Such a function there is.
LEMMA LoopExists ==
  ASSUME NEW S, NEW n \in Nat, NEW base \in S, NEW step \in [1..n -> [S -> S]]
  PROVE  \E f \in [0..n -> S] : Rounds(f, n, base, step)
<1> DEFINE T == {m \in 0..n : \E f \in [0..m -> S] : Rounds(f, m, base, step)}
<1>1. 0 \in T
  <2> DEFINE f == [i \in 0..0 |-> base]
  <2>1. f \in [0..0 -> S] /\ Rounds(f, 0, base, step)
    BY DEF Rounds
  <2>2. 0 \in 0..n
    OBVIOUS
  <2> HIDE DEF f
  <2> QED
    BY <2>1, <2>2
<1>2. ASSUME NEW m \in 1..n, m - 1 \in T PROVE m \in T
  <2>1. PICK f \in [0..(m - 1) -> S] : Rounds(f, m - 1, base, step)
    BY <1>2
  <2> DEFINE g == [i \in 0..m |-> IF i = m THEN step[m][f[m - 1]] ELSE f[i]]
  <2>2. m - 1 \in 0..(m - 1) /\ step[m][f[m - 1]] \in S
    OBVIOUS
  <2>3. g \in [0..m -> S]
    BY <2>2
  <2>4. g[0] = base
    BY <2>1 DEF Rounds
  <2>5. ASSUME NEW i \in 1..m PROVE g[i] = step[i][g[i - 1]]
    <3>1. i - 1 \in 0..(m - 1) /\ g[i - 1] = f[i - 1]
      OBVIOUS
    <3>2. CASE i = m
      <4>1. m \in 0..m /\ g[m] = step[m][f[m - 1]]
        OBVIOUS
      <4> QED
        BY <3>1, <3>2, <4>1
    <3>3. CASE i # m
      <4>1. i \in 1..(m - 1) /\ g[i] = f[i]
        BY <3>3
      <4> QED
        BY <2>1, <3>1, <4>1 DEF Rounds
    <3> QED
      BY <3>2, <3>3
  <2> HIDE DEF g
  <2>6. Rounds(g, m, base, step)
    BY <2>4, <2>5 DEF Rounds
  <2> QED
    BY <2>3, <2>6
<1>3. 0..n \subseteq T
  <2> HIDE DEF T
  <2> QED
    BY <1>1, <1>2, InductionUpTo
<1> QED
  BY <1>3

\* What FlattenSeq's own recursion is.
Joins(seqs, f) ==
  f = [i \in 1..Len(seqs) |-> IF i = 1 THEN seqs[i] ELSE f[i - 1] \o seqs[i]]

\* Such a function there is, and FlattenSeq is its last value.
LEMMA FlattenJoins ==
  ASSUME NEW S, NEW seqs \in Seq(Seq(S)), Len(seqs) # 0
  PROVE  \E f : Joins(seqs, f) /\ FlattenSeq(seqs) = f[Len(seqs)]
<1> DEFINE n == Len(seqs)
           step == [i \in 1..n |-> [t \in Seq(S) |-> t \o seqs[i]]]
           h == CHOOSE f : f = [i \in 1..Len(seqs) |-> IF i = 1 THEN seqs[i] ELSE f[i - 1] \o seqs[i]]
<1>1. n \in Nat /\ <<>> \in Seq(S) /\ \A i \in 1..n : seqs[i] \in Seq(S)
  OBVIOUS
<1>2. step \in [1..n -> [Seq(S) -> Seq(S)]]
  <2> SUFFICES ASSUME NEW i \in 1..n, NEW t \in Seq(S) PROVE t \o seqs[i] \in Seq(S)
    OBVIOUS
  <2> QED
    BY <1>1, ConcatProperties
<1>3. \A i \in 1..n, t \in Seq(S) : step[i][t] = t \o seqs[i]
  OBVIOUS
<1> HIDE DEF step, h
<1>4. PICK f \in [0..n -> Seq(S)] : Rounds(f, n, <<>>, step)
  BY <1>1, <1>2, LoopExists
<1> HIDE DEF n
<1> DEFINE g == [i \in 1..n |-> f[i]]
<1>5. ASSUME NEW i \in 1..n PROVE g[i] = IF i = 1 THEN seqs[i] ELSE g[i - 1] \o seqs[i]
  <2>1. i - 1 \in 0..n /\ f[i - 1] \in Seq(S) /\ f[i] = f[i - 1] \o seqs[i]
    <3>1. i - 1 \in 0..n
      BY <1>1
    <3>2. f[i - 1] \in Seq(S)
      BY <1>4, <3>1
    <3> QED
      BY <1>3, <1>4, <3>1, <3>2 DEF Rounds
  <2>2. CASE i = 1
    <3>1. f[i - 1] = <<>> /\ <<>> \o seqs[i] = seqs[i]
      BY <1>1, <1>4, <2>2 DEF Rounds
    <3> QED
      BY <2>1, <2>2, <3>1
  <2>3. CASE i # 1
    <3>1. i - 1 \in 1..n
      BY <1>1, <2>3
    <3> QED
      BY <2>1, <2>3, <3>1
  <2> QED
    BY <2>2, <2>3
<1>6. Joins(seqs, g)
  BY <1>5 DEF Joins, n, g
<1> HIDE DEF g
<1>7. Joins(seqs, h)
  BY <1>6 DEF Joins, h
<1>8. FlattenSeq(seqs) = h[Len(seqs)]
  BY DEF FlattenSeq, h
<1> QED
  BY <1>7, <1>8

\* Blocks joined are as long as all of them together, and each keeps its place.
LEMMA FlattenIs ==
  ASSUME NEW S, NEW seqs \in Seq(Seq(S)), NEW start \in [1..(Len(seqs) + 1) -> Nat],
         start[1] = 0, \A k \in 1..Len(seqs) : start[k + 1] = start[k] + Len(seqs[k])
  PROVE  LET flat == FlattenSeq(seqs)
         IN /\ flat \in Seq(S) /\ Len(flat) = start[Len(seqs) + 1]
            /\ \A k \in 1..Len(seqs) : \A b \in 1..Len(seqs[k]) : flat[start[k] + b] = seqs[k][b]
<1> DEFINE n == Len(seqs)
           Joined(s, m) ==
             /\ s \in Seq(S) /\ Len(s) = start[m + 1]
             /\ \A k \in 1..m : \A b \in 1..Len(seqs[k]) :
                  start[k] + b \in 1..Len(s) /\ s[start[k] + b] = seqs[k][b]
<1>1. n \in Nat /\ \A i \in 1..n : seqs[i] \in Seq(S) /\ Len(seqs[i]) \in Nat
  OBVIOUS
<1>0. \A k \in 1..n : start[k] \in Nat /\ start[k + 1] = start[k] + Len(seqs[k])
  <2>1. \A k \in 1..n : k \in 1..(n + 1)
    BY <1>1
  <2> QED
    BY <2>1
<1>2. CASE n = 0
  <2>1. FlattenSeq(seqs) = <<>>
    BY <1>2 DEF FlattenSeq
  <2> QED
    BY <1>2, <2>1
<1>3. CASE n # 0
  <2>1. PICK f : Joins(seqs, f) /\ FlattenSeq(seqs) = f[n]
    BY <1>3, FlattenJoins
  <2>2. f[1] = seqs[1] /\ \A i \in 2..n : f[i] = f[i - 1] \o seqs[i]
    <3>1. f = [i \in 1..n |-> IF i = 1 THEN seqs[i] ELSE f[i - 1] \o seqs[i]]
      BY <2>1 DEF Joins
    <3> HIDE DEF n
    <3>2. \A i \in 2..n : i \in 1..n /\ i # 1
      BY <1>1
    <3>3. 1 \in 1..n
      BY <1>1, <1>3
    <3>4. f[1] = seqs[1]
      BY <3>1, <3>3
    <3>5. \A i \in 1..n : f[i] = IF i = 1 THEN seqs[i] ELSE f[i - 1] \o seqs[i]
      BY <3>1, Zenon
    <3> QED
      BY <3>2, <3>4, <3>5, Zenon
  <2> HIDE DEF n
  <2> DEFINE T == {i \in 0..n : i = 0 \/ Joined(f[i], i)}
  <2>3. ASSUME NEW i \in 1..n, i - 1 \in T PROVE i \in T
    <3>1. start[i] \in Nat /\ start[i + 1] = start[i] + Len(seqs[i]) /\ seqs[i] \in Seq(S)
      BY <1>0, <1>1
    <3>2. CASE i = 1
      <4>1. f[1] = seqs[1] /\ start[1] = 0
        BY <2>2
      <4> QED
        BY <1>1, <3>1, <3>2, <4>1
    <3>3. CASE i # 1
      <4>1. Joined(f[i - 1], i - 1) /\ f[i] = f[i - 1] \o seqs[i] /\ (i - 1) + 1 = i
        <5> HIDE DEF Joined
        <5>1. i - 1 # 0 /\ i \in 2..n /\ (i - 1) + 1 = i
          BY <1>1, <3>3
        <5> QED
          BY <2>2, <2>3, <5>1
      <4>2. f[i] \in Seq(S) /\ Len(f[i]) = start[i] + Len(seqs[i])
        <5>1. f[i - 1] \in Seq(S) /\ Len(f[i - 1]) = start[i]
          BY <4>1
        <5> HIDE DEF Joined
        <5>2. f[i - 1] \o seqs[i] \in Seq(S)
              /\ Len(f[i - 1] \o seqs[i]) = Len(f[i - 1]) + Len(seqs[i])
          BY <3>1, <5>1, ConcatProperties
        <5> QED
          BY <4>1, <5>1, <5>2
      <4>3. /\ \A j \in 1..Len(f[i - 1]) : f[i][j] = f[i - 1][j]
            /\ \A b \in 1..Len(seqs[i]) : f[i][Len(f[i - 1]) + b] = seqs[i][b]
        <5>1. f[i - 1] \in Seq(S)
          BY <4>1
        <5> DEFINE s == f[i - 1]
                   t == seqs[i]
        <5>2. s \in Seq(S) /\ t \in Seq(S) /\ f[i] = s \o t
          BY <3>1, <4>1, <5>1
        <5> HIDE DEF s, t, Joined
        <5>3. Len(s) \in Nat /\ Len(t) \in Nat
              /\ (\A j \in 1..Len(s) : (s \o t)[j] = s[j])
              /\ \A b \in 1..Len(t) : (s \o t)[Len(s) + b] = t[b]
          BY <5>2
        <5> QED
          BY <5>2, <5>3 DEF s, t
      <4>4. ASSUME NEW k \in 1..i, NEW b \in 1..Len(seqs[k])
            PROVE  start[k] + b \in 1..Len(f[i]) /\ f[i][start[k] + b] = seqs[k][b]
        <5>1. CASE k = i
          <6>1. Len(f[i - 1]) = start[i] /\ Len(seqs[i]) \in Nat
            BY <1>1, <4>1
          <6> HIDE DEF Joined
          <6> QED
            BY <3>1, <4>2, <4>3, <5>1, <6>1
        <5>2. CASE k # i
          <6>1. k \in 1..(i - 1) /\ start[k] + b \in 1..Len(f[i - 1])
                /\ f[i - 1][start[k] + b] = seqs[k][b]
            BY <4>1, <5>2
          <6>2. Len(f[i - 1]) \in Nat /\ Len(f[i]) \in Nat /\ Len(f[i - 1]) <= Len(f[i])
            BY <3>1, <4>1, <4>2
          <6> QED
            BY <4>3, <6>1, <6>2
        <5> QED
          BY <5>1, <5>2
      <4>5. f[i] \in Seq(S) /\ Len(f[i]) = start[i + 1]
        BY <3>1, <4>2
      <4>6. \A k \in 1..i : \A b \in 1..Len(seqs[k]) :
              start[k] + b \in 1..Len(f[i]) /\ f[i][start[k] + b] = seqs[k][b]
        BY <4>4
      <4>7. Joined(f[i], i)
        BY <4>5, <4>6, Zenon
      <4>8. i \in 0..n
        BY <1>1
      <4> HIDE DEF Joined
      <4> QED
        BY <4>7, <4>8
    <3> QED
      BY <3>2, <3>3
  <2> HIDE DEF Joined
  <2>4. 0..n \subseteq T
    <3>1. 0 \in T
      BY <1>1
    <3> HIDE DEF T
    <3> QED
      BY <1>1, <2>3, <3>1, InductionUpTo
  <2>5. Joined(f[n], n)
    BY <1>1, <1>3, <2>4
  <2> QED
    BY <1>1, <2>1, <2>5 DEF Joined, n
<1> QED
  BY <1>2, <1>3

\* A sequence over a set is one over a larger set.
LEMMA LargerSeq ==
  ASSUME NEW S, NEW R, S \subseteq R, NEW s \in Seq(S)
  PROVE  s \in Seq(R)
<1>1. Len(s) \in Nat /\ s = [i \in 1..Len(s) |-> s[i]]
  OBVIOUS
<1>2. \A i \in 1..Len(s) : s[i] \in R
  OBVIOUS
<1>3. [i \in 1..Len(s) |-> s[i]] \in Seq(R)
  BY <1>1, <1>2
<1> QED
  BY <1>1, <1>3

\* A stretch of a sequence is known by its bytes.
LEMMA StretchIs ==
  ASSUME NEW S, NEW r \in Seq(S), NEW t \in Seq(S), NEW from \in Nat, from + Len(t) <= Len(r),
         \A i \in 1..Len(t) : r[from + i] = t[i]
  PROVE  SubSeq(r, from + 1, from + Len(t)) = t
<1> DEFINE n == Len(t)
           s == SubSeq(r, from + 1, from + n)
<1>1. n \in Nat /\ Len(r) \in Nat
  OBVIOUS
<1>2. s \in Seq(S) /\ Len(s) = n /\ \A i \in 1..n : s[i] = r[from + 1 + i - 1]
  <2>1. \A i \in (from + 1)..(from + n) : r[i] \in S
    OBVIOUS
  <2> QED
    BY <1>1, <2>1, SubSeqProperties
<1>3. \A i \in 1..n : from + 1 + i - 1 = from + i
  OBVIOUS
<1> HIDE DEF s
<1>4. \A i \in 1..n : s[i] = t[i]
  BY <1>2, <1>3
<1> QED
  BY <1>2, <1>4 DEF s

\* r is a and then b.
Follows(r, a, b) ==
  /\ r \in Seq(Nat) /\ Len(r) = Len(a) + Len(b)
  /\ \A i \in 1..Len(a) : r[i] = a[i]
  /\ \A i \in 1..Len(b) : r[Len(a) + i] = b[i]

\* So it is when they are joined.
LEMMA JoinFollows ==
  ASSUME NEW a \in Seq(Nat), NEW b \in Seq(Nat)
  PROVE  Follows(a \o b, a, b)
<1>1. a \o b \in Seq(Nat) /\ Len(a \o b) = Len(a) + Len(b)
  BY ConcatProperties
<1>2. \A i \in 1..Len(a) : (a \o b)[i] = a[i]
  OBVIOUS
<1>3. \A i \in 1..Len(b) : (a \o b)[Len(a) + i] = b[i]
  OBVIOUS
<1> QED
  BY <1>1, <1>2, <1>3 DEF Follows

\* r is a, b and c in their places.
Parts(S, r, a, b, c) ==
  /\ r \in Seq(S) /\ Len(r) = Len(a) + Len(b) + Len(c)
  /\ \A i \in 1..Len(a) : r[i] = a[i]
  /\ \A i \in 1..Len(b) : r[Len(a) + i] = b[i]
  /\ \A i \in 1..Len(c) : r[Len(a) + Len(b) + i] = c[i]
  /\ SubSeq(r, 1, Len(a)) = a
  /\ SubSeq(r, Len(a) + Len(b) + 1, Len(a) + Len(b) + Len(c)) = c

\* Of three sequences joined each keeps its place.
LEMMA ThreeParts ==
  ASSUME NEW S, NEW a \in Seq(S), NEW b \in Seq(S), NEW c \in Seq(S), NEW r, r = a \o b \o c
  PROVE  Parts(S, r, a, b, c)
<1>1. Len(a) \in Nat /\ Len(b) \in Nat /\ Len(c) \in Nat
  OBVIOUS
<1> DEFINE ab == a \o b
<1>2. /\ ab \in Seq(S) /\ Len(ab) = Len(a) + Len(b)
      /\ \A i \in 1..Len(a) : ab[i] = a[i]
      /\ \A i \in 1..Len(b) : ab[Len(a) + i] = b[i]
  OBVIOUS
<1> HIDE DEF ab
<1>3. r = ab \o c
  BY DEF ab
<1>4. /\ r \in Seq(S) /\ Len(r) = Len(ab) + Len(c)
      /\ \A i \in 1..Len(ab) : r[i] = ab[i]
      /\ \A i \in 1..Len(c) : r[Len(ab) + i] = c[i]
  <2>1. ab \o c \in Seq(S) /\ Len(ab \o c) = Len(ab) + Len(c)
    <3>1. ab \in Seq(S) /\ c \in Seq(S)
      BY <1>2
    <3> QED
      BY <3>1, ConcatProperties
  <2>2. \A i \in 1..Len(ab) : (ab \o c)[i] = ab[i]
    BY <1>2
  <2>3. \A i \in 1..Len(c) : (ab \o c)[Len(ab) + i] = c[i]
    BY <1>2
  <2> QED
    BY <1>3, <2>1, <2>2, <2>3
<1>5. \A i \in 1..Len(a) : i \in 1..Len(ab) /\ r[i] = a[i]
  BY <1>1, <1>2, <1>4
<1>6. ASSUME NEW i \in 1..Len(b) PROVE r[Len(a) + i] = b[i]
  <2>1. Len(a) + i \in 1..Len(ab)
    BY <1>1, <1>2
  <2> QED
    BY <1>2, <1>4, <2>1
<1>7. SubSeq(r, 0 + 1, 0 + Len(a)) = a
  BY <1>1, <1>2, <1>4, <1>5, StretchIs
<1>8. SubSeq(r, Len(a) + Len(b) + 1, Len(a) + Len(b) + Len(c)) = c
  <2> DEFINE from == Len(a) + Len(b)
  <2>1. from \in Nat /\ from + Len(c) <= Len(r) /\ \A i \in 1..Len(c) : r[from + i] = c[i]
    BY <1>1, <1>2, <1>4
  <2> HIDE DEF from
  <2>2. SubSeq(r, from + 1, from + Len(c)) = c
    BY <1>4, <2>1, StretchIs
  <2> QED
    BY <2>2 DEF from
<1> QED
  BY <1>1, <1>2, <1>4, <1>5, <1>6, <1>7, <1>8 DEF Parts

\* A text with no whitespace at its ends is kept as it is.
LEMMA StripKeeps ==
  ASSUME NEW S, NEW text \in Seq(S),
         text # <<>> => text[1] \notin Whitespace /\ text[Len(text)] \notin Whitespace
  PROVE  Strip(text) = text
<1> DEFINE n == Len(text)
           solid == {i \in DOMAIN text : text[i] \notin Whitespace}
           first == CHOOSE i \in solid : \A j \in solid : i <= j
           last == CHOOSE i \in solid : \A j \in solid : j <= i
<1>1. n \in Nat /\ DOMAIN text = 1..n /\ (text = <<>> <=> n = 0)
  BY EmptySeq
<1>2. Strip(text) = IF solid = {} THEN <<>> ELSE SubSeq(text, first, last)
  BY DEF Strip
<1>3. solid \subseteq 1..n
  BY <1>1
<1>4. SubSeq(text, 1, n) = text
  OBVIOUS
<1>5. n # 0 => 1 \in solid /\ n \in solid
  BY <1>1
<1> HIDE DEF n, solid
<1>6. CASE n = 0
  <2>1. solid = {}
    BY <1>3, <1>6
  <2> QED
    BY <1>1, <1>2, <1>6, <2>1
<1>7. CASE n # 0
  <2>1. \A j \in solid : 1 <= j /\ j <= n
    BY <1>1, <1>3
  <2>2. first = 1
    <3>1. first \in solid /\ \A j \in solid : first <= j
      BY <1>5, <1>7, <2>1
    <3> HIDE DEF first
    <3> QED
      BY <1>1, <1>3, <1>5, <1>7, <2>1, <3>1
  <2>3. last = n
    <3>1. last \in solid /\ \A j \in solid : j <= last
      BY <1>5, <1>7, <2>1
    <3> HIDE DEF last
    <3> QED
      BY <1>1, <1>3, <1>5, <1>7, <2>1, <3>1
  <2> QED
    BY <1>2, <1>4, <1>5, <1>7, <2>2, <2>3
<1> QED
  BY <1>6, <1>7

\* A text without padding, and with no whitespace at its ends, is its bytes
\* (_text).
LEMMA TextIsAll ==
  ASSUME NEW data \in Seq(Nat), \A i \in 1..Len(data) : data[i] \notin {0, 255},
         data # <<>> => data[1] \notin Whitespace /\ data[Len(data)] \notin Whitespace
  PROVE  Text(data) = data
<1> DEFINE n == Len(data)
           Q == Seq(Nat)
           round(i, t) == IF data[i] \in {0, 255} THEN t ELSE Append(t, data[i])
           step == [i \in 1..n |-> [t \in Q |-> round(i, t)]]
           Kept(f) == f = [i \in 0..n |->
                             IF i = 0 THEN <<>>
                             ELSE IF data[i] \in {0, 255} THEN f[i - 1] ELSE Append(f[i - 1], data[i])]
           h == CHOOSE f : Kept(f)
<1>1. n \in Nat /\ <<>> \in Q /\ \A i \in 1..n : data[i] \in Nat
  OBVIOUS
<1>2. step \in [1..n -> [Q -> Q]] /\ \A i \in 1..n, t \in Q : step[i][t] = round(i, t)
  BY <1>1
<1> HIDE DEF step, Q, h
<1>3. PICK g \in [0..n -> Q] : Rounds(g, n, <<>>, step)
  BY <1>1, <1>2, LoopExists
<1>4. Kept(g)
  <2> SUFFICES ASSUME NEW i \in 0..n
               PROVE  g[i] = IF i = 0 THEN <<>>
                             ELSE IF data[i] \in {0, 255} THEN g[i - 1] ELSE Append(g[i - 1], data[i])
    OBVIOUS
  <2>1. CASE i = 0
    BY <1>3, <2>1 DEF Rounds
  <2>2. CASE i # 0
    <3>1. i \in 1..n /\ i - 1 \in 0..n
      BY <1>1, <2>2
    <3>2. g[i - 1] \in Q /\ g[i] = step[i][g[i - 1]]
      BY <1>3, <3>1 DEF Rounds
    <3> QED
      BY <1>2, <2>2, <3>1, <3>2
  <2> QED
    BY <2>1, <2>2
<1>5. Kept(h) /\ Text(data) = Strip(h[n])
  BY <1>4 DEF Text, h
<1>6. h[0] = <<>> /\ \A i \in 1..n : h[i] = Append(h[i - 1], data[i])
  <2> HIDE DEF n
  <2>1. 0 \in 0..n /\ \A i \in 1..n : i \in 0..n /\ i # 0
    BY <1>1
  <2>2. \A i \in 0..n : h[i] = IF i = 0 THEN <<>>
                                ELSE IF data[i] \in {0, 255} THEN h[i - 1]
                                ELSE Append(h[i - 1], data[i])
    BY <1>5
  <2>3. \A i \in 1..n : data[i] \notin {0, 255}
    BY DEF n
  <2> QED
    BY <2>1, <2>2, <2>3
<1> DEFINE T == {i \in 0..n : h[i] = SubSeq(data, 1, i)}
<1>7. 0 \in T
  <2>1. SubSeq(data, 1, 0) = <<>>
    OBVIOUS
  <2>2. 0 \in 0..n /\ h[0] = <<>>
    BY <1>1, <1>6
  <2> HIDE DEF n
  <2> QED
    BY <2>1, <2>2
<1>8. ASSUME NEW i \in 1..n, i - 1 \in T PROVE i \in T
  <2>1. h[i] = Append(SubSeq(data, 1, i - 1), data[i])
    BY <1>6, <1>8
  <2>2. Append(SubSeq(data, 1, i - 1), data[i]) = SubSeq(data, 1, i)
    OBVIOUS
  <2>3. i \in 0..n
    OBVIOUS
  <2> HIDE DEF n
  <2> QED
    BY <2>1, <2>2, <2>3
<1>9. 0..n \subseteq T
  <2> HIDE DEF T
  <2> QED
    BY <1>1, <1>7, <1>8, InductionUpTo
<1>10. n \in 0..n /\ SubSeq(data, 1, n) = data
  OBVIOUS
<1>11. h[n] = data
  BY <1>9, <1>10
<1>12. Strip(data) = data
  BY StripKeeps
<1> QED
  BY <1>5, <1>11, <1>12

\* Of a page whose written slots come first decode_events makes their records,
\* in their order.
LEMMA WrittenAreRead ==
  ASSUME NEW raw, NEW page, page = PageRecords(raw, EVENT_RECORD_SIZE),
         Len(page) \in Nat, NEW m \in 0..Len(page),
         \A i \in 1..Len(page) : Written(page[i]) <=> i <= m
  PROVE  DecodeEvents(raw) = [j \in 1..m |-> EventRecord(page[j])]
<1> DEFINE n == Len(page)
           R == {EventRecord(page[i]) : i \in 1..n}
           Q == Seq(R)
           round(i, t) == IF Written(page[i]) THEN Append(t, EventRecord(page[i])) ELSE t
           step == [i \in 1..n |-> [t \in Q |-> round(i, t)]]
           Made(f) == f = [i \in 0..n |->
                             IF i = 0 THEN <<>>
                             ELSE IF Written(page[i]) THEN Append(f[i - 1], EventRecord(page[i]))
                             ELSE f[i - 1]]
           h == CHOOSE f : Made(f)
<1>1. n \in Nat /\ m \in 0..n /\ <<>> \in Q /\ \A i \in 1..n : EventRecord(page[i]) \in R
  OBVIOUS
<1>2. step \in [1..n -> [Q -> Q]] /\ \A i \in 1..n, t \in Q : step[i][t] = round(i, t)
  <2> HIDE DEF R, n
  <2>1. \A i \in 1..n, t \in Q : round(i, t) \in Q
    BY <1>1
  <2> HIDE DEF Q
  <2> QED
    BY <2>1
<1>3. \A i \in 1..n : Written(page[i]) <=> i <= m
  OBVIOUS
<1>4. Made(h) => DecodeEvents(raw) = h[n]
  BY DEF DecodeEvents
<1> HIDE DEF step, Q, h, n, R
<1>5. PICK g \in [0..n -> Q] : Rounds(g, n, <<>>, step)
  BY <1>1, <1>2, LoopExists
<1>6. Made(g)
  <2> SUFFICES ASSUME NEW i \in 0..n
               PROVE  g[i] = IF i = 0 THEN <<>>
                             ELSE IF Written(page[i]) THEN Append(g[i - 1], EventRecord(page[i]))
                             ELSE g[i - 1]
    OBVIOUS
  <2>1. CASE i = 0
    BY <1>5, <2>1 DEF Rounds
  <2>2. CASE i # 0
    <3>1. i \in 1..n /\ i - 1 \in 0..n
      BY <1>1, <2>2
    <3>2. g[i - 1] \in Q /\ g[i] = step[i][g[i - 1]]
      BY <1>5, <3>1 DEF Rounds
    <3> QED
      BY <1>2, <2>2, <3>1, <3>2
  <2> QED
    BY <2>1, <2>2
<1>7. Made(h)
  BY <1>6 DEF h
<1>8. h[0] = <<>> /\ \A i \in 1..n : h[i] = IF i <= m THEN Append(h[i - 1], EventRecord(page[i]))
                                            ELSE h[i - 1]
  <2>1. 0 \in 0..n /\ \A i \in 1..n : i \in 0..n /\ i # 0
    BY <1>1
  <2>2. \A i \in 0..n : h[i] = IF i = 0 THEN <<>>
                                ELSE IF Written(page[i]) THEN Append(h[i - 1], EventRecord(page[i]))
                                ELSE h[i - 1]
    BY <1>7
  <2> QED
    BY <1>3, <2>1, <2>2
<1> DEFINE upTo(i) == IF i <= m THEN i ELSE m
           T == {i \in 0..n : h[i] = [j \in 1..upTo(i) |-> EventRecord(page[j])]}
<1>9. 0 \in T
  <2>1. 0 \in 0..n /\ h[0] = <<>> /\ upTo(0) = 0
    BY <1>1, <1>8
  <2> QED
    BY <2>1
<1>10. ASSUME NEW i \in 1..n, i - 1 \in T PROVE i \in T
  <2>1. h[i - 1] = [j \in 1..upTo(i - 1) |-> EventRecord(page[j])]
    BY <1>10
  <2>2. CASE i <= m
    <3>1. upTo(i - 1) = i - 1 /\ upTo(i) = i
      BY <1>1, <2>2
    <3>2. h[i] = Append([j \in 1..(i - 1) |-> EventRecord(page[j])], EventRecord(page[i]))
      BY <1>8, <2>1, <2>2, <3>1
    <3>3. h[i] = [j \in 1..i |-> EventRecord(page[j])]
      BY <3>2
    <3> QED
      BY <3>1, <3>3
  <2>3. CASE ~(i <= m)
    <3>1. upTo(i - 1) = m /\ upTo(i) = m
      BY <1>1, <2>3
    <3>2. h[i] = h[i - 1]
      BY <1>8, <2>3
    <3> QED
      BY <2>1, <3>1, <3>2
  <2> QED
    BY <2>2, <2>3
<1> HIDE DEF T
<1>11. 0..n \subseteq T
  BY <1>1, <1>9, <1>10, InductionUpTo
<1>12. n \in T /\ upTo(n) = m
  BY <1>1, <1>11
<1> QED
  BY <1>4, <1>7, <1>12 DEF T

\* Two halves of a byte.
LEMMA HalvesOfAByte ==
  ASSUME NEW a \in 0..15, NEW b \in 0..15
  PROVE  (a * 16 + b) \div 16 = a /\ (a * 16 + b) % 16 = b
OBVIOUS

-----------------------------------------------------------------------------
(* Frames. *)

\* A frame of that many bytes.
IsFrame(raw, size) == raw = [i \in 1..size |-> raw[i]]

\* The bytes of a frame from one offset to another.
LEMMA SliceIs ==
  ASSUME NEW raw, NEW size \in Nat, IsFrame(raw, size),
         NEW from \in Nat, NEW to \in Nat, from <= to, to <= size
  PROVE  LET s == Slice(raw, from, to)
         IN s = [i \in 1..(to - from) |-> raw[from + i]] /\ Len(s) = to - from
            /\ \A i \in 1..(to - from) : s[i] = At(raw, from + i - 1)
<1> DEFINE S == {raw[i] : i \in 1..size}
<1>1. raw \in Seq(S) /\ Len(raw) = size
  BY DEF IsFrame
<1>2. Slice(raw, from, to) = SubSeq(raw, from + 1, to)
  BY <1>1 DEF Slice, Least
<1> DEFINE t == SubSeq(raw, from + 1, to)
<1>3. t \in Seq(S) /\ Len(t) = to - from /\ \A i \in 1..(to - from) : t[i] = raw[from + 1 + i - 1]
  <2>1. \A i \in (from + 1)..to : raw[i] \in S
    OBVIOUS
  <2> QED
    BY <2>1, SubSeqProperties
<1> HIDE DEF t
<1>4. \A i \in 1..(to - from) : from + 1 + i - 1 = from + i /\ (from + i - 1) + 1 = from + i
  OBVIOUS
<1>5. t = [i \in 1..(to - from) |-> t[i]]
  BY <1>3
<1>6. t = [i \in 1..(to - from) |-> raw[from + i]]
  BY <1>3, <1>4, <1>5
<1> QED
  BY <1>2, <1>3, <1>4, <1>6 DEF At, t

\* One byte of them, and how many there are.
LEMMA SliceHas ==
  ASSUME NEW raw, NEW size \in Nat, IsFrame(raw, size),
         NEW from \in Nat, NEW to \in Nat, from <= to, to <= size
  PROVE  /\ Len(Slice(raw, from, to)) = to - from
         /\ IsFrame(Slice(raw, from, to), to - from)
         /\ \A i \in 1..(to - from) : Slice(raw, from, to)[i] = At(raw, from + i - 1)
<1>1. LET s == Slice(raw, from, to)
      IN s = [i \in 1..(to - from) |-> raw[from + i]] /\ Len(s) = to - from
         /\ \A i \in 1..(to - from) : s[i] = At(raw, from + i - 1)
  BY SliceIs, ZenonT(60)
<1>2. \A i \in 1..(to - from) : Slice(raw, from, to)[i] = raw[from + i]
  BY <1>1
<1> QED
  BY <1>1, <1>2 DEF IsFrame
=============================================================================
