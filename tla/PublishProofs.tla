--------------------------- MODULE PublishProofs ---------------------------
(***************************************************************************)
(* Proofs about the publication of the pool, Publish: whatever publishers, *)
(* commands, losses and returns of the connection do to each other, a      *)
(* subscriber has the newest pool under way. For any number of versions    *)
(* and lines.                                                              *)
(***************************************************************************)
EXTENDS Publish, SequenceTheorems, WellFoundedInduction, TLAPS

-----------------------------------------------------------------------------
(* Smallest and largest places *)

LEMMA LeastNatural ==
  ASSUME NEW S, S \subseteq Nat, S # {}
  PROVE  \E m \in S : \A k \in S : m <= k
<1>1. PICK m \in S : \A k \in S : ~ (<<k, m>> \in OpToRel(<, Nat))
  BY NatLessThanWellFounded, WFMin
<1>2. \A k \in S : ~ (k < m)
  BY <1>1 DEF OpToRel
<1>3. QED
  BY <1>2

LEMMA MinIs ==
  ASSUME NEW S, S \subseteq Nat, S # {}
  PROVE  Min(S) \in S /\ \A k \in S : Min(S) <= k
<1>1. \E m \in S : \A k \in S : m <= k
  BY LeastNatural
<1>2. QED
  BY <1>1 DEF Min

LEMMA MaxIs ==
  ASSUME NEW n \in Nat, NEW S, S \subseteq 1..n, S # {}
  PROVE  Max(S) \in S /\ \A k \in S : Max(S) >= k
<1> DEFINE Rest == {n - k : k \in S}
<1>1. Rest \subseteq Nat /\ Rest # {}
  <2>1. \A k \in S : n - k \in Nat
    OBVIOUS
  <2>2. PICK k \in S : TRUE
    OBVIOUS
  <2>3. n - k \in Rest
    OBVIOUS
  <2>4. QED
    BY <2>1, <2>3
<1>2. PICK r \in Rest : \A x \in Rest : r <= x
  BY <1>1, LeastNatural
<1>3. PICK m \in S : r = n - m
  BY <1>2
<1>4. \A k \in S : m >= k
  BY <1>2, <1>3
<1>5. QED
  BY <1>3, <1>4 DEF Max

-----------------------------------------------------------------------------
(* The lines of the subscriber *)

\* FirstBlank is the place of the first empty line, or the one behind the end.
LEMMA FirstBlankIs ==
  ASSUME NEW q \in Seq(Line)
  PROVE  /\ FirstBlank(q) \in 1..(Len(q) + 1)
         /\ \A i \in 1..Len(q) : i < FirstBlank(q) => q[i] # Blank
         /\ FirstBlank(q) <= Len(q) => q[FirstBlank(q)] = Blank
<1> DEFINE S == {i \in 1..Len(q) : q[i] = Blank} \cup {Len(q) + 1}
<1>1. Len(q) \in Nat
  BY LenProperties
<1>2. S \subseteq Nat /\ S # {}
  BY <1>1
<1> HIDE DEF S
<1>3. Min(S) \in S /\ \A k \in S : Min(S) <= k
  BY <1>2, MinIs
<1>4. FirstBlank(q) = Min(S)
  BY DEF FirstBlank, S
<1>5. \A i \in 1..Len(q) : q[i] = Blank => Min(S) <= i
  BY <1>3 DEF S
<1>6. (Min(S) \in 1..Len(q) /\ q[Min(S)] = Blank) \/ Min(S) = Len(q) + 1
  BY <1>3 DEF S
<1>7. PICK m \in Nat : m = Min(S)
  BY <1>1, <1>6
<1>8. QED
  BY <1>1, <1>4, <1>5, <1>6, <1>7

\* The lines of a subscriber, the one it works with first.
Stock == Line \cup {0}
Filled(q) == {i \in 1..Len(q) : q[i] # Blank}

\* The last filled line is the one behind which there are empty lines only.
LEMMA LastFilledIs ==
  ASSUME NEW q \in Seq(Stock), NEW i \in 1..Len(q), q[i] # Blank,
         \A j \in 1..Len(q) : j > i => q[j] = Blank
  PROVE  LastFilled(q) = q[i]
<1>1. Len(q) \in Nat
  BY LenProperties
<1>2. Filled(q) \subseteq 1..Len(q) /\ i \in Filled(q)
  BY DEF Filled
<1>3. Max(Filled(q)) \in Filled(q) /\ \A k \in Filled(q) : Max(Filled(q)) >= k
  BY <1>1, <1>2, MaxIs
<1>4. Max(Filled(q)) = i
  BY <1>1, <1>2, <1>3 DEF Filled
<1>5. QED
  BY <1>4 DEF LastFilled, Filled

\* ... and there is one where the first line is filled.
LEMMA LastFilledAt ==
  ASSUME NEW q \in Seq(Stock), NEW b \in 1..Len(q), q[b] # Blank
  PROVE  \E i \in 1..Len(q) : /\ i >= b /\ q[i] # Blank
                              /\ \A j \in 1..Len(q) : j > i => q[j] = Blank
                              /\ LastFilled(q) = q[i]
<1>1. Len(q) \in Nat
  BY LenProperties
<1>2. Filled(q) \subseteq 1..Len(q) /\ b \in Filled(q)
  BY DEF Filled
<1>3. Max(Filled(q)) \in Filled(q) /\ \A k \in Filled(q) : Max(Filled(q)) >= k
  BY <1>1, <1>2, MaxIs
<1>4. PICK i \in Filled(q) : i = Max(Filled(q))
  BY <1>3
<1>5. i \in 1..Len(q) /\ i >= b /\ q[i] # Blank
  BY <1>2, <1>3, <1>4 DEF Filled
<1>6. \A j \in 1..Len(q) : j > i => q[j] = Blank
  BY <1>1, <1>3, <1>4, <1>5 DEF Filled
<1>7. QED
  BY <1>5, <1>6, LastFilledIs

\* An empty line behind the others changes nothing.
LEMMA BlankAppended ==
  ASSUME NEW q \in Seq(Stock), NEW b \in 1..Len(q), q[b] # Blank
  PROVE  LastFilled(Append(q, Blank)) = LastFilled(q)
<1>1. /\ Append(q, Blank) \in Seq(Stock)
      /\ Len(Append(q, Blank)) = Len(q) + 1
      /\ \A j \in 1..Len(q) : Append(q, Blank)[j] = q[j]
      /\ Append(q, Blank)[Len(q) + 1] = Blank
      /\ Len(q) \in Nat
  BY DEF Stock, Line
<1>2. PICK i \in 1..Len(q) : /\ q[i] # Blank
                             /\ \A j \in 1..Len(q) : j > i => q[j] = Blank
                             /\ LastFilled(q) = q[i]
  BY LastFilledAt
<1>3. /\ i \in 1..Len(Append(q, Blank))
      /\ Append(q, Blank)[i] = q[i]
      /\ \A j \in 1..Len(Append(q, Blank)) : j > i => Append(q, Blank)[j] = Blank
  BY <1>1, <1>2
<1>4. QED
  BY <1>1, <1>2, <1>3, LastFilledIs

\* A snapshot behind the others is the newest.
LEMMA SnapshotAppended ==
  ASSUME NEW q \in Seq(Stock), NEW v \in Stock, v # Blank
  PROVE  LastFilled(Append(q, v)) = v
<1>1. /\ Append(q, v) \in Seq(Stock)
      /\ Len(Append(q, v)) = Len(q) + 1
      /\ Append(q, v)[Len(q) + 1] = v
      /\ Len(q) \in Nat
  OBVIOUS
<1>2. PICK i \in 1..Len(Append(q, v)) : i = Len(q) + 1
  BY <1>1
<1>3. \A j \in 1..Len(Append(q, v)) : ~ (j > i)
  BY <1>1, <1>2
<1>4. QED
  BY <1>1, <1>2, <1>3, LastFilledIs

\* r is q from the filled line b on, without the empty line behind it if c is
\* b + 1: the last filled line stays.
LEMMA TakenKeepsLast ==
  ASSUME NEW q \in Seq(Stock), NEW r \in Seq(Stock),
         NEW b \in 1..Len(q), q[b] # Blank,
         NEW c \in b..Len(q), c = b \/ (c = b + 1 /\ q[c] = Blank),
         Len(r) = Len(q) - c + 1, r[1] = q[b],
         \A j \in 2..Len(r) : r[j] = q[c + j - 1]
  PROVE  LastFilled(r) = LastFilled(q)
<1>1. Len(q) \in Nat /\ Len(r) \in Nat
  BY LenProperties
<1>2. PICK i \in 1..Len(q) : /\ i >= b /\ q[i] # Blank
                             /\ \A j \in 1..Len(q) : j > i => q[j] = Blank
                             /\ LastFilled(q) = q[i]
  BY LastFilledAt
<1>3. CASE i = b
  <2>1. ASSUME NEW j \in 1..Len(r), j > 1 PROVE r[j] = Blank
    <3>1. j \in 2..Len(r) /\ r[j] = q[c + j - 1]
      BY <1>1, <2>1
    <3>2. c + j - 1 \in 1..Len(q) /\ c + j - 1 > i
      BY <1>1, <1>3, <2>1, <3>1
    <3> QED
      BY <1>2, <3>1, <3>2
  <2>2. 1 \in 1..Len(r)
    BY <1>1
  <2>3. QED
    BY <1>2, <1>3, <2>1, <2>2, LastFilledIs
<1>4. CASE i # b
  <2>1. i > c
    BY <1>1, <1>2, <1>4
  <2>2. PICK k \in 2..Len(r) : k = i - c + 1
    <3>1. c \in Int /\ i \in Int /\ i <= Len(q) /\ Len(r) = Len(q) - c + 1
      BY <1>1
    <3>2. i - c + 1 \in 2..Len(r)
      BY <1>1, <2>1, <3>1
    <3>3. QED
      BY <3>2
  <2>3. k \in 1..Len(r) /\ r[k] = q[i]
    <3>1. r[k] = q[c + k - 1] /\ k \in 1..Len(r)
      OBVIOUS
    <3>2. c + k - 1 = i
      BY <1>1, <2>2
    <3>3. QED
      BY <3>1, <3>2
  <2>4. \A j \in 1..Len(r) : j > k => r[j] = Blank
    <3>1. TAKE j \in 1..Len(r)
    <3>2. HAVE j > k
    <3>3. j \in 2..Len(r) /\ c + j - 1 \in 1..Len(q) /\ c + j - 1 > i
      BY <1>1, <2>2, <3>2
    <3>4. r[j] = q[c + j - 1]
      BY <3>3
    <3>5. QED
      BY <1>2, <3>3, <3>4
  <2>5. QED
    BY <1>2, <2>3, <2>4, LastFilledIs
<1>5. QED
  BY <1>3, <1>4

\* The lines of a subscriber: the one it works with, its buffer, the wire.
Lines(v, s, t) == <<v>> \o s \o t

\* ... place by place.
Places(q, v, s, t) ==
  /\ q \in Seq(Stock) /\ Len(q) = 1 + Len(s) + Len(t)
  /\ q[1] = v
  /\ \A i \in 1..Len(s) : q[1 + i] = s[i]
  /\ \A i \in 1..Len(t) : q[1 + Len(s) + i] = t[i]

LEMMA LinesAre ==
  ASSUME NEW v \in Stock, NEW s \in Seq(Line), NEW t \in Seq(Line)
  PROVE  Places(Lines(v, s, t), v, s, t)
<1>0. PICK q : q = <<v>> \o s \o t
  OBVIOUS
<1>1. <<v>> \in Seq(Stock) /\ Len(<<v>>) = 1 /\ <<v>>[1] = v
  OBVIOUS
<1>2. s \in Seq(Stock) /\ t \in Seq(Stock)
  BY SeqMonotonic DEF Stock
<1>3. Len(s) \in Nat /\ Len(t) \in Nat
  BY LenProperties
<1>4. PICK p : p = <<v>> \o s
  OBVIOUS
<1>5. /\ p \in Seq(Stock) /\ Len(p) = 1 + Len(s) /\ p[1] = v
      /\ \A i \in 1..Len(s) : p[1 + i] = s[i]
  BY <1>1, <1>2, <1>3, <1>4, ConcatProperties
<1>6. /\ q \in Seq(Stock) /\ Len(q) = Len(p) + Len(t)
      /\ \A i \in 1..Len(p) : q[i] = p[i]
      /\ \A i \in 1..Len(t) : q[Len(p) + i] = t[i]
  BY <1>0, <1>2, <1>3, <1>4, <1>5, ConcatProperties
<1>7. QED
  BY <1>0, <1>3, <1>5, <1>6 DEF Lines, Places

\* A line written to the connection comes behind all others.
LEMMA WrittenBehind ==
  ASSUME NEW v \in Stock, NEW s \in Seq(Line), NEW t \in Seq(Line), NEW l \in Line
  PROVE  Lines(v, s, Append(t, l)) = Append(Lines(v, s, t), l)
<1>1. PICK q : q = Lines(v, s, t)
  OBVIOUS
<1>2. PICK r : r = Lines(v, s, Append(t, l))
  OBVIOUS
<1>3. /\ q \in Seq(Stock) /\ Len(q) = 1 + Len(s) + Len(t)
      /\ q[1] = v
      /\ \A i \in 1..Len(s) : q[1 + i] = s[i]
      /\ \A i \in 1..Len(t) : q[1 + Len(s) + i] = t[i]
  <2>1. Places(q, v, s, t)
    BY <1>1, LinesAre
  <2>2. QED
    BY <2>1 DEF Places
<1>4. /\ Append(t, l) \in Seq(Line) /\ Len(Append(t, l)) = Len(t) + 1
      /\ \A i \in 1..Len(t) : Append(t, l)[i] = t[i]
      /\ Append(t, l)[Len(t) + 1] = l
      /\ Len(t) \in Nat /\ Len(s) \in Nat
  BY LenProperties
<1>5. /\ r \in Seq(Stock) /\ Len(r) = 1 + Len(s) + Len(t) + 1
      /\ r[1] = v
      /\ \A i \in 1..Len(s) : r[1 + i] = s[i]
      /\ \A i \in 1..Len(t) : r[1 + Len(s) + i] = t[i]
      /\ r[1 + Len(s) + Len(t) + 1] = l
  <2>1. /\ r \in Seq(Stock) /\ Len(r) = 1 + Len(s) + Len(Append(t, l))
        /\ r[1] = v
        /\ \A i \in 1..Len(s) : r[1 + i] = s[i]
        /\ \A i \in 1..Len(Append(t, l)) : r[1 + Len(s) + i] = Append(t, l)[i]
    <3>1. Append(t, l) \in Seq(Line)
      BY <1>4
    <3>2. Places(r, v, s, Append(t, l))
      BY <1>2, <3>1, LinesAre
    <3>3. QED
      BY <3>2 DEF Places
  <2>2. Len(t) + 1 \in 1..Len(Append(t, l))
    BY <1>4
  <2>3. QED
    BY <1>4, <2>1, <2>2
<1>6. /\ Append(q, l) \in Seq(Stock) /\ Len(Append(q, l)) = Len(q) + 1
      /\ \A i \in 1..Len(q) : Append(q, l)[i] = q[i]
      /\ Append(q, l)[Len(q) + 1] = l
  BY <1>3 DEF Stock
<1>7. \A i \in 1..Len(r) : r[i] = Append(q, l)[i]
  <2>1. TAKE i \in 1..Len(r)
  <2>2. CASE i = 1
    BY <1>3, <1>4, <1>5, <1>6, <2>2
  <2>3. CASE i \in 2..(1 + Len(s))
    <3>1. PICK j \in 1..Len(s) : i = 1 + j
      BY <1>4, <2>3
    <3>2. QED
      BY <1>3, <1>4, <1>5, <1>6, <3>1
  <2>4. CASE i \in (2 + Len(s))..(1 + Len(s) + Len(t))
    <3>1. i - (1 + Len(s)) \in 1..Len(t) /\ i = 1 + Len(s) + (i - (1 + Len(s)))
      BY <1>4, <2>4
    <3>3. PICK j \in 1..Len(t) : i = 1 + Len(s) + j
      BY <3>1
    <3>2. QED
      BY <1>3, <1>4, <1>5, <1>6, <3>3
  <2>5. CASE i = 1 + Len(s) + Len(t) + 1
    BY <1>3, <1>5, <1>6, <2>5
  <2>6. QED
    <3>1. i \in Int /\ 1 <= i /\ i <= 1 + Len(s) + Len(t) + 1
      BY <1>4, <1>5
    <3>2. \/ i = 1 \/ i \in 2..(1 + Len(s))
          \/ i \in (2 + Len(s))..(1 + Len(s) + Len(t))
          \/ i = 1 + Len(s) + Len(t) + 1
      BY <1>4, <3>1
    <3>3. QED
      BY <3>2, <2>2, <2>3, <2>4, <2>5
<1>8. QED
  BY <1>1, <1>2, <1>3, <1>5, <1>6, <1>7, SeqEqual

-----------------------------------------------------------------------------
(* Type correctness *)

LEMMA ReadType ==
  ASSUME TypeOK, NEW p \in Publisher, NEW v \in Version, Read(p, v)
  PROVE  /\ snap' \in [Publisher -> Version] /\ to' \in [Publisher -> BOOLEAN]
         /\ pc' \in [Publisher -> {"idle", "update", "snapshot", "line", "blank", "flag"}]
         /\ overlap' \in BOOLEAN /\ silenced' \in BOOLEAN
BY DEF TypeOK, Read, Others

\* What readCb is given: the lines left over and the first k that arrive.
LEMMA Given ==
  ASSUME NEW s \in Seq(Line), NEW t \in Seq(Line), NEW k \in 1..Len(t),
         NEW q, q = s \o SubSeq(t, 1, k)
  PROVE  /\ q \in Seq(Line) /\ Len(q) = Len(s) + k
         /\ \A i \in 1..Len(s) : q[i] = s[i]
         /\ \A i \in 1..k : q[Len(s) + i] = t[i]
<1>1. Len(t) \in Nat /\ Len(s) \in Nat
  BY LenProperties
<1>2. PICK u : u = SubSeq(t, 1, k)
  OBVIOUS
<1>3. \A i \in 1..k : t[i] \in Line
  BY <1>1
<1>4. /\ u \in Seq(Line) /\ Len(u) = k
      /\ \A i \in 1..k : u[i] = t[i]
  BY <1>1, <1>2, <1>3, SubSeqProperties
<1>5. QED
  BY <1>1, <1>2, <1>4, ConcatProperties

\* ... what stays on the wire ...
LEMMA Behind ==
  ASSUME NEW t \in Seq(Line), NEW k \in Nat, k <= Len(t), NEW q,
         q = SubSeq(t, k + 1, Len(t))
  PROVE  /\ q \in Seq(Line) /\ Len(q) = Len(t) - k
         /\ \A i \in 1..(Len(t) - k) : q[i] = t[k + i]
<1>1. Len(t) \in Nat
  BY LenProperties
<1>2. \A i \in (k + 1)..Len(t) : t[i] \in Line
  BY <1>1
<1>3. QED
  BY <1>1, <1>2, SubSeqProperties

LEMMA DeliverType ==
  ASSUME TypeOK, NEW k \in 1..Len(wire), Deliver(k)
  PROVE  /\ copy' \in Version \cup {0} /\ input' \in Seq(Line) /\ wire' \in Seq(Line)
<1>1. wire \in Seq(Line) /\ input \in Seq(Line) /\ Len(wire) \in Nat
  BY DEF TypeOK
<1>2. PICK q : q = input \o SubSeq(wire, 1, k)
  OBVIOUS
<1>3. q \in Seq(Line) /\ Len(q) \in Nat
  BY <1>1, <1>2, Given, LenProperties
<1>4. PICK b \in 1..(Len(q) + 1) : b = FirstBlank(q)
  BY <1>3, FirstBlankIs
<1>5. /\ copy' = IF b = 1 THEN copy ELSE q[b - 1]
      /\ input' = SubSeq(q, b + 1, Len(q))
      /\ wire' = SubSeq(wire, k + 1, Len(wire))
  BY <1>2, <1>4 DEF Deliver, readCb, fillExecMap
<1>6. b # 1 => q[b - 1] \in Version
  <2>1. SUFFICES ASSUME b # 1 PROVE q[b - 1] \in Version
    OBVIOUS
  <2>2. PICK i \in 1..Len(q) : i = b - 1
    BY <1>3, <1>4, <2>1
  <2>3. q[i] # Blank /\ q[i] \in Line
    BY <1>3, <1>4, <2>2, FirstBlankIs
  <2>4. QED
    BY <2>2, <2>3 DEF Line
<1>7. wire' \in Seq(Line)
  BY <1>1, <1>5, Behind
<1>8. input' \in Seq(Line)
  <2>1. \A i \in (b + 1)..Len(q) : q[i] \in Line
    BY <1>3
  <2>2. QED
    BY <1>3, <1>5, <2>1, SubSeqProperties
<1>9. QED
  BY <1>5, <1>6, <1>7, <1>8 DEF TypeOK

LEMMA TypeInit == Init => TypeOK
<1> SUFFICES ASSUME Init PROVE TypeOK
  OBVIOUS
<1>1. 1 \in Version
  BY BoundAssumption DEF Version
<1>2. <<>> \in Seq(Line)
  BY EmptySeq
<1>3. pc \in [Publisher -> {"idle", "update", "snapshot", "line", "blank", "flag"}]
  BY DEF Init
<1>4. snap \in [Publisher -> Version] /\ to \in [Publisher -> BOOLEAN]
  BY <1>1 DEF Init
<1>5. QED
  BY <1>1, <1>2, <1>3, <1>4 DEF Init, TypeOK

LEMMA TypeStep == TypeOK /\ [Next]_vars => TypeOK'
<1> SUFFICES ASSUME TypeOK, [Next]_vars PROVE TypeOK'
  OBVIOUS
<1> USE DEF service, publishing, subscriber, history
<1>1. CASE FirstStart
  <2>1. /\ snap' \in [Publisher -> Version] /\ to' \in [Publisher -> BOOLEAN]
        /\ pc' \in [Publisher -> {"idle", "update", "snapshot", "line", "blank", "flag"}]
        /\ overlap' \in BOOLEAN /\ silenced' \in BOOLEAN
    BY <1>1, ReadType DEF FirstStart, TypeOK, Publisher
  <2>2. mutexExecs' \in Publisher \cup {Nobody}
    BY <1>1 DEF FirstStart, Publisher
  <2>3. QED
    BY <1>1, <2>1, <2>2 DEF FirstStart, TypeOK
<1>2. CASE FirstStartEnds
  BY <1>2 DEF FirstStartEnds, TypeOK
<1>3. ASSUME NEW p \in Publisher, Change(p) PROVE TypeOK'
  <2>1. pool' \in Version /\ pool' = pool + 1
    BY <1>3, BoundAssumption DEF Change, TypeOK, Version
  <2>2. CASE isFirstStart
    BY <1>3, <2>1, <2>2 DEF Change, TypeOK
  <2>3. CASE ~isFirstStart
    <3>1. /\ snap' \in [Publisher -> Version] /\ to' \in [Publisher -> BOOLEAN]
          /\ pc' \in [Publisher -> {"idle", "update", "snapshot", "line", "blank", "flag"}]
          /\ overlap' \in BOOLEAN /\ silenced' \in BOOLEAN
      BY <1>3, <2>1, <2>3, ReadType DEF Change
    <3>2. QED
      BY <1>3, <2>1, <2>3, <3>1 DEF Change, TypeOK
  <2>4. QED
    BY <2>2, <2>3
<1>4. CASE Command \/ Sync
  <2>1. CASE Command
    BY <2>1 DEF Command, TypeOK
  <2>2. CASE Sync
    <3>1. pool' \in Version
      BY <2>2, BoundAssumption DEF Sync, TypeOK, Version
    <3>2. QED
      BY <2>2, <3>1 DEF Sync, TypeOK
  <2>3. QED
    BY <1>4, <2>1, <2>2
<1>5. CASE Snapshot
  <2>1. CASE isFirstStart
    BY <1>5, <2>1 DEF Snapshot, TypeOK
  <2>2. CASE ~isFirstStart
    <3>1. /\ snap' \in [Publisher -> Version] /\ to' \in [Publisher -> BOOLEAN]
          /\ pc' \in [Publisher -> {"idle", "update", "snapshot", "line", "blank", "flag"}]
          /\ overlap' \in BOOLEAN /\ silenced' \in BOOLEAN
      BY <1>5, <2>2, ReadType DEF Snapshot, TypeOK, Publisher
    <3>2. QED
      BY <1>5, <3>1 DEF Snapshot, TypeOK
  <2>3. QED
    BY <2>1, <2>2
<1>6. ASSUME NEW p \in Publisher, WriteLine(p) PROVE TypeOK'
  <2>1. snap[p] \in Line
    BY DEF TypeOK, Line
  <2>2. wire' \in Seq(Line)
    BY <1>6, <2>1 DEF WriteLine, TypeOK
  <2>3. QED
    BY <1>6, <2>2 DEF WriteLine, TypeOK
<1>7. ASSUME NEW p \in Publisher, WriteBlank(p) PROVE TypeOK'
  <2>1. wire' \in Seq(Line)
    BY <1>7 DEF WriteBlank, TypeOK, Line
  <2>2. /\ pc' \in [Publisher -> {"idle", "update", "snapshot", "line", "blank", "flag"}]
        /\ mutexExecs' \in Publisher \cup {Nobody}
    BY <1>7 DEF WriteBlank, TypeOK
  <2>3. QED
    BY <1>7, <2>1, <2>2 DEF WriteBlank, TypeOK
<1>8. CASE doSubscribe
  BY <1>8 DEF doSubscribe, TypeOK
<1>9. ASSUME NEW k \in 1..Len(wire), Deliver(k) PROVE TypeOK'
  BY <1>9, DeliverType DEF Deliver, TypeOK
<1>10. CASE Break
  BY <1>10, EmptySeq DEF Break, TypeOK
<1>11. CASE subscribe \/ Refused \/ Connected
  BY <1>11 DEF subscribe, Refused, Connected, TypeOK
<1>12. CASE UNCHANGED vars
  BY <1>12 DEF vars, TypeOK
<1>13. QED
  BY <1>1, <1>2, <1>3, <1>4, <1>5, <1>6, <1>7, <1>8, <1>9, <1>10, <1>11, <1>12
     DEF Next, Publishes, Arrives

\* Every variable keeps its type, for any number of versions and of lines on
\* their way; in particular readCb never takes an empty line for a snapshot.
THEOREM TypeCorrect == Spec => []TypeOK
BY TypeInit, TypeStep, PTL DEF Spec

-----------------------------------------------------------------------------
(* What is under way *)

\* What a subscriber works with is no empty line.
LEMMA CopyFilled ==
  ASSUME NEW v \in Version \cup {0}
  PROVE  v \in Stock /\ v # Blank
BY BlankAssumption, BoundAssumption DEF Version, Stock, Line

\* r is q from the filled line b on, without the empty line behind it if c is
\* b + 1.
From(q, r, b, c) ==
  /\ q[b] # Blank
  /\ c = b \/ (c = b + 1 /\ q[c] = Blank)
  /\ Len(r) = Len(q) - c + 1
  /\ r[1] = q[b]
  /\ \A j \in 2..Len(r) : r[j] = q[c + j - 1]

\* The snapshots that arrive replace each other in their order, and what is
\* left over stays behind them.
LEMMA DeliverTakes ==
  ASSUME TypeOK, TypeOK', NEW k \in 1..Len(wire), Deliver(k),
         NEW L, L = Lines(copy, input, wire), NEW R, R = Lines(copy', input', wire')
  PROVE  /\ L \in Seq(Stock) /\ R \in Seq(Stock)
         /\ \E b \in 1..Len(L) : \E c \in b..Len(L) : From(L, R, b, c)
<1>1. PICK q : q = input \o SubSeq(wire, 1, k)
  OBVIOUS
<1>2. /\ wire \in Seq(Line) /\ input \in Seq(Line)
      /\ Len(wire) \in Nat /\ Len(input) \in Nat
  BY LenProperties DEF TypeOK
<1>3. /\ q \in Seq(Line) /\ Len(q) = Len(input) + k /\ Len(q) \in Nat
      /\ \A i \in 1..Len(input) : q[i] = input[i]
      /\ \A i \in 1..k : q[Len(input) + i] = wire[i]
  <2>1. /\ q \in Seq(Line) /\ Len(q) = Len(input) + k
        /\ \A i \in 1..Len(input) : q[i] = input[i]
        /\ \A i \in 1..k : q[Len(input) + i] = wire[i]
    BY <1>1, <1>2, Given
  <2>2. QED
    BY <1>2, <2>1
<1>4. PICK b \in 1..(Len(q) + 1) : b = FirstBlank(q)
  BY <1>3, FirstBlankIs
<1>5. b <= Len(q) => q[b] = Blank
  BY <1>3, <1>4, FirstBlankIs
<1>6. /\ copy' = IF b = 1 THEN copy ELSE q[b - 1]
      /\ input' = SubSeq(q, b + 1, Len(q))
      /\ wire' = SubSeq(wire, k + 1, Len(wire))
  BY <1>1, <1>4 DEF Deliver, readCb, fillExecMap
<1>7. /\ Len(wire') = Len(wire) - k
      /\ \A i \in 1..(Len(wire) - k) : wire'[i] = wire[k + i]
  BY <1>2, <1>6, Behind
<1>8. /\ Len(input') = IF b <= Len(q) THEN Len(q) - b ELSE 0
      /\ \A i \in 1..Len(input') : input'[i] = q[b + i]
  <2>1. \A i \in (b + 1)..Len(q) : q[i] \in Line
    BY <1>3
  <2>2. /\ Len(input') = IF b + 1 <= Len(q) THEN Len(q) - (b + 1) + 1 ELSE 0
        /\ \A i \in 1..(Len(q) - (b + 1) + 1) : input'[i] = q[b + 1 + i - 1]
    BY <1>3, <1>6, <2>1, SubSeqProperties
  <2>3. QED
    BY <1>3, <2>2
<1>11. /\ L \in Seq(Stock) /\ Len(L) = 1 + Len(input) + Len(wire) /\ L[1] = copy
       /\ \A i \in 1..Len(input) : L[1 + i] = input[i]
       /\ \A i \in 1..Len(wire) : L[1 + Len(input) + i] = wire[i]
  <2>1. Places(L, copy, input, wire)
    BY <1>2, CopyFilled, LinesAre DEF TypeOK
  <2>2. QED
    BY <2>1 DEF Places
<1>12. /\ R \in Seq(Stock) /\ Len(R) = 1 + Len(input') + Len(wire') /\ R[1] = copy'
       /\ \A i \in 1..Len(input') : R[1 + i] = input'[i]
       /\ \A i \in 1..Len(wire') : R[1 + Len(input') + i] = wire'[i]
  <2>1. Places(R, copy', input', wire')
    <3>1. copy' \in Stock /\ input' \in Seq(Line) /\ wire' \in Seq(Line)
      BY CopyFilled DEF TypeOK
    <3>2. QED
      BY <3>1, LinesAre
  <2>2. QED
    BY <2>1 DEF Places
<1>13. \A i \in 1..Len(q) : L[1 + i] = q[i]
  <2>1. TAKE i \in 1..Len(q)
  <2>2. CASE i \in 1..Len(input)
    BY <1>3, <1>11, <2>2
  <2>3. CASE i \notin 1..Len(input)
    <3>1. i - Len(input) \in 1..k
      BY <1>2, <1>3, <2>3
    <3>2. PICK m \in 1..k : i = Len(input) + m
      BY <1>2, <3>1
    <3>3. m \in 1..Len(wire)
      BY <1>2
    <3>4. L[1 + Len(input) + m] = wire[m] /\ q[Len(input) + m] = wire[m]
      BY <1>3, <1>11, <3>3
    <3>5. QED
      BY <1>2, <3>2, <3>4
  <2>4. QED
    BY <2>2, <2>3
<1>14. b \in 1..Len(L) /\ L[b] = copy' /\ L[b] # Blank
  <2>1. b \in 1..Len(L)
    BY <1>2, <1>3, <1>11
  <2>2. L[b] = copy'
    <3>1. CASE b = 1
      BY <1>6, <1>11, <3>1
    <3>2. CASE b # 1
      <4>1. PICK i \in 1..Len(q) : i = b - 1 /\ b = 1 + i
        BY <1>3, <3>2
      <4>2. QED
        BY <1>6, <1>13, <3>2, <4>1
    <3>3. QED
      BY <3>1, <3>2
  <2>3. copy' # Blank
    BY CopyFilled DEF TypeOK
  <2>4. QED
    BY <2>1, <2>2, <2>3
<1>15. CASE b <= Len(q)
  <2>1. PICK c \in b..Len(L) : c = b + 1
    BY <1>2, <1>3, <1>11, <1>15
  <2>2. L[c] = Blank
    <3>1. b \in 1..Len(q) /\ c = 1 + b
      BY <1>3, <1>15, <2>1
    <3>2. QED
      BY <1>5, <1>13, <1>15, <3>1
  <2>3. Len(R) = Len(L) - c + 1
    BY <1>2, <1>3, <1>7, <1>8, <1>11, <1>12, <1>15, <2>1
  <2>4. \A j \in 2..Len(R) : R[j] = L[c + j - 1]
    <3>1. TAKE j \in 2..Len(R)
    <3>2. CASE j <= 1 + Len(input')
      <4>1. PICK i \in 1..Len(input') : j = 1 + i
        BY <1>3, <1>8, <1>15, <3>2
      <4>2. b + i \in 1..Len(q) /\ c + j - 1 = 1 + (b + i)
        <5>1. b \in Nat /\ i \in Nat /\ c = b + 1 /\ j = 1 + i
          BY <1>3, <2>1, <4>1
        <5>2. 1 <= i /\ i <= Len(q) - b
          BY <1>3, <1>8, <1>15, <4>1
        <5>3. PICK n \in Nat : n = Len(q)
          BY <1>3
        <5>4. b + i \in 1..n
          BY <5>1, <5>2, <5>3
        <5>5. c + j - 1 = 1 + (b + i)
          BY <5>1
        <5>6. QED
          BY <5>3, <5>4, <5>5
      <4>3. R[j] = q[b + i] /\ L[1 + (b + i)] = q[b + i]
        BY <1>8, <1>12, <1>13, <4>1, <4>2
      <4>4. QED
        BY <4>2, <4>3
    <3>3. CASE ~ (j <= 1 + Len(input'))
      <4>1. j - (1 + Len(input')) \in 1..Len(wire')
        BY <1>2, <1>3, <1>7, <1>8, <1>12, <1>15, <3>3
      <4>2. PICK i \in 1..Len(wire') : j = 1 + Len(input') + i
        <5>1. PICK m \in 1..Len(wire') : m = j - (1 + Len(input'))
          BY <4>1
        <5>2. j = 1 + Len(input') + m
          BY <1>3, <1>8, <1>15, <5>1
        <5>3. QED
          BY <5>2
      <4>3. k + i \in 1..Len(wire) /\ c + j - 1 = 1 + Len(input) + (k + i)
        BY <1>2, <1>3, <1>7, <1>8, <1>15, <2>1, <4>2
      <4>4. R[j] = wire[k + i] /\ L[1 + Len(input) + (k + i)] = wire[k + i]
        BY <1>2, <1>7, <1>11, <1>12, <4>2, <4>3
      <4>5. QED
        BY <4>3, <4>4
    <3>4. QED
      BY <3>2, <3>3
  <2>5. QED
    <3>1. R[1] = L[b] /\ (c = b \/ (c = b + 1 /\ L[c] = Blank))
      BY <1>12, <1>14, <2>1, <2>2
    <3>2. From(L, R, b, c)
      BY <1>14, <2>3, <2>4, <3>1 DEF From
    <3>3. QED
      BY <1>11, <1>12, <1>14, <3>2
<1>16. CASE ~ (b <= Len(q))
  <2>1. b = Len(q) + 1 /\ Len(input') = 0
    BY <1>3, <1>8, <1>16
  <2>2. PICK c \in b..Len(L) : c = b
    BY <1>14
  <2>3. Len(R) = Len(L) - c + 1
    BY <1>2, <1>3, <1>7, <1>11, <1>12, <2>1, <2>2
  <2>4. \A j \in 2..Len(R) : R[j] = L[c + j - 1]
    <3>1. TAKE j \in 2..Len(R)
    <3>2. j - 1 \in 1..Len(wire')
      BY <1>2, <1>7, <1>12, <2>1
    <3>3. PICK i \in 1..Len(wire') : j = 1 + Len(input') + i
      BY <2>1, <3>2
    <3>4. k + i \in 1..Len(wire) /\ c + j - 1 = 1 + Len(input) + (k + i)
      BY <1>2, <1>3, <1>7, <2>1, <2>2, <3>3
    <3>5. R[j] = wire[k + i] /\ L[1 + Len(input) + (k + i)] = wire[k + i]
      BY <1>2, <1>7, <1>11, <1>12, <3>3, <3>4
    <3>6. QED
      BY <3>4, <3>5
  <2>5. QED
    <3>1. R[1] = L[b] /\ (c = b \/ (c = b + 1 /\ L[c] = Blank))
      BY <1>12, <1>14, <2>2
    <3>2. From(L, R, b, c)
      BY <1>14, <2>3, <2>4, <3>1 DEF From
    <3>3. QED
      BY <1>11, <1>12, <1>14, <3>2
<1>17. QED
  BY <1>15, <1>16

\* Nothing newer is lost on the way.
LEMMA DeliverKeepsNewest ==
  ASSUME TypeOK, TypeOK', NEW k \in 1..Len(wire), Deliver(k)
  PROVE  Newest' = Newest
<1>1. PICK L : L = Lines(copy, input, wire) /\ Newest = LastFilled(L)
  BY DEF Newest, Lines
<1>2. PICK R : R = Lines(copy', input', wire') /\ Newest' = LastFilled(R)
  BY DEF Newest, Lines
<1>3. L \in Seq(Stock) /\ R \in Seq(Stock)
  BY <1>1, <1>2, DeliverTakes
<1>4. PICK b \in 1..Len(L) : \E c \in b..Len(L) : From(L, R, b, c)
  BY <1>1, <1>2, DeliverTakes
<1>5. PICK c \in b..Len(L) : From(L, R, b, c)
  BY <1>4
<1>6. LastFilled(R) = LastFilled(L)
  BY <1>3, <1>5, TakenKeepsLast DEF From
<1>7. QED
  BY <1>1, <1>2, <1>6

\* What a publisher writes for the subscriber is the newest ...
LEMMA LineWritten ==
  ASSUME TypeOK, NEW v \in Version, copy' = copy, input' = input,
         wire' = Append(wire, v)
  PROVE  Newest' = v
<1>1. /\ copy \in Stock /\ input \in Seq(Line) /\ wire \in Seq(Line)
      /\ v \in Line /\ v \in Stock /\ v # Blank
  BY CopyFilled DEF TypeOK, Line
<1>2. PICK q : q = Lines(copy, input, wire)
  OBVIOUS
<1>3. q \in Seq(Stock)
  BY <1>1, <1>2, LinesAre DEF Places
<1>4. Newest' = LastFilled(Append(q, v))
  BY <1>1, <1>2, WrittenBehind DEF Newest, Lines
<1>5. QED
  BY <1>1, <1>3, <1>4, SnapshotAppended

\* ... and the empty line behind it changes nothing.
LEMMA BlankWritten ==
  ASSUME TypeOK, copy' = copy, input' = input, wire' = Append(wire, Blank)
  PROVE  Newest' = Newest
<1>1. /\ copy \in Stock /\ input \in Seq(Line) /\ wire \in Seq(Line)
      /\ copy # Blank /\ Blank \in Line
  BY CopyFilled DEF TypeOK, Line
<1>2. PICK q : q = Lines(copy, input, wire)
  OBVIOUS
<1>3. q \in Seq(Stock) /\ 1 \in 1..Len(q) /\ q[1] # Blank
  <2>1. Places(q, copy, input, wire)
    BY <1>1, <1>2, LinesAre
  <2>2. Len(input) \in Nat /\ Len(wire) \in Nat
    BY <1>1, LenProperties
  <2>3. QED
    BY <1>1, <2>1, <2>2 DEF Places
<1>4. Newest' = LastFilled(Append(q, Blank)) /\ Newest = LastFilled(q)
  BY <1>1, <1>2, WrittenBehind DEF Newest, Lines
<1>5. QED
  BY <1>3, <1>4, BlankAppended

LEMMA NothingWritten ==
  ASSUME copy' = copy, input' = input, wire' = wire
  PROVE  Newest' = Newest
BY DEF Newest

-----------------------------------------------------------------------------
(* The inductive invariant *)

Writing(p) == pc[p] \in {"line", "blank"}

\* In the first start the timer alone publishes, under the mutex, and the main
\* loop does not get past the test of isFirstStart.
StartAlone ==
  /\ isFirstStart =>
       /\ ~overlap /\ pc["main"] \in {"idle", "update", "snapshot"}
       /\ pc["timer"] # "idle" => mutexExecs = "timer"
  /\ pc["timer"] = "flag" => isFirstStart
  /\ pc["timer"] \notin {"update", "snapshot"} /\ pc["main"] # "flag"

\* A publication that began alone is the only one.
LoneWriter ==
  ~overlap => \A p \in Publisher :
                Writing(p) => \A q \in Publisher \ {p} : ~Writing(q)

\* What it publishes is the pool as it is, but for what a command changes now.
Current ==
  ~overlap /\ ~silenced =>
    \A p \in Publisher : Writing(p) \/ pc[p] = "flag" =>
      snap[p] = pool \/ pc["main"] = "update"

\* Once the first publication is written, whoever was there has it.
FirstReceived ==
  isFirstStart /\ subscribed /\ ~missed /\ pc["timer"] \in {"blank", "flag"}
    => Newest = snap["timer"]

\* Between two publications the pool is under way, or somebody is about to
\* write it.
PoolComing ==
  subscribed /\ ~isFirstStart /\ ~overlap /\ ~missed /\ ~silenced =>
    \/ pc["main"] \in {"update", "snapshot"}
    \/ \E p \in Publisher : pc[p] = "line"
    \/ Newest = pool

PublishInv == StartAlone /\ LoneWriter /\ Current /\ FirstReceived /\ PoolComing

LEMMA PublishInit == Init => PublishInv
BY DEF Init, PublishInv, StartAlone, LoneWriter, Current, FirstReceived, PoolComing,
       Writing, Publisher

\* p has read the pool.
LEMMA ReadStep ==
  ASSUME TypeOK, PublishInv, NEW p \in Publisher, Read(p, pool'),
         isFirstStart' = isFirstStart, isFirstStart => p = "timer" /\ mutexExecs' = "timer",
         UNCHANGED <<subscribed, missed>>
  PROVE  PublishInv'
<1>0. /\ StartAlone /\ LoneWriter
      /\ pc' = [pc EXCEPT ![p] = "line"] /\ snap' = [snap EXCEPT ![p] = pool']
      /\ overlap' = Others(p)
      /\ \A q \in Publisher : q \in DOMAIN pc /\ q \in DOMAIN snap
      /\ "timer" \in Publisher /\ "main" \in Publisher
      /\ \A q \in Publisher : q = "timer" \/ q = "main"
  BY DEF PublishInv, TypeOK, Publisher, Read
<1>1. /\ pc'[p] = "line" /\ snap'[p] = pool'
      /\ \A q \in Publisher : q # p => pc'[q] = pc[q] /\ snap'[q] = snap[q]
  BY <1>0
<1>2. StartAlone'
  BY <1>0, <1>1 DEF StartAlone, Others
<1>3. LoneWriter' /\ Current'
  BY <1>0, <1>1 DEF StartAlone, LoneWriter, Current, Writing, Others
<1>4. FirstReceived' /\ PoolComing'
  BY <1>0, <1>1 DEF FirstReceived, PoolComing
<1> QED
  BY <1>2, <1>3, <1>4 DEF PublishInv

LEMMA PublishStep == TypeOK /\ TypeOK' /\ PublishInv /\ [Next]_vars => PublishInv'
<1> SUFFICES ASSUME TypeOK, TypeOK', PublishInv, [Next]_vars PROVE PublishInv'
  OBVIOUS
<1> USE DEF service, publishing, subscriber, history
<1>0. /\ StartAlone /\ LoneWriter /\ Current /\ FirstReceived /\ PoolComing
      /\ \A p \in Publisher :
           pc[p] \in {"idle", "update", "snapshot", "line", "blank", "flag"}
      /\ \A p \in Publisher : p \in DOMAIN pc /\ p \in DOMAIN snap
      /\ \A p \in Publisher : snap[p] \in Version
      /\ "timer" \in Publisher /\ "main" \in Publisher
      /\ \A p \in Publisher : p = "timer" \/ p = "main"
  BY DEF PublishInv, TypeOK, Publisher
<1>1. CASE FirstStart
  BY <1>0, <1>1, ReadStep DEF FirstStart
<1>2. CASE FirstStartEnds
  BY <1>0, <1>2, NothingWritten
     DEF FirstStartEnds, PublishInv, StartAlone, LoneWriter, Current, FirstReceived,
         PoolComing, Writing
<1>3. ASSUME NEW p \in Publisher, Change(p) PROVE PublishInv'
  <2>1. CASE ~isFirstStart
    <3>1. Read(p, pool') /\ ~isFirstStart'
      BY <1>3, <2>1 DEF Change
    <3> QED
      BY <1>3, <2>1, <3>1, ReadStep DEF Change
  <2>2. CASE isFirstStart
    <3>1. /\ p = "main" /\ pc' = [pc EXCEPT !["main"] = "idle"] /\ pc["timer"] = "idle"
          /\ UNCHANGED <<isFirstStart, mutexExecs, snap, subscribed, overlap, missed, silenced>>
      BY <1>0, <1>3, <2>2, NobodyAssumption DEF Change, StartAlone
    <3>2. pc'["timer"] = "idle" /\ pc'["main"] = "idle"
      BY <1>0, <3>1
    <3> QED
      BY <1>0, <2>2, <3>1, <3>2
         DEF PublishInv, StartAlone, LoneWriter, Current, FirstReceived, PoolComing,
             Writing
  <2> QED
    BY <2>1, <2>2
<1>4. CASE Command \/ Sync
  <2>1. /\ pc'["main"] = "update" /\ pc'["timer"] = pc["timer"] /\ Newest' = Newest
        /\ pc["main"] \in {"idle", "update"}
        /\ UNCHANGED <<isFirstStart, mutexExecs, snap, subscribed, overlap, missed, silenced>>
    BY <1>0, <1>4, NothingWritten DEF Command, Sync
  <2> QED
    BY <1>0, <2>1
       DEF PublishInv, StartAlone, LoneWriter, Current, FirstReceived, PoolComing,
           Writing
<1>5. CASE Snapshot
  <2>1. CASE isFirstStart
    <3>1. /\ pc' = [pc EXCEPT !["main"] = "idle"]
          /\ silenced' = (silenced \/ (pc["timer"] # "idle" /\ snap["timer"] # pool))
          /\ UNCHANGED <<pool, isFirstStart, mutexExecs, snap, subscribed, overlap, missed>>
          /\ Newest' = Newest
      BY <1>5, <2>1, NothingWritten DEF Snapshot
    <3>2. pc'["timer"] = pc["timer"] /\ pc'["main"] = "idle"
      BY <1>0, <3>1
    <3> QED
      BY <1>0, <2>1, <3>1, <3>2
         DEF PublishInv, StartAlone, LoneWriter, Current, FirstReceived, PoolComing,
             Writing
  <2>2. CASE ~isFirstStart
    <3>1. Read("main", pool') /\ ~isFirstStart'
      BY <1>5, <2>2 DEF Snapshot
    <3> QED
      BY <1>0, <1>5, <2>2, <3>1, ReadStep DEF Snapshot
  <2> QED
    BY <2>1, <2>2
<1>6. ASSUME NEW p \in Publisher, WriteLine(p) PROVE PublishInv'
  <2>1. subscribed => Newest' = snap[p]
    BY <1>0, <1>6, LineWritten DEF WriteLine
  <2>2. /\ pc[p] = "line" /\ pc' = [pc EXCEPT ![p] = "blank"]
        /\ missed' = (missed /\ ~subscribed)
        /\ UNCHANGED <<service, snap, subscribed, overlap, silenced>>
    BY <1>6 DEF WriteLine
  <2>3. pc'[p] = "blank" /\ \A q \in Publisher : q # p => pc'[q] = pc[q]
    BY <1>0, <2>2
  <2>4. ~overlap /\ ~silenced => snap[p] = pool \/ (pc["main"] = "update" /\ p # "main")
    BY <1>0, <2>2 DEF Current, Writing
  <2>5. StartAlone' /\ LoneWriter' /\ Current'
    BY <1>0, <2>2, <2>3 DEF StartAlone, LoneWriter, Current, Writing
  <2>6. FirstReceived' /\ PoolComing'
    BY <1>0, <2>1, <2>2, <2>3, <2>4 DEF StartAlone, FirstReceived, PoolComing
  <2> QED
    BY <2>5, <2>6 DEF PublishInv
<1>7. ASSUME NEW p \in Publisher, WriteBlank(p) PROVE PublishInv'
  <2>1. Newest' = Newest
    BY <1>7, BlankWritten, NothingWritten DEF WriteBlank
  <2>2. /\ pc[p] = "blank"
        /\ pc' = [pc EXCEPT ![p] = IF p = "timer" /\ isFirstStart THEN "flag" ELSE "idle"]
        /\ isFirstStart => p # "timer" \/ UNCHANGED mutexExecs
        /\ UNCHANGED <<pool, isFirstStart, snap, subscribed, overlap, missed, silenced>>
    BY <1>7 DEF WriteBlank
  <2>3. /\ pc'[p] = IF p = "timer" /\ isFirstStart THEN "flag" ELSE "idle"
        /\ \A q \in Publisher : q # p => pc'[q] = pc[q]
    BY <1>0, <2>2
  <2>4. StartAlone' /\ LoneWriter' /\ Current'
    BY <1>0, <2>2, <2>3 DEF StartAlone, LoneWriter, Current, Writing
  <2>5. FirstReceived' /\ PoolComing'
    BY <1>0, <2>1, <2>2, <2>3 DEF StartAlone, FirstReceived, PoolComing
  <2> QED
    BY <2>4, <2>5 DEF PublishInv
<1>8. CASE doSubscribe
  BY <1>0, <1>8, NothingWritten
     DEF doSubscribe, PublishInv, StartAlone, LoneWriter, Current,
         FirstReceived, PoolComing, Writing
<1>9. ASSUME NEW k \in 1..Len(wire), Deliver(k) PROVE PublishInv'
  <2>1. Newest' = Newest
    BY <1>9, DeliverKeepsNewest
  <2>2. UNCHANGED <<service, publishing, subscribed, overlap, missed, silenced>>
    BY <1>9 DEF Deliver
  <2> QED
    BY <1>0, <2>1, <2>2
       DEF PublishInv, StartAlone, LoneWriter, Current, FirstReceived, PoolComing, Writing
<1>10. CASE Break
  BY <1>0, <1>10
     DEF Break, PublishInv, StartAlone, LoneWriter, Current, FirstReceived, PoolComing,
         Writing
<1>11. CASE subscribe \/ Refused \/ Connected
  BY <1>0, <1>11, NothingWritten
     DEF subscribe, Refused, Connected, PublishInv, StartAlone, LoneWriter, Current,
         FirstReceived, PoolComing, Writing
<1>12. CASE UNCHANGED vars
  BY <1>0, <1>12, NothingWritten
     DEF vars, PublishInv, StartAlone, LoneWriter, Current, FirstReceived, PoolComing,
         Writing
<1>13. QED
  BY <1>1, <1>2, <1>3, <1>4, <1>5, <1>6, <1>7, <1>8, <1>9, <1>10, <1>11, <1>12
     DEF Next, Publishes, Arrives

\* A subscriber has the pool as it is, or the pool as it is comes last of what
\* it has yet to take, in whatever order publications, commands, arrivals,
\* losses and new subscriptions come, for any number of changes of the pool.
THEOREM PoolArrives == Spec => []NewestUnderway
<1>1. TypeOK /\ PublishInv => NewestUnderway
  BY DEF PublishInv, PoolComing, NewestUnderway, Idle, Publisher
<1>2. QED
  BY <1>1, PublishInit, PublishStep, TypeCorrect, PTL DEF Spec
-----------------------------------------------------------------------------
(* No step back *)

\* The versions in lines q do not decrease and are at most v.
Rising(q, v) ==
  \A i \in 1..Len(q) : q[i] # Blank =>
    /\ q[i] <= v
    /\ \A j \in i..Len(q) : q[j] # Blank => q[i] <= q[j]

LinesRise ==
  /\ Rising(Lines(copy, input, wire), pool)
  /\ \A p \in Publisher : pc[p] = "line" =>
       snap[p] <= pool /\ Rising(Lines(copy, input, wire), snap[p])

LEMMA StockVersions ==
  ASSUME NEW q \in Seq(Stock), NEW i \in 1..Len(q), q[i] # Blank
  PROVE  q[i] \in Nat
BY BoundAssumption DEF Stock, Line, Version

\* What is taken goes from one line to a later one ...
LEMMA TakenRises ==
  ASSUME NEW q \in Seq(Stock), NEW r \in Seq(Stock), NEW v \in Nat, Rising(q, v),
         NEW b \in 1..Len(q), NEW c \in b..Len(q), From(q, r, b, c), q[1] # Blank
  PROVE  Rising(r, v) /\ q[1] <= r[1]
<1>1. Len(q) \in Nat /\ Len(r) \in Nat
  BY LenProperties
<1>2. \A j \in 1..Len(r) :
        \E m \in 1..Len(q) : r[j] = q[m] /\ (j = 1 => m = b) /\ (j > 1 => m = c + j - 1)
  <2>1. TAKE j \in 1..Len(r)
  <2>2. CASE j = 1
    BY <2>2 DEF From
  <2>3. CASE j # 1
    <3>1. j \in 2..Len(r) /\ c + j - 1 \in 1..Len(q)
      BY <1>1, <2>3 DEF From
    <3>2. QED
      BY <2>3, <3>1 DEF From
  <2>4. QED
    BY <2>2, <2>3
<1>3. ASSUME NEW i \in 1..Len(r), r[i] # Blank
      PROVE  r[i] <= v /\ \A j \in i..Len(r) : r[j] # Blank => r[i] <= r[j]
  <2>1. PICK m \in 1..Len(q) : r[i] = q[m] /\ (i = 1 => m = b) /\ (i > 1 => m = c + i - 1)
    BY <1>2
  <2>2. r[i] <= v
    BY <1>3, <2>1 DEF Rising
  <2>3. ASSUME NEW j \in i..Len(r), r[j] # Blank PROVE r[i] <= r[j]
    <3>1. j \in 1..Len(r)
      BY <1>1
    <3>2. PICK n \in 1..Len(q) : r[j] = q[n] /\ (j = 1 => n = b) /\ (j > 1 => n = c + j - 1)
      BY <1>2, <3>1
    <3>3. n \in m..Len(q)
      BY <1>1, <2>1, <3>2
    <3>4. QED
      BY <1>3, <2>1, <2>3, <3>2, <3>3 DEF Rising
  <2>4. QED
    BY <2>2, <2>3
<1>4. q[1] <= r[1]
  <2>1. 1 \in 1..Len(q) /\ b \in 1..Len(q) /\ q[b] # Blank /\ r[1] = q[b]
    BY <1>1 DEF From
  <2>2. QED
    BY <2>1 DEF Rising
<1>5. QED
  BY <1>3, <1>4 DEF Rising

\* ... and what is written comes behind all others.
LEMMA WrittenRises ==
  ASSUME NEW q \in Seq(Stock), NEW v \in Nat, Rising(q, v), NEW l \in {v, Blank}, l \in Stock
  PROVE  Rising(Append(q, l), v)
<1>1. /\ Len(Append(q, l)) = Len(q) + 1 /\ Len(q) \in Nat
      /\ \A i \in 1..Len(q) : Append(q, l)[i] = q[i]
      /\ Append(q, l)[Len(q) + 1] = l
  BY LenProperties
<1>2. ASSUME NEW i \in 1..Len(Append(q, l)), Append(q, l)[i] # Blank
      PROVE  /\ Append(q, l)[i] <= v
             /\ \A j \in i..Len(Append(q, l)) :
                  Append(q, l)[j] # Blank => Append(q, l)[i] <= Append(q, l)[j]
  <2>1. CASE i = Len(q) + 1
    <3>1. l = v /\ Append(q, l)[i] = v
      BY <1>1, <1>2, <2>1
    <3>2. \A j \in i..Len(Append(q, l)) : j = i
      BY <1>1, <2>1
    <3>3. QED
      BY <3>1, <3>2
  <2>2. CASE i \in 1..Len(q)
    <3>1. Append(q, l)[i] = q[i] /\ q[i] # Blank /\ q[i] <= v
      BY <1>1, <1>2, <2>2 DEF Rising
    <3>2. ASSUME NEW j \in i..Len(Append(q, l)), Append(q, l)[j] # Blank
          PROVE  q[i] <= Append(q, l)[j]
      <4>1. CASE j \in i..Len(q)
        <5>1. Append(q, l)[j] = q[j]
          BY <1>1, <2>2, <4>1
        <5>2. QED
          BY <2>2, <3>1, <3>2, <4>1, <5>1 DEF Rising
      <4>2. CASE j = Len(q) + 1
        BY <1>1, <3>1, <3>2, <4>2
      <4>3. QED
        BY <1>1, <2>2, <4>1, <4>2
    <3>3. QED
      BY <3>1, <3>2
  <2>3. QED
    BY <1>1, <2>1, <2>2
<1>3. QED
  BY <1>2 DEF Rising

LEMMA RiseInit == Init => LinesRise
<1> SUFFICES ASSUME Init PROVE LinesRise
  OBVIOUS
<1>1. Lines(copy, input, wire) = <<0>> /\ pool = 1
  BY DEF Init, Lines
<1>2. Rising(<<0>>, 1)
  BY DEF Rising
<1>3. \A p \in Publisher : pc[p] = "idle"
  BY DEF Init
<1>4. QED
  BY <1>1, <1>2, <1>3 DEF LinesRise

\* As long as publications do not overlap, each writes a snapshot no older than
\* all before it.
LEMMA RiseStep ==
  ASSUME TypeOK, TypeOK', PublishInv, ~overlap, LinesRise, [Next]_vars
  PROVE  LinesRise' /\ copy <= copy'
<1> USE DEF service, publishing, subscriber, history
<1>1. /\ copy \in Stock /\ input \in Seq(Line) /\ wire \in Seq(Line) /\ copy # Blank
      /\ copy \in Nat /\ pool \in Nat /\ pool' \in Nat
      /\ \A p \in Publisher : snap[p] \in Nat /\ snap[p] \in Version
  BY CopyFilled, BoundAssumption DEF TypeOK, Version
<1>2. PICK L : L = Lines(copy, input, wire)
  OBVIOUS
<1>3. PICK R : R = Lines(copy', input', wire')
  OBVIOUS
<1>4. /\ L \in Seq(Stock) /\ Len(L) = 1 + Len(input) + Len(wire) /\ L[1] = copy
      /\ Rising(L, pool)
      /\ \A p \in Publisher : pc[p] = "line" => snap[p] <= pool /\ Rising(L, snap[p])
  BY <1>1, <1>2, LinesAre DEF Places, LinesRise
\* It is enough that what is not newer than any line stays so, that pool goes
\* up, and that what a publisher reads is the pool.
<1>5. ASSUME \A v \in Nat : Rising(L, v) => Rising(R, v), pool' \in {pool, pool + 1},
             \A p \in Publisher : pc'[p] = "line" =>
               snap'[p] = pool' \/ (pc[p] = "line" /\ snap'[p] = snap[p])
      PROVE  LinesRise'
  <2>1. Rising(R, pool)
    BY <1>1, <1>4, <1>5
  <2>2. \A i \in 1..Len(R) : R[i] # Blank => R[i] \in Nat
    <3>1. copy' \in Stock /\ input' \in Seq(Line) /\ wire' \in Seq(Line)
      BY CopyFilled DEF TypeOK
    <3>2. R \in Seq(Stock)
      BY <1>3, <3>1, LinesAre DEF Places
    <3> QED
      BY <3>2, StockVersions
  <2>3. Rising(R, pool')
    BY <1>1, <1>5, <2>1, <2>2 DEF Rising
  <2>4. ASSUME NEW p \in Publisher, pc'[p] = "line"
        PROVE  snap'[p] <= pool' /\ Rising(R, snap'[p])
    BY <1>1, <1>4, <1>5, <2>3, <2>4
  <2> QED
    BY <1>3, <2>3, <2>4 DEF LinesRise
<1>6. ASSUME UNCHANGED <<copy, input, wire>>
      PROVE  copy <= copy' /\ \A v \in Nat : Rising(L, v) => Rising(R, v)
  BY <1>1, <1>2, <1>3, <1>6
<1>7. ASSUME NEW p \in Publisher, NEW v, Read(p, v), v = pool',
             pool' \in {pool, pool + 1}, UNCHANGED <<copy, input, wire>>
      PROVE  LinesRise' /\ copy <= copy'
  <2>1. \A q \in Publisher : pc'[q] = "line" =>
          snap'[q] = pool' \/ (pc[q] = "line" /\ snap'[q] = snap[q])
    BY <1>7 DEF Read, TypeOK
  <2> QED
    BY <1>5, <1>6, <1>7, <2>1
<1>8. CASE FirstStart
  BY <1>7, <1>8 DEF FirstStart, Publisher
<1>9. ASSUME NEW p \in Publisher, Change(p) PROVE LinesRise' /\ copy <= copy'
  <2>1. CASE isFirstStart
    <3>1. \A q \in Publisher : pc'[q] = "line" =>
            snap'[q] = pool' \/ (pc[q] = "line" /\ snap'[q] = snap[q])
      BY <1>9, <2>1 DEF Change, TypeOK
    <3> QED
      BY <1>5, <1>6, <1>9, <2>1, <3>1 DEF Change
  <2>2. CASE ~isFirstStart
    BY <1>7, <1>9, <2>2 DEF Change
  <2> QED
    BY <2>1, <2>2
<1>10. CASE Snapshot
  <2>1. CASE isFirstStart
    <3>1. \A q \in Publisher : pc'[q] = "line" =>
            snap'[q] = pool' \/ (pc[q] = "line" /\ snap'[q] = snap[q])
      BY <1>10, <2>1 DEF Snapshot, TypeOK
    <3> QED
      BY <1>5, <1>6, <1>10, <3>1 DEF Snapshot
  <2>2. CASE ~isFirstStart
    BY <1>7, <1>10, <2>2 DEF Snapshot, Publisher
  <2> QED
    BY <2>1, <2>2
<1>11. ASSUME NEW p \in Publisher, WriteLine(p) PROVE LinesRise' /\ copy <= copy'
  <2>1. /\ \A q \in Publisher : pc'[q] # "line"
        /\ pool' = pool /\ snap[p] <= pool /\ Rising(L, snap[p])
    BY <1>4, <1>11 DEF WriteLine, PublishInv, LoneWriter, Writing, TypeOK
  <2>2. CASE ~subscribed
    BY <1>5, <1>6, <1>11, <2>1, <2>2 DEF WriteLine
  <2>3. CASE subscribed
    <3>1. /\ snap[p] \in Line /\ snap[p] \in Stock
          /\ UNCHANGED <<copy, input>> /\ wire' = Append(wire, snap[p])
      BY <1>1, <1>11, <2>3 DEF WriteLine, Line, Stock
    <3>2. R = Append(L, snap[p])
      BY <1>1, <1>2, <1>3, <3>1, WrittenBehind
    <3>3. Rising(R, snap[p]) /\ R \in Seq(Stock)
      BY <1>1, <1>4, <2>1, <3>1, <3>2, WrittenRises
    <3>4. \A i \in 1..Len(R) : R[i] # Blank => R[i] \in Nat
      BY <3>3, StockVersions
    <3>5. Rising(R, pool')
      BY <1>1, <2>1, <3>3, <3>4 DEF Rising
    <3> QED
      BY <1>1, <1>3, <2>1, <3>1, <3>5 DEF LinesRise
  <2> QED
    BY <2>2, <2>3
<1>12. ASSUME NEW p \in Publisher, WriteBlank(p) PROVE LinesRise' /\ copy <= copy'
  <2>1. /\ \A q \in Publisher : pc'[q] = "line" => pc[q] = "line" /\ snap'[q] = snap[q]
        /\ pool' = pool
    BY <1>12 DEF WriteBlank, TypeOK
  <2>2. CASE UNCHANGED <<copy, input, wire>>
    BY <1>5, <1>6, <2>1, <2>2
  <2>3. CASE UNCHANGED <<copy, input>> /\ wire' = Append(wire, Blank)
    <3>1. Blank \in Line /\ Blank \in Stock
      BY DEF Line, Stock
    <3>2. R = Append(L, Blank)
      BY <1>1, <1>2, <1>3, <2>3, <3>1, WrittenBehind
    <3>3. \A v \in Nat : Rising(L, v) => Rising(R, v)
      BY <1>4, <3>1, <3>2, WrittenRises
    <3> QED
      BY <1>1, <1>5, <2>1, <2>3, <3>3
  <2> QED
    BY <1>12, <2>2, <2>3 DEF WriteBlank
<1>13. ASSUME NEW k \in 1..Len(wire), Deliver(k) PROVE LinesRise' /\ copy <= copy'
  <2>1. /\ R \in Seq(Stock)
        /\ \E b \in 1..Len(L) : \E c \in b..Len(L) : From(L, R, b, c)
    BY <1>2, <1>3, <1>13, DeliverTakes
  <2>2. \A v \in Nat : Rising(L, v) => Rising(R, v) /\ L[1] <= R[1]
    BY <1>1, <1>4, <2>1, TakenRises
  <2>3. R[1] = copy'
    <3>1. copy' \in Stock /\ input' \in Seq(Line) /\ wire' \in Seq(Line)
      BY CopyFilled DEF TypeOK
    <3> QED
      BY <1>3, <3>1, LinesAre DEF Places
  <2>4. LinesRise'
    BY <1>5, <1>13, <2>2 DEF Deliver
  <2> QED
    BY <1>1, <1>4, <2>2, <2>3, <2>4
<1>14. CASE Break
  <2>1. R = <<copy>> /\ copy' = copy
    BY <1>1, <1>3, <1>14 DEF Break, Lines
  <2>2. \A v \in Nat : Rising(L, v) => copy <= v
    BY <1>1, <1>4 DEF Rising
  <2>3. \A v \in Nat : Rising(L, v) => Rising(R, v)
    BY <1>1, <2>1, <2>2 DEF Rising
  <2> QED
    BY <1>1, <1>5, <1>14, <2>1, <2>3 DEF Break
<1>15. CASE FirstStartEnds \/ Command \/ Sync \/ doSubscribe
            \/ subscribe \/ Refused \/ Connected \/ UNCHANGED vars
  <2>1. /\ UNCHANGED <<copy, input, wire, snap>> /\ pool' \in {pool, pool + 1}
        /\ \A p \in Publisher : pc'[p] = "line" => pc[p] = "line"
    BY <1>15
       DEF FirstStartEnds, Command, Sync, doSubscribe, subscribe, Refused, Connected,
           vars, TypeOK
  <2> QED
    BY <1>5, <1>6, <2>1
<1> QED
  BY <1>8, <1>9, <1>10, <1>11, <1>12, <1>13, <1>14, <1>15 DEF Next, Publishes, Arrives

\* As long as no publication begins during another one (syncAndPub without the
\* mutex), a subscriber never goes back to an older pool: whatever is lost,
\* left in its buffer, asked for again or written by two threads in turn.
THEOREM NeverBack == Spec /\ []~overlap => [][copy <= copy']_vars
<1>1. TypeOK /\ TypeOK' /\ PublishInv /\ ~overlap /\ LinesRise /\ [Next]_vars
        => LinesRise' /\ [copy <= copy']_vars
  BY RiseStep
<1> QED
  BY <1>1, RiseInit, PublishInit, PublishStep, TypeCorrect, PTL DEF Spec

=============================================================================
