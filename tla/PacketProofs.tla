---------------------------- MODULE PacketProofs ----------------------------
(***************************************************************************)
(* Theorems about PacketBuffer, for every size of the buffer, every base   *)
(* of the length field and every set of messages and texts.                *)
(***************************************************************************)
EXTENDS PacketBuffer, TLAPS, WellFoundedInduction, SequenceTheorems

LEMMA RadixFacts == /\ Radix \in Nat /\ Radix >= 4 /\ Radix * Radix \in Nat
                    /\ Radix * Radix >= 4 * Radix
<1>1. Radix \in Nat /\ Radix >= 4
  BY SizeAssumption DEF SizeAssumption
<1>2. \A a, b \in Nat : b >= 4 => a * b \in Nat /\ a * b >= 4 * a
  BY SMT
<1> QED BY <1>1, <1>2, SMT

LEMMA MaxFacts == MaxPacket \in Nat /\ 8 <= MaxPacket
BY SizeAssumption DEF SizeAssumption

LEMMA DivModFacts ==
  ASSUME NEW n \in Nat, NEW d \in Nat, d > 0
  PROVE  n \div d \in Nat /\ n % d \in 0 .. d - 1
BY SMT

LEMMA FieldType ==
  ASSUME NEW n \in Nat
  PROVE  /\ Digits(n) \in 1 .. 3
         /\ LengthField(n) \in Seq(Bytes)
         /\ Len(LengthField(n)) = Digits(n)
<1>1. Digits(n) \in 1 .. 3
  BY SMT DEF Digits
<1>2. ASSUME NEW i \in 1 .. Digits(n)
      PROVE  LengthField(n)[i] \in Bytes
  <2>1. Place(i) \in Nat /\ Place(i) > 0
    BY RadixFacts, SMT DEF Place
  <2>2. (n \div Place(i)) \in Nat
    BY <2>1, DivModFacts
  <2>3. (n \div Place(i)) % Radix \in 0 .. Radix - 1
    BY <2>2, RadixFacts, DivModFacts
  <2> DEFINE d == (n \div Place(i)) % Radix
  <2>4. LengthField(n)[i] = d + (IF i < Digits(n) THEN Radix ELSE 0)
    BY DEF LengthField
  <2> HIDE DEF d
  <2>5. d \in 0 .. Radix - 1
    BY <2>3 DEF d
  <2> QED BY <2>4, <2>5, RadixFacts, SMT DEF Bytes
<1>3. LengthField(n) \in [1 .. Digits(n) -> Bytes]
  BY <1>2 DEF LengthField
<1> QED BY <1>1, <1>3, SMT

LEMMA OverlayType ==
  ASSUME NEW buf \in [0 .. MaxPacket - 1 -> Bytes], NEW at \in Int,
         NEW bytes \in Seq(Bytes)
  PROVE  Overlay(buf, at, bytes) \in [0 .. MaxPacket - 1 -> Bytes]
BY SMT DEF Overlay

LEMMA OverlayAtZero ==
  ASSUME NEW buf \in [0 .. MaxPacket - 1 -> Bytes], NEW bytes \in Seq(Bytes)
  PROVE  Overlay(buf, 0, bytes) \in [0 .. MaxPacket - 1 -> Bytes]
<1>1. 0 \in Int
  OBVIOUS
<1> QED BY <1>1, OverlayType

LEMMA OverlayAt ==
  ASSUME NEW buf \in [0 .. MaxPacket - 1 -> Bytes], NEW at \in Int, NEW bytes \in Seq(Bytes),
         NEW i \in 0 .. MaxPacket - 1
  PROVE  Overlay(buf, at, bytes)[i] =
           IF i >= at /\ i < at + Len(bytes) THEN bytes[i - at + 1] ELSE buf[i]
<1>1. i < MaxPacket /\ i \in DOMAIN buf
  BY MaxFacts, SMT
<1> QED BY <1>1 DEF Overlay

\* The array, and what was written past its end.
Array(b) == b \in [DOMAIN b -> Bytes] /\ 0 .. MaxPacket - 1 \subseteq DOMAIN b /\ DOMAIN b \subseteq Nat

LEMMA ArrayWhole ==
  ASSUME NEW b
  PROVE  /\ b \in [0 .. MaxPacket - 1 -> Bytes] => Array(b) /\ DOMAIN b = 0 .. MaxPacket - 1
         /\ Array(b) /\ DOMAIN b = 0 .. MaxPacket - 1 => b \in [0 .. MaxPacket - 1 -> Bytes]
<1>1. 0 .. MaxPacket - 1 \subseteq Nat
  BY MaxFacts, SMT
<1> QED BY <1>1 DEF Array

LEMMA StoreType ==
  ASSUME NEW buf \in [0 .. MaxPacket - 1 -> Bytes], NEW at \in Nat, NEW bytes \in Seq(Bytes)
  PROVE  /\ Array(Store(buf, at, bytes))
         /\ DOMAIN Store(buf, at, bytes) = 0 .. MaxPacket - 1 \cup at .. at + Len(bytes) - 1
<1> DEFINE D == 0 .. MaxPacket - 1 \cup at .. at + Len(bytes) - 1
           s == Store(buf, at, bytes)
<1>1. s = [i \in D |-> IF i >= at /\ i < at + Len(bytes) THEN bytes[i - at + 1] ELSE buf[i]]
  BY DEF Store
<1>2. ASSUME NEW i \in D
      PROVE  (IF i >= at /\ i < at + Len(bytes) THEN bytes[i - at + 1] ELSE buf[i]) \in Bytes
  BY MaxFacts, SMT
<1>3. 0 .. MaxPacket - 1 \subseteq D /\ D \subseteq Nat
  BY MaxFacts, SMT
<1> HIDE DEF D
<1>4. s \in [D -> Bytes] /\ DOMAIN s = D
  BY <1>1, <1>2
<1> HIDE DEF s
<1>5. Array(s) /\ DOMAIN s = D
  BY <1>3, <1>4 DEF Array
<1> QED BY <1>5 DEF D, s

\* What fits is stored the same way with a comparison and without.
LEMMA StoreInside ==
  ASSUME NEW buf \in [0 .. MaxPacket - 1 -> Bytes], NEW at \in Nat, NEW bytes \in Seq(Bytes),
         at + Len(bytes) <= MaxPacket
  PROVE  Store(buf, at, bytes) = Overlay(buf, at, bytes)
<1>1. 0 .. MaxPacket - 1 \cup at .. at + Len(bytes) - 1 = 0 .. MaxPacket - 1
  BY MaxFacts, SMT
<1>2. \A i \in 0 .. MaxPacket - 1 : i < MaxPacket
  BY MaxFacts, SMT
<1>3. DOMAIN buf = 0 .. MaxPacket - 1
  OBVIOUS
<1>4. Overlay(buf, at, bytes) =
        [i \in 0 .. MaxPacket - 1 |->
           IF i >= at /\ i < at + Len(bytes) THEN bytes[i - at + 1] ELSE buf[i]]
  BY <1>2, <1>3, Zenon DEF Overlay
<1> QED BY <1>1, <1>3, <1>4, Zenon DEF Store

LEMMA OverlayArray ==
  ASSUME NEW b, Array(b), NEW at \in Nat, NEW bytes \in Seq(Bytes)
  PROVE  Array(Overlay(b, at, bytes)) /\ DOMAIN Overlay(b, at, bytes) = DOMAIN b
<1> DEFINE o == Overlay(b, at, bytes)
           D == DOMAIN b
<1>1. o = [i \in D |-> IF i >= at /\ i < at + Len(bytes) /\ i < MaxPacket
                        THEN bytes[i - at + 1] ELSE b[i]]
  BY DEF Overlay
<1>2. b \in [D -> Bytes] /\ 0 .. MaxPacket - 1 \subseteq D /\ D \subseteq Nat
  BY DEF Array
<1> HIDE DEF D
<1>3. ASSUME NEW i \in D
      PROVE  (IF i >= at /\ i < at + Len(bytes) /\ i < MaxPacket
                THEN bytes[i - at + 1] ELSE b[i]) \in Bytes
  <2>1. i \in Nat /\ b[i] \in Bytes
    BY <1>2
  <2>2. i >= at /\ i < at + Len(bytes) => bytes[i - at + 1] \in Bytes
    BY <2>1, SMT
  <2> QED BY <2>1, <2>2
<1>4. o \in [D -> Bytes] /\ DOMAIN o = D
  BY <1>1, <1>3
<1> HIDE DEF o
<1>5. Array(o) /\ DOMAIN o = D
  BY <1>2, <1>4 DEF Array
<1> QED BY <1>5 DEF D, o

LEMMA UncheckedType ==
  ASSUME NEW s \in Seq(Bytes)
  PROVE  /\ Unchecked(s) \in 0 .. Len(s)
         /\ SubSeq(s, 1, Unchecked(s)) \in Seq(Bytes)
         /\ Len(SubSeq(s, 1, Unchecked(s))) = Unchecked(s)
         /\ SubSeq(s, Unchecked(s) + 1, Len(s)) \in Seq(Bytes)
<1> DEFINE ends == {i \in 1 .. Len(s) - 1 : s[i + 1] < Radix}
           d == LengthDigits(s)
           p == IF IsPublish(s) THEN 2 ELSE 0
           u == Unchecked(s)
<1>1. d \in Nat
  <2>1. CASE ends = {}
    BY <2>1 DEF LengthDigits
  <2>2. CASE ends # {}
    <3>1. d = CHOOSE i \in ends : \A j \in ends : i <= j
      BY <2>2 DEF LengthDigits
    <3>2. ends \subseteq Nat
      BY SMT
    <3> HIDE DEF ends, d
    <3>3. PICK x \in ends : \A y \in ends : ~ (<<y, x>> \in OpToRel(<, Nat))
      BY <2>2, <3>2, NatLessThanWellFounded, WFMin
    <3>4. ASSUME NEW y \in ends PROVE x <= y
      <4>1. x \in Nat /\ y \in Nat
        BY <3>2
      <4>2. ~ (y < x)
        BY <3>3, <4>1 DEF OpToRel
      <4> QED BY <4>1, <4>2, SMT
    <3> QED BY <3>1, <3>2, <3>4
  <2> QED BY <2>1, <2>2
<1>2. p \in {0, 2} /\ Len(s) \in Nat
  OBVIOUS
<1>3. u = IF d = 0 \/ Len(s) < 1 + d + p THEN Len(s) ELSE 1 + d + p
  BY DEF Unchecked
<1> HIDE DEF d, p, u
<1>4. u \in 0 .. Len(s) /\ u \in Nat
  BY <1>1, <1>2, <1>3, SMT
<1>5. /\ SubSeq(s, 1, u) \in Seq(Bytes) /\ Len(SubSeq(s, 1, u)) = u
      /\ SubSeq(s, u + 1, Len(s)) \in Seq(Bytes)
  BY <1>4, SMT
<1> QED BY <1>4, <1>5 DEF u

LEMMA StoredType ==
  ASSUME NEW buf \in [0 .. MaxPacket - 1 -> Bytes], NEW s \in Seq(Bytes)
  PROVE  /\ Array(Stored(buf, s))
         /\ DOMAIN Stored(buf, s) = 0 .. MaxPacket - 1 \cup 0 .. Unchecked(s) - 1
<1> DEFINE u == Unchecked(s)
           a == SubSeq(s, 1, u)
           b == SubSeq(s, u + 1, Len(s))
<1>1. u \in Nat /\ a \in Seq(Bytes) /\ Len(a) = u /\ b \in Seq(Bytes)
  BY UncheckedType, SMT
<1>2. Stored(buf, s) = Overlay(Store(buf, 0, a), u, b)
  BY DEF Stored
<1> HIDE DEF u, a, b
<1>3. Array(Store(buf, 0, a)) /\ DOMAIN Store(buf, 0, a) = 0 .. MaxPacket - 1 \cup 0 .. 0 + Len(a) - 1
  <2>1. 0 \in Nat
    OBVIOUS
  <2> QED BY <1>1, <2>1, StoreType
<1>4. 0 + Len(a) - 1 = u - 1
  BY <1>1, SMT
<1>5. Array(Stored(buf, s)) /\ DOMAIN Stored(buf, s) = 0 .. MaxPacket - 1 \cup 0 .. u - 1
  BY <1>1, <1>2, <1>3, <1>4, OverlayArray
<1> QED BY <1>5 DEF u

\* A packet whose head fits is stored from the beginning of the array on.
LEMMA StoredInside ==
  ASSUME NEW buf \in [0 .. MaxPacket - 1 -> Bytes], NEW s \in Seq(Bytes),
         Unchecked(s) <= MaxPacket
  PROVE  Stored(buf, s) = Overlay(buf, 0, s)
<1> DEFINE u == Unchecked(s)
           a == SubSeq(s, 1, u)
           b == SubSeq(s, u + 1, Len(s))
           D == 0 .. MaxPacket - 1
<1>1. /\ u \in Nat /\ u <= Len(s) /\ u <= MaxPacket
      /\ a \in Seq(Bytes) /\ Len(a) = u /\ b \in Seq(Bytes) /\ Len(b) = Len(s) - u
      /\ \A i \in 1 .. u : a[i] = s[i]
      /\ \A i \in 1 .. Len(s) - u : b[i] = s[u + i]
  <2>1. u \in Nat /\ u <= Len(s) /\ u <= MaxPacket
    BY UncheckedType, SMT
  <2> HIDE DEF u
  <2> QED BY <2>1, SMT
<1>2. Stored(buf, s) = Overlay(Store(buf, 0, a), u, b)
  BY DEF Stored
<1>3. 0 \in Nat /\ 0 + Len(a) <= MaxPacket
  BY <1>1, SMT
<1>4. Store(buf, 0, a) = Overlay(buf, 0, a)
  <2> HIDE DEF u, a
  <2> QED BY <1>1, <1>3, StoreInside
<1> HIDE DEF u, a, b
<1>5. DOMAIN buf = D /\ DOMAIN Overlay(buf, 0, a) = D
      /\ DOMAIN Overlay(Overlay(buf, 0, a), u, b) = D /\ DOMAIN Overlay(buf, 0, s) = D
  BY DEF Overlay
<1>6. ASSUME NEW i \in D
      PROVE  Overlay(Overlay(buf, 0, a), u, b)[i] = Overlay(buf, 0, s)[i]
  <2>1. i \in Nat /\ i < MaxPacket
    BY MaxFacts, SMT
  <2>2. Overlay(buf, 0, s)[i] = IF i >= 0 /\ i < 0 + Len(s) /\ i < MaxPacket THEN s[i - 0 + 1] ELSE buf[i]
    BY <1>5 DEF Overlay
  <2>3. Overlay(buf, 0, a)[i] = IF i >= 0 /\ i < 0 + Len(a) /\ i < MaxPacket THEN a[i - 0 + 1] ELSE buf[i]
    BY <1>5 DEF Overlay
  <2>4. Overlay(Overlay(buf, 0, a), u, b)[i] =
          IF i >= u /\ i < u + Len(b) /\ i < MaxPacket THEN b[i - u + 1] ELSE Overlay(buf, 0, a)[i]
    BY <1>5 DEF Overlay
  <2>5. i < u => a[i - 0 + 1] = s[i - 0 + 1]
    BY <1>1, <2>1, SMT
  <2>6. i >= u /\ i < u + Len(b) => b[i - u + 1] = s[i - 0 + 1]
    <3> SUFFICES ASSUME i >= u, i < u + Len(b) PROVE b[i - u + 1] = s[i - 0 + 1]
      OBVIOUS
    <3>1. i - u + 1 \in 1 .. Len(s) - u /\ u + (i - u + 1) = i - 0 + 1
      BY <1>1, <2>1, SMT
    <3> QED BY <1>1, <3>1
  <2>7. Len(a) = u /\ u + Len(b) = Len(s) /\ Len(s) \in Nat /\ u <= Len(s)
    BY <1>1, SMT
  <2> QED BY <1>1, <2>1, <2>2, <2>3, <2>4, <2>5, <2>6, <2>7, SMT
<1>7. Overlay(Overlay(buf, 0, a), u, b) = Overlay(buf, 0, s)
  <2>1. /\ Overlay(Overlay(buf, 0, a), u, b) = [i \in D |-> Overlay(Overlay(buf, 0, a), u, b)[i]]
        /\ Overlay(buf, 0, s) = [i \in D |-> Overlay(buf, 0, s)[i]]
    BY <1>5 DEF Overlay
  <2> QED BY <1>6, <2>1
<1> QED BY <1>2, <1>4, <1>7

LEMMA SegmentType ==
  ASSUME NEW buf \in [0 .. MaxPacket - 1 -> Bytes],
         NEW at \in Nat, NEW n \in Nat, at + n <= MaxPacket
  PROVE  Segment(buf, at, n) \in Seq(Bytes) /\ Len(Segment(buf, at, n)) = n
<1>1. Segment(buf, at, n) \in [1 .. n -> Bytes]
  BY SizeAssumption, SMT DEF Segment, SizeAssumption
<1> QED BY <1>1, SMT

LEMMA TextType ==
  ASSUME NEW s \in Seq(Bytes), Len(s) < 4 * Radix * Radix
  PROVE  Text(s) \in Seq(Bytes) /\ Len(Text(s)) = Len(s) + 2
<1> DEFINE d == 2 * Radix
           l == Len(s)
<1>1. d \in Nat /\ d > 0 /\ l \in Nat
  BY RadixFacts, SMT
<1>2. l < d * d
  BY RadixFacts, SMT
<1>3. l \div d \in Nat /\ l % d \in 0 .. d - 1
  BY <1>1, DivModFacts
<1>4. l \div d < d
  BY <1>1, <1>2, SMT
<1>5. (l \div d) \in Bytes /\ (l % d) \in Bytes
  BY <1>1, <1>3, <1>4, SMT DEF Bytes
<1> HIDE DEF d, l
<1>6. <<l \div d, l % d>> \in Seq(Bytes) /\ Len(<<l \div d, l % d>>) = 2
  BY <1>5
<1>7. Text(s) = <<l \div d, l % d>> \o s
  BY DEF Text, d, l
<1> QED BY <1>6, <1>7, SMT

LEMMA FramedType ==
  ASSUME NEW header \in {PUBLISH0, PUBLISH1, SUBSCRIBE}, NEW body \in Seq(Bytes)
  PROVE  /\ header \in Bytes
         /\ Framed(header, body) \in Seq(Bytes)
         /\ Len(Framed(header, body)) = 1 + Digits(Len(body)) + Len(body)
         /\ Framed(header, body)[1] = header
<1>1. header \in Bytes
  BY RadixFacts, SMT DEF PUBLISH0, PUBLISH1, SUBSCRIBE, Bytes
<1>2. /\ LengthField(Len(body)) \in Seq(Bytes)
      /\ Len(LengthField(Len(body))) = Digits(Len(body))
      /\ Digits(Len(body)) \in 1 .. 3
  BY FieldType, SMT
<1> DEFINE f == LengthField(Len(body))
<1> HIDE DEF f
<1>3. <<header>> \o f \o body \in Seq(Bytes)
      /\ Len(<<header>> \o f \o body) = 1 + Len(f) + Len(body)
      /\ (<<header>> \o f \o body)[1] = header
  <2>1. f \in Seq(Bytes) /\ <<header>> \in Seq(Bytes) /\ Len(<<header>>) = 1
    BY <1>1, <1>2 DEF f
  <2>2. <<header>> \o f \in Seq(Bytes) /\ Len(<<header>> \o f) = 1 + Len(f)
        /\ (<<header>> \o f)[1] = header
    BY <2>1, SMT
  <2> QED BY <2>1, <2>2, SMT
<1> QED BY <1>1, <1>2, <1>3 DEF Framed, f

\* What write() takes from the buffer is the packet.
LEMMA BuildWrites ==
  ASSUME NEW buf \in [0 .. MaxPacket - 1 -> Bytes],
         NEW header \in {PUBLISH0, SUBSCRIBE}, NEW body \in Seq(Bytes),
         Room + Len(body) <= MaxPacket,
         Build(header, body, Store(buf, Room, body))
  PROVE  /\ buffer' \in [0 .. MaxPacket - 1 -> Bytes]
         /\ wrote' = Framed(header, body)
         /\ reach' = Room + Len(body)
         /\ result' = TRUE
<1> DEFINE f == LengthField(Len(body))
           at == Room - 1 - Len(f)
           inner == Overlay(buf, Room, body)
           done == Overlay(inner, at, <<header>> \o f)
           n == 1 + Len(f) + Len(body)
<1>1. header \in Bytes /\ f \in Seq(Bytes) /\ Len(f) \in 1 .. 3 /\ Len(body) \in Nat
  <2>1. Len(body) \in Nat
    OBVIOUS
  <2>2. header \in Bytes
    BY RadixFacts, SMT DEF PUBLISH0, SUBSCRIBE, Bytes
  <2>3. /\ Digits(Len(body)) \in 1 .. 3
        /\ LengthField(Len(body)) \in Seq(Bytes)
        /\ Len(LengthField(Len(body))) = Digits(Len(body))
    BY <2>1, FieldType
  <2> QED BY <2>1, <2>2, <2>3
<1> HIDE DEF f
<1>2. inner \in [0 .. MaxPacket - 1 -> Bytes]
  BY OverlayType, SMT DEF Room
<1>3. at \in Int /\ <<header>> \o f \in Seq(Bytes)
  BY <1>1, SMT DEF Room
<1>4. done \in [0 .. MaxPacket - 1 -> Bytes]
  BY <1>2, <1>3, OverlayType
<1>5. Framed(header, body) = <<header>> \o f \o body
  BY DEF Framed, f
<1>6. ASSUME NEW i \in 1 .. n
      PROVE  done[at + i - 1] = (<<header>> \o f \o body)[i]
  <2>1. CASE i <= 1 + Len(f)
    <3>1. at + i - 1 \in 0 .. MaxPacket - 1
      <4> DEFINE l == Len(f)
      <4>1. l \in 1 .. 3 /\ i \in Nat /\ i >= 1 /\ i <= 1 + l
        BY <1>1, <2>1
      <4> HIDE DEF l
      <4>2. Room - 1 - l + i - 1 \in 0 .. MaxPacket - 1
        BY <4>1, MaxFacts, SMT DEF Room
      <4> QED BY <4>2 DEF l
    <3>2. done[at + i - 1] = (<<header>> \o f)[i]
      <4> DEFINE x == at + i - 1
                 h == <<header>> \o f
      <4>1. h \in Seq(Bytes) /\ Len(h) = 1 + Len(f)
        BY <1>1, SMT
      <4>2. x \in 0 .. MaxPacket - 1 /\ x >= at /\ x < at + Len(h) /\ x - at + 1 = i
        BY <1>1, <3>1, <2>1, <4>1, SMT DEF Room
      <4> HIDE DEF x, h, at, inner
      <4>3. Overlay(inner, at, h)[x] = h[i]
        BY <1>2, <1>3, <4>1, <4>2, OverlayAt
      <4> QED BY <4>3 DEF x, h
    <3>3. (<<header>> \o f \o body)[i] = (<<header>> \o f)[i]
      BY <1>1, <2>1, SMT
    <3> QED BY <3>2, <3>3
  <2>2. CASE i > 1 + Len(f)
    <3>1. at + i - 1 \in 0 .. MaxPacket - 1 /\ at + i - 1 >= Room
          /\ at + i - 1 - Room + 1 = i - 1 - Len(f)
          /\ i - 1 - Len(f) \in 1 .. Len(body)
      BY <1>1, <2>2, MaxFacts, SMT DEF Room
    <3>2. done[at + i - 1] = inner[at + i - 1]
      <4> DEFINE x == at + i - 1
                 h == <<header>> \o f
      <4>1. h \in Seq(Bytes) /\ Len(h) = 1 + Len(f)
        BY <1>1, SMT
      <4>2. x \in 0 .. MaxPacket - 1 /\ ~ (x < at + Len(h))
        BY <1>1, <3>1, <2>2, <4>1, SMT DEF Room
      <4> HIDE DEF x, h, at, inner
      <4>3. Overlay(inner, at, h)[x] = inner[x]
        BY <1>2, <1>3, <4>1, <4>2, OverlayAt
      <4> QED BY <4>3 DEF x, h
    <3>3. inner[at + i - 1] = body[i - 1 - Len(f)]
      <4> DEFINE x == at + i - 1
      <4>1. x \in 0 .. MaxPacket - 1 /\ x >= Room /\ x < Room + Len(body)
            /\ x - Room + 1 = i - 1 - Len(f) /\ Room \in Int
        BY <1>1, <3>1, SMT DEF Room
      <4> HIDE DEF x
      <4>2. inner[x] = body[i - 1 - Len(f)]
        BY <4>1, OverlayAt
      <4> QED BY <4>2 DEF x
    <3>4. (<<header>> \o f \o body)[i] = body[i - 1 - Len(f)]
      BY <1>1, <2>2, <3>1, SMT
    <3> QED BY <3>2, <3>3, <3>4
  <2> QED BY <1>1, <2>1, <2>2, SMT
<1>61. Store(buf, Room, body) = inner
  <2>1. Room \in Nat
    BY SMT DEF Room
  <2> QED BY <2>1, StoreInside
<1>62. Store(inner, at, <<header>> \o f) = done
  <2> DEFINE h == <<header>> \o f
             l == Len(f)
  <2>1. h \in Seq(Bytes) /\ Len(h) = 1 + l /\ l \in 1 .. 3
    BY <1>1, SMT
  <2>2. at = Room - 1 - l
    OBVIOUS
  <2> HIDE DEF h, l, at
  <2>3. at \in Nat /\ at + Len(h) <= MaxPacket
    BY <2>1, <2>2, MaxFacts, SMT DEF Room
  <2> HIDE DEF inner
  <2>4. Store(inner, at, h) = Overlay(inner, at, h)
    BY <1>2, <2>1, <2>3, StoreInside
  <2> QED BY <2>4 DEF h
<1>7. wrote' = Segment(done, at, n) /\ buffer' = done
      /\ reach' = Room + Len(body) /\ result' = TRUE
  <2>1. Build(header, body, inner)
    BY <1>61
  <2> HIDE DEF inner
  <2> QED BY <1>62, <2>1 DEF Build, f
<1>8. Segment(done, at, n) = [i \in 1 .. n |-> (<<header>> \o f \o body)[i]]
  BY <1>6 DEF Segment
<1>9. <<header>> \o f \o body = [i \in 1 .. n |-> (<<header>> \o f \o body)[i]]
  <2>1. <<header>> \o f \o body \in Seq(Bytes) /\ Len(<<header>> \o f \o body) = n
    BY <1>1, SMT
  <2> QED BY <2>1, SMT
<1> QED BY <1>4, <1>5, <1>7, <1>8, <1>9
-----------------------------------------------------------------------------
(* The inductive invariant *)

\* What the callback saved on entry is the payload of the message it was given.
CopyKept == pc = "callback" => given # <<>> /\ copy = given[Len(given)].payload

IInv == TypeOK /\ CopyKept /\ WrittenAsMeant /\ PublishedIsReceivable

LEMMA InvInit == Init => IInv
<1> SUFFICES ASSUME Init PROVE IInv
  OBVIOUS
<1>1. 0 \in Bytes
  BY RadixFacts, SMT DEF Bytes
<1>2. None \in Views
  BY <1>1, MaxFacts, SMT DEF None, Views
<1>3. buffer \in [0 .. MaxPacket - 1 -> Bytes]
  BY <1>1 DEF Init
<1>4. TypeOK
  <2>1. /\ torn \in BOOLEAN /\ result \in BOOLEAN /\ pc \in {"idle", "callback"} /\ view \in Views
        /\ call \in {"none", "publish", "publish_P", "subscribe"}
    BY <1>2 DEF Init
  <2>2. /\ wire = <<>> /\ wrote = <<>> /\ asked = <<>> /\ copy = <<>>
        /\ sent = <<>> /\ acked = <<>> /\ given = <<>> /\ reach = 0
    BY DEF Init
  <2>3. /\ wire \in Seq(Bytes) /\ wrote \in Seq(Bytes) /\ asked \in Seq(Bytes)
        /\ copy \in Seq(Bytes) /\ reach \in Nat
        /\ sent \in Seq(Messages) /\ acked \in Seq(Bytes) /\ given \in Seq(Given)
    BY <2>2, SMT
  <2> QED BY <1>3, <2>1, <2>3, ArrayWhole DEF TypeOK, Array
<1>5. CopyKept /\ WrittenAsMeant
  BY DEF Init, CopyKept, WrittenAsMeant
<1>6. PublishedIsReceivable
  BY DEF Init, PublishedIsReceivable
<1> QED BY <1>4, <1>5, <1>6 DEF IInv

LEMMA WholeBuffer ==
  ASSUME TypeOK, Intact
  PROVE  buffer \in [0 .. MaxPacket - 1 -> Bytes]
<1>1. Array(buffer) /\ DOMAIN buffer = 0 .. MaxPacket - 1
  BY DEF TypeOK, Array, Intact
<1> QED BY <1>1, ArrayWhole

\* A step that is no call of the application leaves nothing to say of one.
LEMMA NoCallHolds ==
  ASSUME NoCall
  PROVE  /\ WrittenAsMeant' /\ PublishedIsReceivable'
         /\ wrote' \in Seq(Bytes) /\ asked' \in Seq(Bytes)
         /\ reach' \in Nat /\ result' \in BOOLEAN
         /\ call' \in {"none", "publish", "publish_P", "subscribe"}
<1>1. call' = "none" /\ wrote' = <<>> /\ asked' = <<>> /\ reach' = 0 /\ result' = FALSE
  BY DEF NoCall
<1>3. PublishedIsReceivable'
  BY <1>1 DEF PublishedIsReceivable
<1>4. wrote' \in Seq(Bytes) /\ asked' \in Seq(Bytes) /\ reach' \in Nat
  BY <1>1, SMT
<1>5. result' \in BOOLEAN
  BY <1>1
<1> QED BY <1>1, <1>3, <1>4, <1>5 DEF WrittenAsMeant

LEMMA ExtentFacts ==
  ASSUME NEW s \in Seq(Bytes), Extent(s) \in 1 .. Len(s), IsPublish(s)
  PROVE  LengthDigits(s) \in Nat /\ LengthDigits(s) + 3 <= Extent(s)
<1> DEFINE digits == LengthDigits(s)
           ends == {i \in 1 .. Len(s) - 1 : s[i + 1] < Radix}
           length == LengthValue(s, digits)
           Digit(i) == IF i <= digits THEN s[i + 1] % Radix ELSE 0
<1>1. digits # 0
  BY DEF Extent
<1>2. ends # {}
  BY <1>1 DEF LengthDigits
<1>3. digits = CHOOSE i \in ends : \A j \in ends : i <= j
  BY <1>2 DEF LengthDigits
<1>4. \E i \in ends : \A j \in ends : i <= j
  <2>1. ends \subseteq Nat
    BY SMT
  <2> HIDE DEF ends
  <2>2. PICK x \in ends : \A y \in ends : ~ (<<y, x>> \in OpToRel(<, Nat))
    BY <1>2, <2>1, NatLessThanWellFounded, WFMin
  <2>3. ASSUME NEW y \in ends PROVE x <= y
    <3>1. x \in Nat /\ y \in Nat
      BY <2>1
    <3>2. ~ (y < x)
      BY <2>2, <3>1 DEF OpToRel
    <3> QED BY <3>1, <3>2, SMT
  <2> QED BY <2>3
<1>5. digits \in ends
  BY <1>3, <1>4
<1>6. digits \in 1 .. Len(s) - 1
  BY <1>5
<1> HIDE DEF digits
<1>7. length \in Int
  <2>1. \A i \in {1, 2, 3} : Digit(i) \in Nat
    <3> SUFFICES ASSUME NEW i \in {1, 2, 3}, i <= digits PROVE s[i + 1] % Radix \in Nat
      OBVIOUS
    <3>1. i + 1 \in 1 .. Len(s)
      BY <1>6, SMT
    <3>2. s[i + 1] \in Nat
      BY <3>1, RadixFacts, SMT DEF Bytes
    <3> QED BY <3>2, RadixFacts, SMT
  <2>2. \A i \in {1, 2, 3} : Digit(i) * Place(i) \in Nat
    <3> SUFFICES ASSUME NEW i \in {1, 2, 3} PROVE Digit(i) * Place(i) \in Nat
      OBVIOUS
    <3>1. Digit(i) \in Nat /\ Place(i) \in Nat
      BY <2>1, RadixFacts DEF Place
    <3> QED BY <3>1
  <2>3. 4 * Radix * Radix \in Nat /\ 4 * Radix * Radix > 0
    BY RadixFacts, SMT
  <2> DEFINE sum == Digit(1) * Place(1) + Digit(2) * Place(2) + Digit(3) * Place(3)
  <2>4. sum \in Nat
    BY <2>2
  <2>5. length = sum % (4 * Radix * Radix)
    BY DEF LengthValue, digits
  <2> HIDE DEF sum
  <2> QED BY <2>3, <2>4, <2>5, DivModFacts
<1>8. Extent(s) = 1 + digits + (IF length < 2 THEN 2 ELSE length)
  BY <1>1 DEF Extent, digits
<1> HIDE DEF length
<1>9. digits \in Nat /\ digits + 3 <= Extent(s)
  BY <1>6, <1>7, <1>8, SMT
<1> QED BY <1>9 DEF digits

\* A PUBLISH that write() builds can come back at either QoS.
LEMMA Receivable ==
  ASSUME NEW n \in Nat, Room + n <= MaxPacket
  PROVE  /\ 1 + Digits(n) + n <= MaxPacket
         /\ 1 + Digits(n + 2) + (n + 2) <= MaxPacket
<1>1. MaxPacket <= Radix * Radix /\ Radix * Radix \in Nat /\ Radix \in Nat
  BY RadixFacts, SizeAssumption DEF SizeAssumption
<1>2. \A k \in Nat : k < Radix * Radix => Digits(k) <= 2 /\ Digits(k) \in Nat
  BY SMT DEF Digits
<1>3. n < Radix * Radix /\ n + 2 < Radix * Radix /\ n + 2 \in Nat
  BY <1>1, MaxFacts, SMT DEF Room
<1> QED BY <1>2, <1>3, MaxFacts, SMT DEF Room

LEMMA BuildHolds ==
  ASSUME TypeOK, Intact, NEW body \in Seq(Bytes),
         Room + Len(body) <= MaxPacket,
         Build(PUBLISH0, body, Store(buffer, Room, body)),
         asked' = Framed(PUBLISH0, body)
  PROVE  /\ buffer' \in [0 .. MaxPacket - 1 -> Bytes]
         /\ WrittenAsMeant' /\ PublishedIsReceivable'
         /\ wrote' \in Seq(Bytes) /\ asked' \in Seq(Bytes)
         /\ reach' \in Nat /\ result' \in BOOLEAN
<1>1. buffer \in [0 .. MaxPacket - 1 -> Bytes]
  BY WholeBuffer
<1>2. /\ buffer' \in [0 .. MaxPacket - 1 -> Bytes]
      /\ wrote' = Framed(PUBLISH0, body)
      /\ reach' = Room + Len(body) /\ result' = TRUE
  BY <1>1, BuildWrites
<1>3. Framed(PUBLISH0, body) \in Seq(Bytes)
  BY FramedType
<1>4. Len(body) \in Nat
  OBVIOUS
<1>5. reach' - Room = Len(body) /\ reach' \in Nat
  BY <1>2, <1>4, SMT DEF Room
<1>6. PublishedIsReceivable'
  BY <1>4, <1>5, Receivable DEF PublishedIsReceivable
<1>7. result' \in BOOLEAN
  BY <1>2
<1> QED BY <1>2, <1>3, <1>5, <1>6, <1>7 DEF WrittenAsMeant

LEMMA StepLoopRead ==
  ASSUME IInv, Intact, LoopRead
  PROVE  IInv'
<1> DEFINE extent == Extent(wire)
           packet == SubSeq(wire, 1, extent)
           llen == LengthDigits(wire)
           buf == Stored(buffer, packet)
           tl == buf[llen + 1] * 2 * Radix + buf[llen + 2]
           qos == IF buf[0] = PUBLISH1 THEN 1 ELSE 0
           start == llen + 3 + tl + 2 * qos
<1>1. TypeOK
  BY DEF IInv
<1>2. extent \in 1 .. Len(wire) /\ wire \in Seq(Bytes) /\ Len(wire) \in Nat
  BY <1>1 DEF LoopRead, TypeOK
<1>3. packet \in Seq(Bytes) /\ Len(packet) = extent /\ packet[1] = wire[1]
  <2> HIDE DEF extent
  <2> QED BY <1>2, SMT
<1>4. /\ buffer' = buf /\ Array(buf)
      /\ extent <= MaxPacket => buf \in [0 .. MaxPacket - 1 -> Bytes]
  <2>1. buffer' = buf
    BY DEF LoopRead
  <2>2. buffer \in [0 .. MaxPacket - 1 -> Bytes]
    BY <1>1, WholeBuffer
  <2> HIDE DEF packet, extent
  <2>3. Array(buf)
    BY <1>3, <2>2, StoredType
  <2>4. ASSUME extent <= MaxPacket PROVE buf \in [0 .. MaxPacket - 1 -> Bytes]
    <3>1. Unchecked(packet) <= MaxPacket
      <4>1. Unchecked(packet) \in 0 .. extent /\ extent \in Nat
        BY <1>2, <1>3, UncheckedType, SMT
      <4> QED BY <2>4, <4>1, MaxFacts, SMT
    <3>2. buf = Overlay(buffer, 0, packet)
      BY <1>3, <2>2, <3>1, StoredInside
    <3> HIDE DEF buf
    <3> QED BY <1>3, <2>2, <3>2, OverlayAtZero
  <2> QED BY <2>1, <2>3, <2>4
<1>5. wire' \in Seq(Bytes)
  <2>1. wire' = SubSeq(wire, extent + 1, Len(wire))
    BY DEF LoopRead, Taken
  <2> HIDE DEF extent
  <2> QED BY <1>2, <2>1, SMT
<1>6. NoCall /\ UNCHANGED <<sent, acked, torn>>
  BY DEF LoopRead
<1>7. pc' \in {"idle", "callback"} /\ view' \in Views /\ copy' \in Seq(Bytes)
      /\ given' \in Seq(Given) /\ CopyKept'
  <2>1. CASE extent <= MaxPacket /\ IsPublish(packet) /\ start <= extent
    <3> DEFINE payload == Segment(buf, start, extent - start)
               topic == Segment(buf, llen + 3, tl)
               id == IF qos = 1 THEN buf[start - 1] ELSE 0
    <3>1. /\ pc' = "callback" /\ copy' = payload
          /\ view' = [topic |-> topic, qos |-> qos, id |-> id,
                      start |-> start, length |-> extent - start]
          /\ given' = Append(given, [topic |-> view'.topic, qos |-> qos,
                                     id |-> view'.id, payload |-> payload])
      BY <2>1 DEF LoopRead
    <3>2. llen \in Nat /\ llen + 3 <= extent
      <4>1. IsPublish(wire)
        BY <1>3, <2>1 DEF IsPublish
      <4> QED BY <1>2, <4>1, ExtentFacts
    <3> HIDE DEF extent, llen, packet, buf
    <3>3. extent \in Nat /\ extent <= MaxPacket
      BY <1>2, <2>1, SMT
    <3>31. buf \in [0 .. MaxPacket - 1 -> Bytes]
      BY <1>4, <3>3
    <3>4. buf[llen + 1] \in Nat /\ buf[llen + 2] \in Nat
      BY <3>31, <3>2, <3>3, MaxFacts, RadixFacts, SMT DEF Bytes
    <3>5. tl \in Nat
      <4>1. \A a, b \in Nat : a * 2 * b \in Nat
        BY SMT
      <4>2. buf[llen + 1] * 2 * Radix \in Nat
        BY <3>4, <4>1, RadixFacts
      <4> QED BY <3>4, <4>2, SMT
    <3>6. qos \in {0, 1}
      OBVIOUS
    <3> HIDE DEF tl, qos
    <3>7. start \in Nat /\ start >= 3 /\ start <= extent /\ start <= MaxPacket
          /\ llen + 3 + tl <= MaxPacket /\ llen + 3 \in Nat
          /\ extent - start \in 0 .. MaxPacket
      BY <2>1, <3>2, <3>3, <3>5, <3>6, MaxFacts, SMT
    <3>8. topic \in Seq(Bytes)
      BY <3>31, <3>5, <3>7, SegmentType
    <3>9. id \in Bytes
      <4>1. 0 \in Bytes
        BY RadixFacts, SMT DEF Bytes
      <4>2. start - 1 \in 0 .. MaxPacket - 1
        BY <3>7, MaxFacts, SMT
      <4> QED BY <3>31, <4>1, <4>2
    <3>10. payload \in Seq(Bytes)
      <4> HIDE DEF start
      <4>1. start + (extent - start) <= MaxPacket /\ extent - start \in Nat
        BY <3>3, <3>7, MaxFacts, SMT
      <4> QED BY <3>31, <3>7, <4>1, SegmentType
    <3> HIDE DEF topic, payload, id, start
    <3>11. view' \in Views /\ view'.topic = topic /\ view'.id = id
      BY <3>1, <3>6, <3>7, <3>8, <3>9, MaxFacts, SMT DEF Views
    <3> DEFINE m == [topic |-> view'.topic, qos |-> qos, id |-> view'.id,
                     payload |-> payload]
    <3>12. m \in Given /\ m.payload = payload
      BY <3>6, <3>8, <3>9, <3>10, <3>11 DEF Given
    <3> HIDE DEF m
    <3>13. given \in Seq(Given)
      BY <1>1 DEF TypeOK
    <3>14. given' = Append(given, m)
      BY <3>1 DEF m
    <3>15. given' \in Seq(Given) /\ given' # <<>> /\ given'[Len(given')] = m
      BY <3>12, <3>13, <3>14, SMT
    <3> QED BY <3>1, <3>10, <3>11, <3>12, <3>15 DEF CopyKept
  <2>2. CASE ~(extent <= MaxPacket /\ IsPublish(packet) /\ start <= extent)
    <3>1. UNCHANGED <<pc, view, copy, given>>
      BY <2>2 DEF LoopRead
    <3> QED BY <1>1, <3>1 DEF IInv, TypeOK, CopyKept
  <2> QED BY <2>1, <2>2
<1>8. TypeOK'
  <2> HIDE DEF buf
  <2> QED BY <1>1, <1>4, <1>5, <1>6, <1>7, NoCallHolds DEF TypeOK, Array
<1> QED BY <1>6, <1>7, <1>8, NoCallHolds DEF IInv

LEMMA ByteFacts == {0, 1, 2, PUBLISH0, PUBLISH1, PUBACK, SUBSCRIBE} \subseteq Bytes
BY RadixFacts, SMT DEF PUBLISH0, PUBLISH1, PUBACK, SUBSCRIBE, Bytes

LEMMA ConcatType ==
  ASSUME NEW s \in Seq(Bytes), NEW t \in Seq(Bytes)
  PROVE  /\ s \o t \in Seq(Bytes) /\ Len(s \o t) = Len(s) + Len(t)
         /\ Len(s) \in Nat /\ Len(t) \in Nat
BY SMT

\* The body of a PUBLISH of topic t and payload p.
LEMMA BodyFacts ==
  ASSUME NEW t \in Seq(Bytes), NEW p \in Seq(Bytes), Len(t) < 4 * Radix * Radix
  PROVE  /\ Text(t) \in Seq(Bytes) /\ Len(Text(t)) = Len(t) + 2
         /\ Text(t) \o p \in Seq(Bytes)
         /\ Len(Text(t) \o p) = Len(t) + 2 + Len(p)
         /\ Len(t) \in Nat /\ Len(p) \in Nat
         /\ PublishFits(t, p) => Room + Len(Text(t) \o p) <= MaxPacket
<1>1. Text(t) \in Seq(Bytes) /\ Len(Text(t)) = Len(t) + 2
  BY TextType
<1>2. /\ Text(t) \o p \in Seq(Bytes) /\ Len(Text(t) \o p) = Len(Text(t)) + Len(p)
      /\ Len(t) \in Nat /\ Len(p) \in Nat
  BY <1>1, ConcatType
<1>3. PublishFits(t, p) => Room + Len(Text(t) \o p) <= MaxPacket
  <2> DEFINE a == Len(t)
             b == Len(p)
  <2>1. PublishFits(t, p) => Room + 2 + a + b <= MaxPacket
    BY DEF PublishFits
  <2>2. Len(Text(t) \o p) = a + 2 + b /\ a \in Nat /\ b \in Nat
    BY <1>1, <1>2
  <2> HIDE DEF a, b
  <2> QED BY <2>1, <2>2, MaxFacts, SMT DEF Room
<1> QED BY <1>1, <1>2, <1>3

LEMMA StepBroker ==
  ASSUME IInv, NEW m \in Messages, BrokerSend(m)
  PROVE  IInv'
<1>1. TypeOK
  BY DEF IInv
<1>2. /\ m.topic \in Seq(Bytes) /\ m.payload \in Seq(Bytes) /\ m.id \in Bytes
      /\ Text(m.topic) \in Seq(Bytes)
  BY MessageAssumption, TextType DEF MessageAssumption
<1> DEFINE ids == IF m.qos = 1 THEN <<0, m.id>> ELSE <<>>
           header == IF m.qos = 1 THEN PUBLISH1 ELSE PUBLISH0
           body == Text(m.topic) \o ids \o m.payload
<1>3. ids \in Seq(Bytes)
  <2>1. 0 \in Bytes
    BY ByteFacts
  <2>2. <<0, m.id>> \in Seq(Bytes) /\ <<>> \in Seq(Bytes)
    BY <1>2, <2>1, SMT
  <2> QED BY <2>2
<1>4. body \in Seq(Bytes)
  <2> HIDE DEF ids
  <2> QED BY <1>2, <1>3, SMT
<1>5. header \in {PUBLISH0, PUBLISH1, SUBSCRIBE}
  OBVIOUS
<1> HIDE DEF body, header
<1>6. Framed(header, body) \in Seq(Bytes)
  BY <1>4, <1>5, FramedType
<1>7. Publication(m) = Framed(header, body)
  BY DEF Publication, header, body
<1>8. wire' \in Seq(Bytes)
  BY <1>1, <1>6, <1>7, SMT DEF BrokerSend, TypeOK
<1>9. sent' \in Seq(Messages)
  BY <1>1, SMT DEF BrokerSend, TypeOK
<1>10. NoCall /\ UNCHANGED <<buffer, pc, view, copy, given, acked, torn>>
  BY DEF BrokerSend
<1>11. TypeOK'
  BY <1>1, <1>8, <1>9, <1>10, NoCallHolds DEF TypeOK
<1>12. CopyKept'
  BY <1>10 DEF IInv, CopyKept
<1> QED BY <1>10, <1>11, <1>12, NoCallHolds DEF IInv

LEMMA StepReconnect ==
  ASSUME IInv, Reconnect
  PROVE  IInv'
<1>1. TypeOK
  BY DEF IInv
<1>2. NoCall /\ UNCHANGED <<buffer, pc, view, copy>> /\ pc = "idle"
      /\ wire' = <<>> /\ sent' = <<>> /\ given' = <<>> /\ acked' = <<>> /\ torn' = FALSE
  BY DEF Reconnect
<1>3. wire' \in Seq(Bytes) /\ sent' \in Seq(Messages) /\ given' \in Seq(Given)
      /\ acked' \in Seq(Bytes)
  BY <1>2, SMT
<1>4. torn' \in BOOLEAN
  BY <1>2
<1>5. TypeOK'
  BY <1>1, <1>2, <1>3, <1>4, NoCallHolds DEF TypeOK
<1>6. CopyKept'
  BY <1>2 DEF CopyKept
<1> QED BY <1>2, <1>5, <1>6, NoCallHolds DEF IInv

LEMMA StepPowerCycle ==
  ASSUME PowerCycle
  PROVE  IInv'
<1>1. NoCall /\ pc' = "idle" /\ view' = None /\ copy' = <<>>
      /\ wire' = <<>> /\ sent' = <<>> /\ given' = <<>> /\ acked' = <<>> /\ torn' = FALSE
      /\ buffer' = [i \in 0 .. MaxPacket - 1 |-> 0]
  BY DEF PowerCycle
<1>2. wire' \in Seq(Bytes) /\ sent' \in Seq(Messages) /\ given' \in Seq(Given)
      /\ acked' \in Seq(Bytes) /\ copy' \in Seq(Bytes)
  BY <1>1, SMT
<1>3. torn' \in BOOLEAN /\ pc' \in {"idle", "callback"}
  BY <1>1
<1>4. 0 \in Bytes
  BY RadixFacts, SMT DEF Bytes
<1>5. view' \in Views
  BY <1>1, <1>4, MaxFacts, SMT DEF None, Views
<1>6. buffer' \in [0 .. MaxPacket - 1 -> Bytes]
  BY <1>1, <1>4
<1>7. Array(buffer')
  BY <1>6, ArrayWhole
<1>8. TypeOK'
  BY <1>1, <1>2, <1>3, <1>5, <1>7, NoCallHolds DEF TypeOK, Array
<1>9. CopyKept'
  BY <1>1 DEF CopyKept
<1> QED BY <1>1, <1>8, <1>9, NoCallHolds DEF IInv

LEMMA StepGiveUp ==
  ASSUME IInv, Intact, NEW k, LoopGiveUp(k)
  PROVE  IInv'
<1>1. TypeOK /\ k \in 1 .. Len(wire)
  BY DEF IInv, LoopGiveUp
<1>2. /\ NoCall /\ UNCHANGED <<pc, view, copy, sent, given, acked>>
      /\ torn' = TRUE
      /\ buffer' = Stored(buffer, SubSeq(wire, 1, k))
      /\ wire' = SubSeq(wire, k + 1, Len(wire))
  BY DEF LoopGiveUp
<1>3. SubSeq(wire, 1, k) \in Seq(Bytes) /\ wire' \in Seq(Bytes)
  BY <1>1, <1>2, SMT DEF TypeOK
<1>4. Array(buffer')
  BY <1>1, <1>2, <1>3, WholeBuffer, StoredType
<1>5. torn' \in BOOLEAN
  BY <1>2
<1>6. TypeOK'
  BY <1>1, <1>2, <1>3, <1>4, <1>5, NoCallHolds DEF TypeOK, Array
<1>7. CopyKept'
  BY <1>2 DEF IInv, CopyKept
<1> QED BY <1>2, <1>6, <1>7, NoCallHolds DEF IInv

LEMMA StepReturn ==
  ASSUME IInv, Intact, CallbackReturn
  PROVE  IInv' /\ Intact'
<1>1. TypeOK
  BY DEF IInv
<1>2. NoCall /\ UNCHANGED <<wire, sent, given, torn>>
      /\ pc' = "idle" /\ view' = None /\ copy' = <<>>
  BY DEF CallbackReturn
<1>3. None \in Views /\ copy' \in Seq(Bytes)
  <2>1. 0 \in Bytes
    BY ByteFacts
  <2> QED BY <1>2, <2>1, MaxFacts, SMT DEF None, Views
<1>4. AckId \in Bytes
  BY <1>1 DEF TypeOK, Views, AckId
<1>5. <<PUBACK, 2, 0, AckId>> \in Seq(Bytes)
  <2>1. PUBACK \in Bytes /\ 2 \in Bytes /\ 0 \in Bytes
    BY ByteFacts
  <2> HIDE DEF AckId
  <2> QED BY <1>4, <2>1, SMT
<1>6. buffer' \in [0 .. MaxPacket - 1 -> Bytes]
  <2> DEFINE s == <<PUBACK, 2, 0, AckId>>
  <2>1. Len(s) = 4
    BY SMT
  <2>2. buffer' = Store(buffer, 0, s) \/ buffer' = buffer
    BY DEF CallbackReturn
  <2>3. s \in Seq(Bytes) /\ buffer \in [0 .. MaxPacket - 1 -> Bytes]
    BY <1>1, <1>5, WholeBuffer
  <2> HIDE DEF s
  <2>4. 0 \in Nat /\ 0 + Len(s) <= MaxPacket
    BY <2>1, MaxFacts, SMT
  <2>5. Store(buffer, 0, s) = Overlay(buffer, 0, s)
    BY <2>3, <2>4, StoreInside
  <2> QED BY <2>2, <2>3, <2>5, OverlayAtZero
<1>7. acked' \in Seq(Bytes)
  <2>1. acked \in Seq(Bytes) /\ (acked' = Append(acked, AckId) \/ acked' = acked)
    BY <1>1 DEF CallbackReturn, TypeOK
  <2> HIDE DEF AckId
  <2> QED BY <1>4, <2>1, SMT
<1>61. Array(buffer') /\ Intact'
  BY <1>6, ArrayWhole DEF Intact
<1>8. TypeOK'
  BY <1>1, <1>2, <1>3, <1>61, <1>7, NoCallHolds DEF TypeOK, Array
<1>9. CopyKept'
  BY <1>2 DEF CopyKept
<1> QED BY <1>2, <1>8, <1>9, <1>61, NoCallHolds DEF IInv

\* A call of the application that builds its packet as write() does.
LEMMA StepBuild ==
  ASSUME IInv, Intact, NEW body \in Seq(Bytes),
         Room + Len(body) <= MaxPacket,
         Build(PUBLISH0, body, Store(buffer, Room, body)),
         asked' = Framed(PUBLISH0, body), call' = "publish",
         UNCHANGED <<wire, pc, view, copy, history>>
  PROVE  IInv' /\ Intact'
<1>1. TypeOK
  BY DEF IInv
<1>2. CopyKept'
  BY DEF IInv, CopyKept, history
<1>3. /\ buffer' \in [0 .. MaxPacket - 1 -> Bytes]
      /\ WrittenAsMeant' /\ PublishedIsReceivable'
      /\ wrote' \in Seq(Bytes) /\ asked' \in Seq(Bytes)
      /\ reach' \in Nat /\ result' \in BOOLEAN
  BY <1>1, BuildHolds
<1>31. Array(buffer') /\ Intact'
  BY <1>3, ArrayWhole DEF Intact
<1>4. TypeOK'
  BY <1>1, <1>3, <1>31 DEF TypeOK, Array, history
<1> QED BY <1>2, <1>3, <1>31, <1>4 DEF IInv

LEMMA StepPublish ==
  ASSUME IInv, Intact, NEW text \in Texts, Publish(text)
  PROVE  IInv' /\ Intact'
<1>1. text.topic \in Seq(Bytes) /\ text.payload \in Seq(Bytes)
      /\ Len(text.topic) < 4 * Radix * Radix
  BY MessageAssumption DEF MessageAssumption
<1>2. CASE PublishFits(text.topic, text.payload)
  <2> DEFINE body == Text(text.topic) \o text.payload
  <2>1. body \in Seq(Bytes)
    BY <1>1, BodyFacts
  <2>2. Room + Len(body) <= MaxPacket
    BY <1>1, <1>2, BodyFacts
  <2>3. /\ Build(PUBLISH0, body, Store(buffer, Room, body))
        /\ call' = "publish" /\ asked' = Framed(PUBLISH0, body)
        /\ UNCHANGED <<wire, pc, view, copy, history>>
    BY <1>2 DEF Publish
  <2> HIDE DEF body
  <2> QED BY <2>1, <2>2, <2>3, StepBuild
<1>3. CASE ~PublishFits(text.topic, text.payload)
  <2>1. NoCall /\ UNCHANGED <<buffer, wire, pc, view, copy, history>>
    BY <1>3 DEF Publish
  <2>2. TypeOK'
    BY <2>1, NoCallHolds DEF IInv, TypeOK, history
  <2>3. CopyKept'
    BY <2>1 DEF IInv, CopyKept, history
  <2> QED BY <2>1, <2>2, <2>3, NoCallHolds DEF IInv, Intact
<1> QED BY <1>2, <1>3

LEMMA StepRepublish ==
  ASSUME IInv, Intact, NEW text \in Texts, Republish(text.topic)
  PROVE  IInv' /\ Intact'
<1>1. text.topic \in Seq(Bytes) /\ Len(text.topic) < 4 * Radix * Radix
  BY MessageAssumption DEF MessageAssumption
<1>2. copy \in Seq(Bytes) /\ copy = given[Len(given)].payload
  BY DEF IInv, TypeOK, CopyKept, Republish
<1> DEFINE body == Text(text.topic) \o copy
<1>3. body \in Seq(Bytes)
  BY <1>1, <1>2, BodyFacts
<1>4. Room + Len(body) <= MaxPacket
  <2>1. PublishFits(text.topic, copy)
    BY DEF Republish
  <2> QED BY <1>1, <1>2, <2>1, BodyFacts
<1>5. /\ Build(PUBLISH0, body, Store(buffer, Room, body))
      /\ call' = "publish" /\ asked' = Framed(PUBLISH0, body)
      /\ UNCHANGED <<wire, pc, view, copy, history>>
  BY <1>2 DEF Republish, PayloadSaved
<1> HIDE DEF body
<1> QED BY <1>3, <1>4, <1>5, StepBuild

LEMMA StepPublishP ==
  ASSUME IInv, Intact, NEW text \in Texts, PublishP(text)
  PROVE  IInv' /\ (Intact' \/ (call' = "publish_P" /\ reach' > MaxPacket))
<1> DEFINE tl == Len(text.topic)
           pl == Len(text.payload)
           b == Text(text.topic) \o text.payload
           f == LengthField(Len(b))
           head == <<PUBLISH0>> \o f \o Text(text.topic)
<1>1. text.topic \in Seq(Bytes) /\ text.payload \in Seq(Bytes)
      /\ Len(text.topic) < 4 * Radix * Radix
  BY MessageAssumption DEF MessageAssumption
<1>2. /\ Text(text.topic) \in Seq(Bytes) /\ Len(Text(text.topic)) = tl + 2
      /\ b \in Seq(Bytes) /\ Len(b) = tl + 2 + pl /\ tl \in Nat /\ pl \in Nat
  BY <1>1, BodyFacts
<1>3. f \in Seq(Bytes) /\ Len(f) = Digits(Len(b)) /\ Len(f) \in 1 .. 3
  <2>1. Len(b) \in Nat
    <3> HIDE DEF tl, pl, b
    <3> QED BY <1>2, SMT
  <2> QED BY <2>1, FieldType
<1>4. /\ buffer' = Store(buffer, 0, head) /\ call' = "publish_P"
      /\ wrote' = head \o text.payload
      /\ asked' = Framed(PUBLISH0, b)
      /\ reach' = Len(head)
      /\ result' = (Len(wrote') = Len(text.topic) + 4 + Len(text.payload))
      /\ UNCHANGED <<wire, pc, view, copy, history>>
  BY DEF PublishP
<1>5. asked' = <<PUBLISH0>> \o f \o b
  BY <1>4 DEF Framed
<1> HIDE DEF f
<1>6. /\ head \in Seq(Bytes) /\ Len(head) = 1 + Len(f) + (tl + 2)
      /\ wrote' = asked' /\ wrote' \in Seq(Bytes) /\ Len(wrote') = 1 + Len(f) + (tl + 2) + pl
  <2>1. <<PUBLISH0>> \in Seq(Bytes) /\ Len(<<PUBLISH0>>) = 1
    <3>1. PUBLISH0 \in Bytes
      BY ByteFacts
    <3> QED BY <3>1, SMT
  <2> DEFINE g == <<PUBLISH0>> \o f
             t == Text(text.topic)
  <2>2. g \in Seq(Bytes) /\ Len(g) = 1 + Len(f)
    BY <1>3, <2>1, ConcatType
  <2> HIDE DEF g, t
  <2>3. t \in Seq(Bytes) /\ Len(t) = tl + 2
    BY <1>2 DEF t
  <2>4. (g \o t) \o text.payload = g \o (t \o text.payload)
    <3> DEFINE q == text.payload
    <3>1. q \in Seq(Bytes)
      BY <1>1
    <3> HIDE DEF q
    <3>2. (g \o t) \o q = g \o (t \o q)
      <4> QED BY <2>2, <2>3, <3>1, SMT
    <3> QED BY <3>2 DEF q
  <2>5. g \o t \in Seq(Bytes) /\ Len(g \o t) = Len(g) + Len(t)
    BY <2>2, <2>3, ConcatType
  <2>6. /\ (g \o t) \o text.payload \in Seq(Bytes)
        /\ Len((g \o t) \o text.payload) = Len(g \o t) + pl
    BY <1>1, <2>5, ConcatType
  <2>7. head = g \o t /\ wrote' = (g \o t) \o text.payload /\ asked' = g \o (t \o text.payload)
    BY <1>4, <1>5 DEF g, t
  <2> QED BY <2>2, <2>3, <2>4, <2>5, <2>6, <2>7
<1>7. reach' = 1 + Len(f) + (tl + 2)
  BY <1>4, <1>6
<1> HIDE DEF tl, pl, b
<1>8. reach' \in Nat /\ Len(head) \in Nat
  <2> HIDE DEF head
  <2> QED BY <1>4, <1>6, SMT
<1>83. PublishedIsReceivable'
  BY <1>4 DEF PublishedIsReceivable
<1>9. Array(buffer') /\ DOMAIN buffer' = 0 .. MaxPacket - 1 \cup 0 .. 0 + Len(head) - 1
  <2> HIDE DEF head
  <2>1. 0 \in Nat /\ buffer \in [0 .. MaxPacket - 1 -> Bytes]
    BY WholeBuffer DEF IInv
  <2> QED BY <1>4, <1>6, <2>1, StoreType
<1>91. Intact' \/ reach' > MaxPacket
  <2> DEFINE h == Len(head)
  <2>1. h \in Nat /\ reach' = h
    BY <1>4, <1>8
  <2> HIDE DEF h
  <2>2. h <= MaxPacket => 0 .. MaxPacket - 1 \cup 0 .. 0 + h - 1 = 0 .. MaxPacket - 1
    BY <2>1, MaxFacts, SMT
  <2>3. h <= MaxPacket \/ h > MaxPacket
    BY <2>1, MaxFacts, SMT
  <2> QED BY <1>9, <2>1, <2>2, <2>3 DEF Intact, h
<1>10. result' \in BOOLEAN
  BY <1>4
<1>11. TypeOK'
  BY <1>4, <1>6, <1>8, <1>9, <1>10 DEF IInv, TypeOK, Array, history
<1>12. CopyKept'
  BY <1>4 DEF IInv, CopyKept, history
<1> QED BY <1>4, <1>6, <1>83, <1>91, <1>11, <1>12 DEF IInv, WrittenAsMeant

LEMMA StepSubscribe ==
  ASSUME IInv, Intact, NEW text \in Texts, Subscribe(text.topic)
  PROVE  IInv' /\ (Intact' \/ (call' = "subscribe" /\ reach' = MaxPacket + 1))
<1> DEFINE body == <<0, 1>> \o Text(text.topic) \o <<0>>
           at == Room - 1 - Len(LengthField(Len(body)))
<1>1. /\ Text(text.topic) \in Seq(Bytes) /\ Len(Text(text.topic)) = Len(text.topic) + 2
      /\ Len(text.topic) \in Nat
  <2>1. text.topic \in Seq(Bytes) /\ Len(text.topic) < 4 * Radix * Radix
    BY MessageAssumption DEF MessageAssumption
  <2>2. Len(text.topic) \in Nat
    BY <2>1, SMT
  <2> QED BY <2>1, <2>2, TextType
<1>2. body \in Seq(Bytes) /\ Len(body) = Len(text.topic) + 5
  <2>1. 0 \in Bytes /\ 1 \in Bytes
    BY ByteFacts
  <2>2. <<0, 1>> \in Seq(Bytes) /\ <<0>> \in Seq(Bytes)
        /\ Len(<<0, 1>>) = 2 /\ Len(<<0>>) = 1
    BY <2>1, SMT
  <2> DEFINE a == <<0, 1>>
             b == <<0>>
             t == Text(text.topic)
  <2> HIDE DEF a, b, t
  <2>3. a \in Seq(Bytes) /\ b \in Seq(Bytes) /\ t \in Seq(Bytes)
        /\ Len(a) = 2 /\ Len(b) = 1 /\ Len(t) = Len(text.topic) + 2
    BY <1>1, <2>2 DEF a, b, t
  <2>4. /\ a \o t \in Seq(Bytes) /\ Len(a \o t) = Len(a) + Len(t)
    BY <2>3, ConcatType
  <2>5. /\ (a \o t) \o b \in Seq(Bytes) /\ Len((a \o t) \o b) = Len(a \o t) + Len(b)
    BY <2>3, <2>4, ConcatType
  <2>6. Len((a \o t) \o b) = Len(text.topic) + 5
    BY <1>1, <2>3, <2>4, <2>5, SMT
  <2> QED BY <2>5, <2>6 DEF a, b, t
<1>3. /\ buffer' = Store(buffer, at, Framed(SUBSCRIBE, body)) /\ call' = "subscribe"
      /\ wrote' = Framed(SUBSCRIBE, body) /\ asked' = Framed(SUBSCRIBE, body)
      /\ reach' = Room + Len(body) /\ result' = TRUE
      /\ UNCHANGED <<wire, pc, view, copy, history>>
  BY DEF Subscribe
<1> HIDE DEF body
<1> DEFINE n == Len(body)
           d == Digits(n)
           s == Framed(SUBSCRIBE, body)
<1>4. n \in Nat /\ d \in 1 .. 3 /\ at = Room - 1 - d /\ n = Len(text.topic) + 5
  <2>1. n \in Nat
    BY <1>2, SMT
  <2> QED BY <1>2, <2>1, FieldType
<1>5. s \in Seq(Bytes) /\ Len(s) = 1 + d + n
  BY <1>2, FramedType
<1> HIDE DEF n, d, s, at
<1>6. at \in Nat /\ at + Len(s) = Room + n /\ Room + n \in Nat
  <2> DEFINE e == Len(s)
  <2>1. e = 1 + d + n /\ n \in Nat /\ d \in 1 .. 3 /\ at = Room - 1 - d
    BY <1>4, <1>5
  <2> HIDE DEF e
  <2>2. at \in Nat /\ at + e = Room + n /\ Room + n \in Nat
    BY <2>1, SMT DEF Room
  <2> QED BY <2>2 DEF e
<1>7. Array(buffer') /\ DOMAIN buffer' = 0 .. MaxPacket - 1 \cup at .. at + Len(s) - 1
  <2>1. buffer \in [0 .. MaxPacket - 1 -> Bytes]
    BY WholeBuffer DEF IInv
  <2>2. buffer' = Store(buffer, at, s)
    BY <1>3 DEF s
  <2> QED BY <1>5, <1>6, <2>1, <2>2, StoreType
<1>71. Room + 4 + Len(text.topic) <= MaxPacket
  BY DEF Subscribe, SubscribeFits
<1>72. Room + n <= MaxPacket \/ Room + n = MaxPacket + 1
  <2> DEFINE k == Len(text.topic)
  <2>1. k \in Nat /\ n = k + 5 /\ Room + 4 + k <= MaxPacket
    BY <1>1, <1>4, <1>71
  <2> HIDE DEF k
  <2> QED BY <2>1, MaxFacts, SMT DEF Room
<1>73. Room + n <= MaxPacket => 0 .. MaxPacket - 1 \cup at .. at + Len(s) - 1 = 0 .. MaxPacket - 1
  <2> DEFINE e == Len(s)
  <2>1. at \in Nat /\ at + e = Room + n /\ e \in Nat
    BY <1>5, <1>6, SMT
  <2> HIDE DEF e
  <2>2. Room + n <= MaxPacket => 0 .. MaxPacket - 1 \cup at .. at + e - 1 = 0 .. MaxPacket - 1
    BY <1>6, <2>1, MaxFacts, SMT
  <2> QED BY <2>2 DEF e
<1>74. Intact' \/ reach' = MaxPacket + 1
  BY <1>3, <1>7, <1>72, <1>73 DEF Intact, n
<1>8. PublishedIsReceivable'
  BY <1>3 DEF PublishedIsReceivable
<1>9. reach' \in Nat /\ wrote' \in Seq(Bytes) /\ asked' \in Seq(Bytes)
  BY <1>3, <1>5, <1>6 DEF n, s
<1>10. result' \in BOOLEAN
  BY <1>3
<1>11. TypeOK'
  BY <1>3, <1>7, <1>9, <1>10 DEF IInv, TypeOK, Array, history
<1>12. CopyKept'
  BY <1>3 DEF IInv, CopyKept, history
<1> QED BY <1>3, <1>74, <1>8, <1>11, <1>12 DEF IInv, WrittenAsMeant

LEMMA InvStep == IInv /\ [Next]_vars => IInv'
<1> SUFFICES ASSUME IInv, [Next]_vars PROVE IInv'
  OBVIOUS
<1>1. CASE Intact /\ Loop
  BY <1>1, StepLoopRead, StepGiveUp, StepReturn DEF Loop
<1>2. CASE Intact /\ Application
  BY <1>2, StepPublish, StepPublishP, StepRepublish, StepSubscribe, StepReconnect
     DEF Application
<1>3. ASSUME NEW m \in Messages, BrokerSend(m) PROVE IInv'
  BY <1>3, StepBroker
<1>4. CASE PowerCycle
  BY <1>4, StepPowerCycle
<1>5. CASE UNCHANGED vars
  BY <1>5 DEF IInv, TypeOK, CopyKept, WrittenAsMeant, PublishedIsReceivable,
              vars, calls, history
<1> QED BY <1>1, <1>2, <1>3, <1>4, <1>5 DEF Next

LEMMA Inductive == Spec => []IInv
BY InvInit, InvStep, PTL DEF Spec

-----------------------------------------------------------------------------
\* Whatever comes in and whatever is built, every variable has its type: the cells
\* of the buffer, and those written past its end, are bytes, and a view of the
\* callback lies in the buffer.
THEOREM TypeCorrect == Spec => []TypeOK
<1>1. IInv => TypeOK
  BY DEF IInv
<1> QED BY <1>1, Inductive, PTL

\* Every packet written is the one the application meant, in the callback too:
\* the header and the length written in front of a body are right for every body
\* that fits, and a payload saved on entry is republished unchanged.
THEOREM PacketsAreMeant == Spec => []WrittenAsMeant
<1>1. IInv => WrittenAsMeant
  BY DEF IInv
<1> QED BY <1>1, Inductive, PTL

\* Whatever publish() accepts, a client with the same buffer can receive, at
\* either QoS, for every buffer size whose length fields need two digits at most.
THEOREM PublishedReceivable == Spec => []PublishedIsReceivable
<1>1. IInv => PublishedIsReceivable
  BY DEF IInv
<1> QED BY <1>1, Inductive, PTL

-----------------------------------------------------------------------------
(* What is selected from a sequence *)

LEMMA Least ==
  ASSUME NEW P \in SUBSET Nat, P # {}
  PROVE  \E k \in P : \A j \in Nat : j < k => j \notin P
<1>1. PICK k \in P : \A j \in P : ~ (<<j, k>> \in OpToRel(<, Nat))
  BY NatLessThanWellFounded, WFMin
<1>2. ASSUME NEW j \in Nat, j < k PROVE j \notin P
  <2>1. j \in P => <<j, k>> \in OpToRel(<, Nat)
    BY <1>2 DEF OpToRel
  <2> QED BY <1>1, <2>1
<1> QED BY <1>2

\* The first i elements of s that are in S.
UpTo(s, S) ==
  CHOOSE f : f = [i \in 0 .. Len(s) |->
                    IF i = 0 THEN <<>>
                    ELSE IF s[i] \in S THEN Append(f[i - 1], s[i]) ELSE f[i - 1]]

Selects(f, n, s, S) ==
  f = [i \in 0 .. n |-> IF i = 0 THEN <<>>
                        ELSE IF s[i] \in S THEN Append(f[i - 1], s[i]) ELSE f[i - 1]]

LEMMA SelectsExists ==
  ASSUME NEW s, NEW S, NEW n \in Nat
  PROVE  \E f : Selects(f, n, s, S)
<1> DEFINE Bad == {k \in Nat : ~ \E f : Selects(f, k, s, S)}
<1>1. SUFFICES ASSUME Bad # {} PROVE FALSE
  OBVIOUS
<1> HIDE DEF Bad
<1>2. Bad \in SUBSET Nat
  BY DEF Bad
<1>3. PICK k \in Bad : \A j \in Nat : j < k => j \notin Bad
  BY <1>1, <1>2, Least
<1>4. k \in Nat /\ ~ \E f : Selects(f, k, s, S)
  BY <1>3 DEF Bad
<1>5. CASE k = 0
  <2> DEFINE g == [i \in 0 .. 0 |-> <<>>]
  <2>1. g = [i \in 0 .. 0 |-> IF i = 0 THEN <<>>
                        ELSE IF s[i] \in S THEN Append(g[i - 1], s[i]) ELSE g[i - 1]]
    <3>1. \A i \in 0 .. 0 : i = 0
      BY SMT
    <3> QED BY <3>1, Zenon
  <2> HIDE DEF g
  <2> QED BY <1>4, <1>5, <2>1 DEF Selects
<1>6. CASE k > 0
  <2>1. k - 1 \in Nat /\ k - 1 < k
    BY <1>4, <1>6, SMT
  <2>2. PICK f : Selects(f, k - 1, s, S)
    BY <1>3, <2>1 DEF Bad
  <2> DEFINE Entry(h, i) == IF i = 0 THEN <<>>
                        ELSE IF s[i] \in S THEN Append(h[i - 1], s[i]) ELSE h[i - 1]
             g == [i \in 0 .. k |-> Entry(f, i)]
  <2>3. f = [i \in 0 .. k - 1 |-> Entry(f, i)]
    BY <2>2 DEF Selects
  <2> HIDE DEF Entry
  <2>4. \A i \in 0 .. k - 1 : f[i] = g[i]
    <3>1. \A i \in 0 .. k - 1 : f[i] = Entry(f, i)
      BY <2>3, Zenon
    <3>2. \A i \in 0 .. k - 1 : i \in 0 .. k
      BY <1>4, SMT
    <3> QED BY <3>1, <3>2
  <2>5. \A i \in 0 .. k : Entry(f, i) = Entry(g, i)
    <3> TAKE i \in 0 .. k
    <3>1. i # 0 => i - 1 \in 0 .. k - 1
      BY <1>4, SMT
    <3>2. i # 0 => f[i - 1] = g[i - 1]
      BY <2>4, <3>1
    <3> HIDE DEF g
    <3> QED BY <3>2, Zenon DEF Entry
  <2>6. g = [i \in 0 .. k |-> Entry(g, i)]
    BY <2>5, Zenon
  <2> HIDE DEF g
  <2> QED BY <1>4, <2>6 DEF Selects, Entry
<1> QED BY <1>4, <1>5, <1>6, SMT

LEMMA UpToSelects ==
  ASSUME NEW A, NEW s \in Seq(A), NEW S
  PROVE  Selects(UpTo(s, S), Len(s), s, S)
<1>1. \E f : Selects(f, Len(s), s, S)
  <2>1. Len(s) \in Nat
    OBVIOUS
  <2> QED BY <2>1, SelectsExists
<1> QED BY <1>1, Zenon DEF UpTo, Selects

LEMMA SelectedIsUpTo ==
  ASSUME NEW s, NEW S
  PROVE  Selected(s, S) = UpTo(s, S)[Len(s)]
BY Zenon DEF Selected, UpTo

LEMMA UpToFacts ==
  ASSUME NEW A, NEW s \in Seq(A), NEW S
  PROVE  /\ Len(s) \in Nat /\ UpTo(s, S)[0] = <<>>
         /\ \A i \in 1 .. Len(s) :
              /\ UpTo(s, S)[i] = IF s[i] \in S THEN Append(UpTo(s, S)[i - 1], s[i])
                                              ELSE UpTo(s, S)[i - 1]
              /\ i - 1 \in 0 .. Len(s)
<1> DEFINE f == UpTo(s, S)
<1>1. Len(s) \in Nat
  OBVIOUS
<1>2. Selects(f, Len(s), s, S)
  BY UpToSelects
<1> HIDE DEF f
<1>3. \A i \in 0 .. Len(s) :
        f[i] = IF i = 0 THEN <<>>
               ELSE IF s[i] \in S THEN Append(f[i - 1], s[i]) ELSE f[i - 1]
  BY <1>2, Zenon DEF Selects
<1>4. 0 \in 0 .. Len(s) /\ \A i \in 1 .. Len(s) : i \in 0 .. Len(s) /\ i # 0 /\ i - 1 \in 0 .. Len(s)
  BY <1>1, SMT
<1> QED BY <1>1, <1>3, <1>4, Zenon DEF f

\* Nothing selected is out of the sequence.
LEMMA UpToType ==
  ASSUME NEW A, NEW s \in Seq(A), NEW S, NEW n \in 0 .. Len(s)
  PROVE  UpTo(s, S)[n] \in Seq(A)
<1> DEFINE f == UpTo(s, S)
           Bad == {k \in Nat : k \in 0 .. Len(s) /\ f[k] \notin Seq(A)}
<1>1. /\ Len(s) \in Nat /\ f[0] = <<>>
      /\ \A i \in 1 .. Len(s) :
           f[i] = IF s[i] \in S THEN Append(f[i - 1], s[i]) ELSE f[i - 1]
  BY UpToFacts
<1> HIDE DEF f
<1>2. Bad = {}
  <2> SUFFICES ASSUME Bad # {} PROVE FALSE
    OBVIOUS
  <2>0. Bad \in SUBSET Nat
    BY SMT
  <2>1. PICK k \in Bad : \A j \in Nat : j < k => j \notin Bad
    <3> HIDE DEF Bad
    <3> QED BY <2>0, Least
  <2>2. k \in 0 .. Len(s) /\ f[k] \notin Seq(A)
    BY <2>1
  <2>3. k # 0
    BY <1>1, <2>2, EmptySeq
  <2>4. k \in 1 .. Len(s) /\ k - 1 \in Nat /\ k - 1 < k /\ k - 1 \in 0 .. Len(s)
    BY <1>1, <2>2, <2>3, SMT
  <2>5. f[k - 1] \in Seq(A)
    BY <2>1, <2>4
  <2>6. s[k] \in A
    BY <2>4
  <2> DEFINE b == f[k - 1]
             x == s[k]
  <2>7. Append(b, x) \in Seq(A)
    <3>1. b \in Seq(A) /\ x \in A
      BY <2>5, <2>6
    <3> HIDE DEF b, x
    <3> QED BY <3>1
  <2> QED BY <1>1, <2>2, <2>4, <2>5, <2>7
<1>3. n \in Nat
  BY <1>1, SMT
<1> QED BY <1>2, <1>3 DEF f

LEMMA SelectedType ==
  ASSUME NEW A, NEW s \in Seq(A), NEW S
  PROVE  Selected(s, S) \in Seq(A)
<1>1. Len(s) \in 0 .. Len(s)
  BY UpToFacts, SMT
<1> QED BY <1>1, UpToType, SelectedIsUpTo

\* One more element is selected or it is not, and nothing else changes.
LEMMA SelectedAppend ==
  ASSUME NEW A, NEW s \in Seq(A), NEW x \in A, NEW S
  PROVE  Selected(Append(s, x), S) =
           IF x \in S THEN Append(Selected(s, S), x) ELSE Selected(s, S)
<1> DEFINE t == Append(s, x)
           f == UpTo(s, S)
           g == UpTo(t, S)
           Bad == {k \in Nat : k \in 0 .. Len(s) /\ f[k] # g[k]}
<1>1. t \in Seq(A) /\ Len(t) = Len(s) + 1 /\ Len(s) \in Nat /\ t[Len(s) + 1] = x
      /\ \A i \in 1 .. Len(s) : t[i] = s[i]
  BY AppendProperties, SMT
<1> HIDE DEF t
<1>2. /\ f[0] = <<>>
      /\ \A i \in 1 .. Len(s) : f[i] = IF s[i] \in S THEN Append(f[i - 1], s[i]) ELSE f[i - 1]
  BY UpToFacts
<1>3. /\ g[0] = <<>>
      /\ \A i \in 1 .. Len(t) : g[i] = IF t[i] \in S THEN Append(g[i - 1], t[i]) ELSE g[i - 1]
  BY <1>1, UpToFacts
<1> HIDE DEF f, g
<1>4. Bad = {}
  <2> SUFFICES ASSUME Bad # {} PROVE FALSE
    OBVIOUS
  <2>0. Bad \in SUBSET Nat
    BY SMT
  <2>1. PICK k \in Bad : \A j \in Nat : j < k => j \notin Bad
    <3> HIDE DEF Bad
    <3> QED BY <2>0, Least
  <2>2. k \in 0 .. Len(s) /\ f[k] # g[k]
    BY <2>1
  <2>3. k # 0
    BY <1>2, <1>3, <2>2
  <2>4. /\ k \in 1 .. Len(s) /\ k \in 1 .. Len(t)
        /\ k - 1 \in Nat /\ k - 1 < k /\ k - 1 \in 0 .. Len(s)
    BY <1>1, <2>2, <2>3, SMT
  <2>5. f[k - 1] = g[k - 1]
    BY <2>1, <2>4
  <2> QED BY <1>1, <1>2, <1>3, <2>2, <2>4, <2>5, Zenon
<1>5. f[Len(s)] = g[Len(s)]
  <2>1. Len(s) \in 0 .. Len(s)
    BY <1>1, SMT
  <2> QED BY <1>1, <1>4, <2>1
<1>6. Len(s) + 1 \in 1 .. Len(t) /\ (Len(s) + 1) - 1 = Len(s)
  BY <1>1, SMT
<1>7. g[Len(t)] = IF x \in S THEN Append(f[Len(s)], x) ELSE f[Len(s)]
  BY <1>1, <1>3, <1>5, <1>6, Zenon
<1> QED BY <1>7, SelectedIsUpTo DEF f, g, t

LEMMA SelectedEmpty == ASSUME NEW S PROVE Selected(<<>>, S) = <<>>
<1>1. <<>> \in Seq(Int) /\ Len(<<>>) = 0
  BY EmptySeq, Zenon
<1>2. UpTo(<<>>, S)[0] = <<>>
  <2> DEFINE e == <<>>
  <2>1. e \in Seq(Int)
    BY <1>1
  <2> HIDE DEF e
  <2>2. UpTo(e, S)[0] = <<>>
    BY <2>1, UpToFacts
  <2> QED BY <2>2 DEF e
<1> QED BY <1>1, <1>2, SelectedIsUpTo

-----------------------------------------------------------------------------
(* Acknowledgements *)

LEMMA Qos1Append ==
  ASSUME NEW s \in Seq(Given), NEW g \in Given
  PROVE  /\ Qos1Ids(s) \in Seq(Bytes)
         /\ Qos1Ids(Append(s, g)) = IF g.qos = 1 THEN Append(Qos1Ids(s), g.id) ELSE Qos1Ids(s)
<1> DEFINE Q == {m \in Given : m.qos = 1}
           Ids(t) == [i \in 1 .. Len(t) |-> t[i].id]
           c == Selected(s, Q)
<1>1. \A t : Qos1Ids(t) = Ids(Selected(t, Q))
  BY DEF Qos1Ids
<1>2. g \in Q <=> g.qos = 1
  OBVIOUS
<1>3. c \in Seq(Given)
  BY SelectedType
<1>4. Selected(Append(s, g), Q) = IF g \in Q THEN Append(c, g) ELSE c
  BY SelectedAppend
<1> HIDE DEF Q, c
<1>5. Ids(c) \in Seq(Bytes)
  <2>1. \A i \in 1 .. Len(c) : c[i].id \in Bytes
    <3>1. \A m \in Given : m.id \in Bytes
      BY DEF Given
    <3>2. \A i \in 1 .. Len(c) : c[i] \in Given
      BY <1>3, ElementOfSeq
    <3> QED BY <3>1, <3>2
  <2> QED BY <1>3, <2>1, SMT
<1>6. Ids(Append(c, g)) = Append(Ids(c), g.id)
  <2> DEFINE a == Append(c, g)
             b == Append(Ids(c), g.id)
  <2>1. g.id \in Bytes
    BY DEF Given
  <2>2. /\ a \in Seq(Given) /\ Len(a) = Len(c) + 1 /\ a[Len(c) + 1] = g /\ Len(c) \in Nat
        /\ \A i \in 1 .. Len(c) : a[i] = c[i]
    BY <1>3, AppendProperties, SMT
  <2>3. Len(Ids(c)) = Len(c)
    BY <1>3, SMT
  <2> HIDE DEF a
  <2> DEFINE e == Ids(c)
  <2>4. \A i \in 1 .. Len(c) : e[i] = c[i].id
    OBVIOUS
  <2>5. e \in Seq(Bytes) /\ Len(e) = Len(c)
    BY <1>5, <2>3
  <2> HIDE DEF e
  <2>6. /\ Append(e, g.id) \in Seq(Bytes) /\ Len(Append(e, g.id)) = Len(c) + 1
        /\ Append(e, g.id)[Len(c) + 1] = g.id
        /\ \A i \in 1 .. Len(c) : Append(e, g.id)[i] = c[i].id
    BY <2>1, <2>2, <2>4, <2>5, AppendProperties, SMT
  <2>7. Append(e, g.id) = [i \in 1 .. Len(c) + 1 |-> a[i].id]
    <3>1. \A i \in 1 .. Len(c) + 1 : Append(e, g.id)[i] = a[i].id
      <4> TAKE i \in 1 .. Len(c) + 1
      <4>1. i \in 1 .. Len(c) \/ i = Len(c) + 1
        BY <2>2, SMT
      <4> QED BY <2>2, <2>6, <4>1, Zenon
    <3>2. Append(e, g.id) = [i \in 1 .. Len(c) + 1 |-> Append(e, g.id)[i]]
      BY <2>6, SMT
    <3> QED BY <3>1, <3>2, Zenon
  <2> QED BY <2>2, <2>7 DEF a, e
<1> HIDE DEF Ids
<1> QED BY <1>1, <1>2, <1>4, <1>5, <1>6 DEF c

LEMMA NothingToAck == Qos1Ids(<<>>) = <<>> /\ <<>> \o <<>> = <<>>
<1>1. Qos1Ids(<<>>) = [i \in 1 .. Len(<<>>) |-> <<>>[i].id]
  <2> DEFINE Q == {m \in Given : m.qos = 1}
  <2>1. Selected(<<>>, Q) = <<>>
    BY SelectedEmpty
  <2>2. Qos1Ids(<<>>) = [i \in 1 .. Len(Selected(<<>>, Q)) |-> Selected(<<>>, Q)[i].id]
    BY DEF Qos1Ids
  <2> HIDE DEF Q
  <2> QED BY <2>1, <2>2, Zenon
<1>2. Len(<<>>) = 0 /\ 1 .. 0 = {}
  BY SMT
<1>3. Qos1Ids(<<>>) \in Seq(Bytes) /\ Len(Qos1Ids(<<>>)) = 0
  BY <1>1, <1>2, SMT
<1>4. <<>> \o <<>> = <<>>
  BY SMT
<1> QED BY <1>3, <1>4, EmptySeq, SMT

LEMMA AcksStart == Init => AcksMatch
<1> SUFFICES ASSUME Init PROVE AcksMatch
  OBVIOUS
<1>1. given = <<>> /\ acked = <<>> /\ Pending = <<>>
  BY DEF Init, Pending
<1> QED BY <1>1, NothingToAck DEF AcksMatch

\* The message the callback runs for is the last one given; it is acknowledged
\* when the callback returns, and not before.
LEMMA AcksStep == TypeOK /\ TypeOK' /\ AcksMatch /\ [Next]_vars => AcksMatch'
<1> SUFFICES ASSUME TypeOK, TypeOK', AcksMatch, [Next]_vars PROVE AcksMatch'
  OBVIOUS
<1>1. CASE UNCHANGED <<pc, view, given, acked>>
  <2>1. Pending' = Pending
    BY <1>1 DEF Pending
  <2> QED BY <1>1, <2>1 DEF AcksMatch, Qos1Ids
<1>2. CASE LoopRead
  <2>0. UNCHANGED <<pc, view, copy, given>> \/ (pc' = "callback"
          /\ given' = Append(given, [topic |-> view'.topic, qos |-> view'.qos,
                                     id |-> view'.id, payload |-> copy']))
    BY <1>2 DEF LoopRead
  <2>1. acked' = acked
    BY <1>2 DEF LoopRead
  <2>2. CASE UNCHANGED <<pc, view, copy, given>>
    BY <1>1, <2>1, <2>2
  <2> DEFINE g == [topic |-> view'.topic, qos |-> view'.qos, id |-> view'.id, payload |-> copy']
  <2>3. CASE pc' = "callback" /\ given' = Append(given, g)
    <3>1. g \in Given /\ g.qos = view'.qos /\ g.id = view'.id
      BY DEF TypeOK, Views, Given
    <3> HIDE DEF g
    <3>2. given \in Seq(Given) /\ acked \in Seq(Bytes) /\ view'.id \in Bytes
      BY DEF TypeOK, Views
    <3>3. /\ Qos1Ids(given) \in Seq(Bytes)
          /\ Qos1Ids(given') = IF g.qos = 1 THEN Append(Qos1Ids(given), g.id) ELSE Qos1Ids(given)
      BY <2>3, <3>1, <3>2, Qos1Append
    <3>4. acked = Qos1Ids(given)
      <4>1. Pending = <<>>
        BY <1>2 DEF LoopRead, Pending
      <4> QED BY <3>2, <4>1, SMT DEF AcksMatch
    <3>5. CASE view'.qos = 1
      <4>1. Pending' = <<view'.id>>
        BY <2>3, <3>5 DEF Pending
      <4>2. acked \o <<view'.id>> = Append(acked, view'.id)
        BY <3>2, SMT
      <4> QED BY <2>1, <3>1, <3>3, <3>4, <3>5, <4>1, <4>2 DEF AcksMatch
    <3>6. CASE view'.qos # 1
      <4>1. Pending' = <<>>
        BY <3>6 DEF Pending
      <4>2. acked \o <<>> = acked
        BY <3>2, SMT
      <4> QED BY <2>1, <3>1, <3>3, <3>4, <3>6, <4>1, <4>2 DEF AcksMatch
    <3> QED BY <3>5, <3>6
  <2> QED BY <2>0, <2>2, <2>3
<1>3. CASE CallbackReturn
  <2>1. pc = "callback" /\ pc' = "idle" /\ given' = given /\ Pending' = <<>>
        /\ IF view.qos = 1 THEN acked' = Append(acked, view.id) ELSE acked' = acked
    BY <1>3 DEF CallbackReturn, AckId, Pending
  <2>2. acked \in Seq(Bytes) /\ view.id \in Bytes /\ acked' \in Seq(Bytes)
    BY DEF TypeOK, Views
  <2>3. acked' \o <<>> = acked'
    BY <2>2, SMT
  <2>4. acked' = acked \o Pending
    <3>1. acked \o <<view.id>> = Append(acked, view.id) /\ acked \o <<>> = acked
      BY <2>2, SMT
    <3> QED BY <2>1, <3>1 DEF Pending
  <2>5. Qos1Ids(given') = Qos1Ids(given)
    BY <2>1
  <2> QED BY <2>1, <2>3, <2>4, <2>5 DEF AcksMatch
<1>4. CASE Reconnect \/ PowerCycle
  <2>1. given' = <<>> /\ acked' = <<>> /\ Pending' = <<>>
    BY <1>4 DEF Reconnect, PowerCycle, Pending
  <2> QED BY <2>1, NothingToAck DEF AcksMatch
<1>5. ASSUME NEW m \in Messages, BrokerSend(m) PROVE AcksMatch'
  BY <1>1, <1>5 DEF BrokerSend
<1>6. ASSUME NEW k, LoopGiveUp(k) PROVE AcksMatch'
  BY <1>1, <1>6 DEF LoopGiveUp
<1>7. ASSUME NEW text \in Texts,
             Publish(text) \/ PublishP(text) \/ Republish(text.topic) \/ Subscribe(text.topic)
      PROVE  AcksMatch'
  BY <1>1, <1>7 DEF Publish, PublishP, Republish, Subscribe, history
<1>8. CASE UNCHANGED vars
  BY <1>1, <1>8 DEF vars, history
<1> QED BY <1>2, <1>3, <1>4, <1>5, <1>6, <1>7, <1>8 DEF Next, Loop, Application

\* Each QoS 1 message the callback has returned from is acknowledged once, in
\* order and by its own identifier, whatever the callback has built in the buffer
\* the identifier was read into, and wherever a read gave up.
THEOREM AcksAreMatched == Spec => []AcksMatch
<1>1. IInv => TypeOK
  BY DEF IInv
<1> QED BY <1>1, Inductive, AcksStart, AcksStep, PTL DEF Spec

-----------------------------------------------------------------------------
(* What is joined to a stream *)

\* f joins the first elements of seqs, up to n of them.
Joins(f, n, seqs) ==
  f = [i \in 1 .. n |-> IF i = 1 THEN seqs[i] ELSE f[i - 1] \o seqs[i]]

LEMMA JoinsExists ==
  ASSUME NEW seqs, NEW n \in Nat
  PROVE  \E f : Joins(f, n, seqs)
<1> DEFINE Bad == {k \in Nat : ~ \E f : Joins(f, k, seqs)}
<1>1. SUFFICES ASSUME Bad # {} PROVE FALSE
  OBVIOUS
<1> HIDE DEF Bad
<1>2. Bad \in SUBSET Nat
  BY DEF Bad
<1>3. PICK k \in Bad : \A j \in Nat : j < k => j \notin Bad
  BY <1>1, <1>2, Least
<1>4. k \in Nat /\ ~ \E f : Joins(f, k, seqs)
  BY <1>3 DEF Bad
<1> DEFINE Entry(h, i) == IF i = 1 THEN seqs[i] ELSE h[i - 1] \o seqs[i]
<1>5. \A f : f = [i \in 1 .. k |-> Entry(f, i)] => FALSE
  BY <1>4 DEF Joins
<1> HIDE DEF Entry
<1>6. CASE k = 0
  <2> DEFINE g == [i \in 1 .. k |-> <<>>]
  <2>1. 1 .. k = {}
    BY <1>6, SMT
  <2>2. \A i \in 1 .. k : Entry(g, i) = <<>>
    BY <2>1
  <2>3. g = [i \in 1 .. k |-> Entry(g, i)]
    BY <2>2, Zenon
  <2> HIDE DEF g
  <2> QED BY <1>5, <2>3
<1>7. CASE k > 0
  <2>1. k - 1 \in Nat /\ k - 1 < k
    BY <1>4, <1>7, SMT
  <2>2. PICK f : Joins(f, k - 1, seqs)
    BY <1>3, <2>1 DEF Bad
  <2> DEFINE g == [i \in 1 .. k |-> Entry(f, i)]
  <2>3. f = [i \in 1 .. k - 1 |-> Entry(f, i)]
    BY <2>2 DEF Joins, Entry
  <2>4. \A i \in 1 .. k - 1 : f[i] = g[i]
    <3>1. \A i \in 1 .. k - 1 : f[i] = Entry(f, i)
      BY <2>3, Zenon
    <3>2. \A i \in 1 .. k - 1 : i \in 1 .. k
      BY <1>4, SMT
    <3> QED BY <3>1, <3>2
  <2>5. \A i \in 1 .. k : Entry(f, i) = Entry(g, i)
    <3> TAKE i \in 1 .. k
    <3>1. i # 1 => i - 1 \in 1 .. k - 1
      BY <1>4, SMT
    <3>2. i # 1 => f[i - 1] = g[i - 1]
      BY <2>4, <3>1
    <3> HIDE DEF g
    <3> QED BY <3>2, Zenon DEF Entry
  <2>6. g = [i \in 1 .. k |-> Entry(g, i)]
    BY <2>5, Zenon
  <2> HIDE DEF g
  <2> QED BY <1>5, <2>6
<1> QED BY <1>4, <1>6, <1>7, SMT

Joined(seqs) ==
  CHOOSE f : f = [i \in 1 .. Len(seqs) |->
                    IF i = 1 THEN seqs[i] ELSE f[i - 1] \o seqs[i]]

LEMMA FlattenIsJoined ==
  ASSUME NEW seqs
  PROVE  FlattenSeq(seqs) = IF Len(seqs) = 0 THEN seqs ELSE Joined(seqs)[Len(seqs)]
BY Zenon DEF FlattenSeq, Joined

LEMMA JoinedFacts ==
  ASSUME NEW seqs \in Seq(Seq(Bytes))
  PROVE  /\ Len(seqs) \in Nat
         /\ Len(seqs) > 0 => Joined(seqs)[1] = seqs[1]
         /\ \A i \in 2 .. Len(seqs) : Joined(seqs)[i] = Joined(seqs)[i - 1] \o seqs[i]
         /\ \A i \in 1 .. Len(seqs) : seqs[i] \in Seq(Bytes)
<1> DEFINE f == Joined(seqs)
<1>1. Len(seqs) \in Nat /\ \A i \in 1 .. Len(seqs) : seqs[i] \in Seq(Bytes)
  OBVIOUS
<1>2. Joins(f, Len(seqs), seqs)
  <2>1. \E g : Joins(g, Len(seqs), seqs)
    BY <1>1, JoinsExists
  <2> QED BY <2>1, Zenon DEF Joined, Joins
<1> HIDE DEF f
<1>3. \A i \in 1 .. Len(seqs) : f[i] = IF i = 1 THEN seqs[i] ELSE f[i - 1] \o seqs[i]
  BY <1>2, Zenon DEF Joins
<1>4. /\ Len(seqs) > 0 => 1 \in 1 .. Len(seqs)
      /\ \A i \in 2 .. Len(seqs) : i \in 1 .. Len(seqs) /\ i # 1
  BY <1>1, SMT
<1> QED BY <1>1, <1>3, <1>4, Zenon DEF f

LEMMA JoinedType ==
  ASSUME NEW seqs \in Seq(Seq(Bytes)), NEW n \in 1 .. Len(seqs)
  PROVE  Joined(seqs)[n] \in Seq(Bytes)
<1> DEFINE f == Joined(seqs)
           Bad == {k \in Nat : k \in 1 .. Len(seqs) /\ f[k] \notin Seq(Bytes)}
<1>1. /\ Len(seqs) \in Nat
      /\ Len(seqs) > 0 => f[1] = seqs[1]
      /\ \A i \in 2 .. Len(seqs) : f[i] = f[i - 1] \o seqs[i]
      /\ \A i \in 1 .. Len(seqs) : seqs[i] \in Seq(Bytes)
  BY JoinedFacts
<1> HIDE DEF f
<1>2. Bad = {}
  <2> SUFFICES ASSUME Bad # {} PROVE FALSE
    OBVIOUS
  <2>1. Bad \in SUBSET Nat
    BY SMT
  <2>2. PICK k \in Bad : \A j \in Nat : j < k => j \notin Bad
    <3> HIDE DEF Bad
    <3> QED BY <2>1, Least
  <2>3. k \in 1 .. Len(seqs) /\ f[k] \notin Seq(Bytes)
    BY <2>2
  <2>4. k # 1
    <3>1. 1 \in 1 .. Len(seqs) /\ Len(seqs) > 0
      BY <1>1, <2>3, SMT
    <3> QED BY <1>1, <2>3, <3>1
  <2>5. /\ k \in 2 .. Len(seqs) /\ k - 1 \in Nat /\ k - 1 < k /\ k - 1 \in 1 .. Len(seqs)
    BY <1>1, <2>3, <2>4, SMT
  <2>6. f[k - 1] \in Seq(Bytes) /\ seqs[k] \in Seq(Bytes)
    BY <1>1, <2>2, <2>3, <2>5
  <2>7. f[k] \in Seq(Bytes)
    <3>1. f[k] = f[k - 1] \o seqs[k]
      BY <1>1, <2>5
    <3> QED BY <2>6, <3>1, ConcatType
  <2> QED BY <2>3, <2>7
<1>3. n \in Nat
  BY <1>1, SMT
<1> QED BY <1>2, <1>3 DEF f

LEMMA FlattenType ==
  ASSUME NEW seqs \in Seq(Seq(Bytes))
  PROVE  FlattenSeq(seqs) \in Seq(Bytes)
<1>1. CASE Len(seqs) = 0
  <2>1. seqs = <<>>
    BY <1>1, EmptySeq, SMT
  <2> QED BY <1>1, <2>1, FlattenIsJoined, EmptySeq, Zenon
<1>2. CASE Len(seqs) # 0
  <2>1. Len(seqs) \in 1 .. Len(seqs)
    BY <1>2, SMT
  <2>2. Joined(seqs)[Len(seqs)] \in Seq(Bytes)
    BY <2>1, JoinedType
  <2> QED BY <1>2, <2>2, FlattenIsJoined
<1> QED BY <1>1, <1>2

\* What is sent next comes after what is under way.
LEMMA FlattenAppend ==
  ASSUME NEW seqs \in Seq(Seq(Bytes)), NEW x \in Seq(Bytes)
  PROVE  FlattenSeq(Append(seqs, x)) = FlattenSeq(seqs) \o x
<1> DEFINE t == Append(seqs, x)
           f == Joined(seqs)
           g == Joined(t)
           n == Len(seqs)
<1>1. /\ t \in Seq(Seq(Bytes)) /\ Len(t) = n + 1 /\ t[n + 1] = x /\ n \in Nat
      /\ \A i \in 1 .. n : t[i] = seqs[i]
  BY AppendProperties, SMT
<1> HIDE DEF t
<1>2. /\ n > 0 => f[1] = seqs[1]
      /\ \A i \in 2 .. n : f[i] = f[i - 1] \o seqs[i]
  BY JoinedFacts
<1>3. /\ g[1] = t[1]
      /\ \A i \in 2 .. n + 1 : g[i] = g[i - 1] \o t[i]
  <2>1. Len(t) > 0
    BY <1>1, SMT
  <2> QED BY <1>1, <2>1, JoinedFacts
<1>4. FlattenSeq(seqs) = (IF n = 0 THEN seqs ELSE f[n]) /\ FlattenSeq(t) = g[n + 1]
  <2>1. Len(t) # 0
    BY <1>1, SMT
  <2> QED BY <1>1, <2>1, FlattenIsJoined
<1>5. CASE n = 0
  <2>1. seqs = <<>>
    BY <1>5, EmptySeq, SMT
  <2>2. <<>> \o x = x
    BY ConcatEmptySeq
  <2>3. g[1] = x
    BY <1>1, <1>3, <1>5, SMT
  <2>4. n + 1 = 1
    BY <1>5
  <2> QED BY <1>4, <1>5, <2>1, <2>2, <2>3, <2>4 DEF t
<1>6. CASE n # 0
  <2> DEFINE Bad == {k \in Nat : k \in 1 .. n /\ f[k] # g[k]}
  <2> HIDE DEF f, g, n
  <2>1. Bad = {}
    <3> SUFFICES ASSUME Bad # {} PROVE FALSE
      OBVIOUS
    <3>1. Bad \in SUBSET Nat
      BY SMT
    <3>2. PICK k \in Bad : \A j \in Nat : j < k => j \notin Bad
      <4> HIDE DEF Bad
      <4> QED BY <3>1, Least
    <3>3. k \in 1 .. n /\ f[k] # g[k]
      BY <3>2
    <3>4. k # 1
      <4>1. n > 0 /\ 1 \in 1 .. n
        BY <1>1, <1>6, SMT
      <4> QED BY <1>1, <1>2, <1>3, <3>3, <4>1
    <3>5. /\ k \in 2 .. n /\ k \in 2 .. n + 1
          /\ k - 1 \in Nat /\ k - 1 < k /\ k - 1 \in 1 .. n
      BY <1>1, <3>3, <3>4, SMT
    <3>6. f[k - 1] = g[k - 1]
      BY <3>2, <3>5
    <3> QED BY <1>1, <1>2, <1>3, <3>3, <3>5, <3>6, Zenon
  <2>2. n \in 1 .. n /\ n + 1 \in 2 .. n + 1 /\ n \in Nat /\ (n + 1) - 1 = n
    BY <1>1, <1>6, SMT
  <2>3. f[n] = g[n]
    BY <2>1, <2>2
  <2>4. g[n + 1] = g[n] \o x
    BY <1>1, <1>3, <2>2, Zenon
  <2> QED BY <1>4, <1>6, <2>3, <2>4 DEF t
<1> QED BY <1>5, <1>6

LEMMA Concat3 ==
  ASSUME NEW a \in Seq(Bytes), NEW b \in Seq(Bytes), NEW c \in Seq(Bytes)
  PROVE  (a \o b) \o c = a \o (b \o c)
BY SMT

\* What is under way begins with its first packet.
LEMMA FlattenFirst ==
  ASSUME NEW seqs \in Seq(Seq(Bytes)), seqs # <<>>
  PROVE  FlattenSeq(seqs) = seqs[1] \o FlattenSeq(Tail(seqs))
<1> DEFINE t == Tail(seqs)
           f == Joined(seqs)
           g == Joined(t)
           n == Len(t)
<1>1. /\ t \in Seq(Seq(Bytes)) /\ n \in Nat /\ Len(seqs) = n + 1
      /\ \A i \in 1 .. n : t[i] = seqs[i + 1]
  <2>1. t \in Seq(Seq(Bytes)) /\ Len(t) = Len(seqs) - 1 /\ \A i \in 1 .. Len(t) : t[i] = seqs[i + 1]
    BY HeadTailProperties
  <2> HIDE DEF t
  <2>2. Len(seqs) \in Nat /\ Len(t) \in Nat
    BY <2>1
  <2> QED BY <2>1, <2>2, SMT
<1> HIDE DEF t
<1>2. /\ f[1] = seqs[1]
      /\ \A i \in 2 .. n + 1 : f[i] = f[i - 1] \o seqs[i]
      /\ \A i \in 1 .. n + 1 : seqs[i] \in Seq(Bytes)
  <2>1. Len(seqs) > 0
    BY <1>1, SMT
  <2> QED BY <1>1, <2>1, JoinedFacts
<1>3. /\ n > 0 => g[1] = t[1]
      /\ \A i \in 2 .. n : g[i] = g[i - 1] \o t[i]
      /\ \A i \in 1 .. n : g[i] \in Seq(Bytes)
  BY <1>1, JoinedFacts, JoinedType
<1>4. FlattenSeq(seqs) = f[n + 1] /\ FlattenSeq(t) = IF n = 0 THEN t ELSE g[n]
  <2>1. Len(seqs) # 0
    BY <1>1, SMT
  <2> QED BY <1>1, <2>1, FlattenIsJoined
<1>5. 1 \in 1 .. n + 1 /\ seqs[1] \in Seq(Bytes)
  <2>1. 1 \in 1 .. n + 1
    BY <1>1, SMT
  <2> QED BY <1>2, <2>1
<1>6. CASE n = 0
  <2>1. t = <<>>
    BY <1>1, <1>6, EmptySeq, SMT
  <2>2. seqs[1] \o <<>> = seqs[1]
    BY <1>5, ConcatEmptySeq
  <2>3. n + 1 = 1
    BY <1>6
  <2> QED BY <1>2, <1>4, <1>6, <2>1, <2>2, <2>3 DEF t
<1>7. CASE n # 0
  <2> DEFINE Bad == {k \in Nat : k \in 1 .. n /\ f[k + 1] # seqs[1] \o g[k]}
  <2> HIDE DEF f, g, n
  <2>1. Bad = {}
    <3> SUFFICES ASSUME Bad # {} PROVE FALSE
      OBVIOUS
    <3>1. Bad \in SUBSET Nat
      BY Zenon
    <3>2. PICK k \in Bad : \A j \in Nat : j < k => j \notin Bad
      <4> HIDE DEF Bad
      <4> QED BY <3>1, Least
    <3>3. k \in 1 .. n /\ f[k + 1] # seqs[1] \o g[k]
      BY <3>2
    <3>4. k + 1 \in 2 .. n + 1 /\ (k + 1) - 1 = k /\ k \in 1 .. n + 1
      BY <1>1, <3>3, SMT
    <3>5. f[k + 1] = f[k] \o seqs[k + 1] /\ seqs[k + 1] = t[k] /\ t[k] \in Seq(Bytes)
      <4>1. k + 1 \in 1 .. n + 1
        BY <1>1, <3>3, SMT
      <4> QED BY <1>1, <1>2, <3>3, <3>4, <4>1
    <3>6. k # 1
      <4>1. n > 0 /\ 1 \in 1 .. n
        BY <1>1, <1>7, SMT
      <4> QED BY <1>2, <1>3, <3>3, <3>5, <4>1
    <3>7. /\ k \in 2 .. n /\ k - 1 \in Nat /\ k - 1 < k /\ k - 1 \in 1 .. n /\ (k - 1) + 1 = k
      BY <1>1, <3>3, <3>6, SMT
    <3>8. f[k] = seqs[1] \o g[k - 1]
      BY <3>2, <3>7
    <3>9. g[k] = g[k - 1] \o t[k] /\ g[k - 1] \in Seq(Bytes)
      BY <1>3, <3>7
    <3>10. (seqs[1] \o g[k - 1]) \o t[k] = seqs[1] \o (g[k - 1] \o t[k])
      <4> DEFINE a == seqs[1]
                 b == g[k - 1]
                 c == t[k]
      <4>1. a \in Seq(Bytes) /\ b \in Seq(Bytes) /\ c \in Seq(Bytes)
        BY <1>5, <3>5, <3>9, Zenon
      <4> HIDE DEF a, b, c
      <4>2. (a \o b) \o c = a \o (b \o c)
        BY <4>1, Concat3
      <4> QED BY <4>2 DEF a, b, c
    <3> QED BY <3>3, <3>5, <3>8, <3>9, <3>10
  <2>2. n \in 1 .. n /\ n \in Nat
    BY <1>1, <1>7, SMT
  <2>3. f[n + 1] = seqs[1] \o g[n]
    BY <2>1, <2>2
  <2> QED BY <1>4, <1>7, <2>3 DEF t
<1> QED BY <1>6, <1>7

-----------------------------------------------------------------------------
(* The digits of a length *)

LEMMA DivMod ==
  ASSUME NEW a \in Nat, NEW d \in Nat, d > 0
  PROVE  /\ a \div d \in Nat /\ a % d \in 0 .. d - 1
         /\ a = d * (a \div d) + (a % d)
<1>1. a = d * (a \div d) + (a % d)
  BY SMT
<1> QED BY <1>1, DivModFacts

LEMMA Quotient ==
  ASSUME NEW a \in Nat, NEW m \in Nat, m > 0, NEW q \in Nat, NEW s \in 0 .. m - 1,
         a = m * q + s
  PROVE  a \div m = q /\ a % m = s
<1> DEFINE p == a \div m
           r == a % m
<1>1. p \in Nat /\ r \in 0 .. m - 1 /\ a = m * p + r
  BY DivMod
<1> HIDE DEF p, r
<1>2. \A x, y \in Nat : x < y => m * x + m <= m * y /\ m * x \in Nat /\ m * y \in Nat
  <2> TAKE x, y \in Nat
  <2>1. m * (x + 1) = m * x + m
    BY SMT
  <2>2. x + 1 <= y => m * (x + 1) <= m * y
    BY SMT
  <2> QED BY <2>1, <2>2, SMT
<1>3. m * p \in Nat /\ m * q \in Nat
  BY <1>1, SMT
<1>4. ~ (p < q)
  <2> SUFFICES ASSUME p < q PROVE FALSE
    OBVIOUS
  <2>1. m * p + m <= m * q
    BY <1>1, <1>2
  <2> DEFINE u == m * p
             v == m * q
  <2>2. u \in Nat /\ v \in Nat /\ u + m <= v /\ a = u + r /\ a = v + s
    BY <1>1, <1>3, <2>1
  <2> HIDE DEF u, v
  <2> QED BY <1>1, <2>2, SMT
<1>5. ~ (q < p)
  <2> SUFFICES ASSUME q < p PROVE FALSE
    OBVIOUS
  <2>1. m * q + m <= m * p
    BY <1>1, <1>2
  <2> DEFINE u == m * p
             v == m * q
  <2>2. u \in Nat /\ v \in Nat /\ v + m <= u /\ a = u + r /\ a = v + s
    BY <1>1, <1>3, <2>1
  <2> HIDE DEF u, v
  <2> QED BY <1>1, <2>2, SMT
<1>6. p = q
  BY <1>1, <1>4, <1>5, SMT
<1>7. r = s
  <2> DEFINE u == m * q
  <2>1. u \in Nat /\ a = u + r /\ a = u + s
    BY <1>1, <1>3, <1>6
  <2> HIDE DEF u
  <2> QED BY <1>1, <2>1, SMT
<1> QED BY <1>6, <1>7 DEF p, r

\* The digits of a length of 16 bits, in base Radix.
LEMMA Digits3 ==
  ASSUME NEW n \in Nat, n < 4 * Radix * Radix
  PROVE  \E q1, q2 \in Nat, r0, r1 \in 0 .. Radix - 1 :
           /\ n = Radix * q1 + r0 /\ q1 = Radix * q2 + r1 /\ q2 < Radix
           /\ n \div 1 = n /\ n % Radix = r0
           /\ n \div Radix = q1 /\ q1 % Radix = r1
           /\ n \div (Radix * Radix) = q2 /\ q2 % Radix = q2
           /\ r0 + r1 * Radix + q2 * (Radix * Radix) = n
<1> DEFINE R == Radix
<1>1. R \in Nat /\ R >= 4 /\ R > 0 /\ R * R \in Nat /\ R * R > 0
  BY RadixFacts, SMT
<1> HIDE DEF R
<1>2. PICK q1 \in Nat, r0 \in 0 .. R - 1 : n = R * q1 + r0 /\ n \div R = q1 /\ n % R = r0
  <2>1. n \div R \in Nat /\ n % R \in 0 .. R - 1 /\ n = R * (n \div R) + (n % R)
    BY <1>1, DivMod
  <2> QED BY <2>1, Zenon
<1>3. PICK q2 \in Nat, r1 \in 0 .. R - 1 : q1 = R * q2 + r1 /\ q1 % R = r1
  <2>1. q1 \div R \in Nat /\ q1 % R \in 0 .. R - 1 /\ q1 = R * (q1 \div R) + (q1 % R)
    BY <1>1, DivMod
  <2> QED BY <2>1, Zenon
<1>4. n = (R * R) * q2 + (R * r1 + r0)
  <2>1. R * q1 = R * (R * q2 + r1)
    BY <1>3
  <2>2. R * (R * q2 + r1) = R * (R * q2) + R * r1
    BY <1>1, SMT
  <2>3. R * (R * q2) = (R * R) * q2
    BY <1>1, SMT
  <2> QED BY <1>1, <1>2, <2>1, <2>2, <2>3, SMT
<1>5. R * r1 + r0 \in 0 .. R * R - 1
  <2>1. R * r1 <= R * (R - 1) /\ R * r1 \in Nat
    BY <1>1, <1>3, SMT
  <2>2. R * (R - 1) = R * R - R
    BY <1>1, SMT
  <2> QED BY <1>1, <1>2, <2>1, <2>2, SMT
<1>6. n \div (R * R) = q2
  BY <1>1, <1>4, <1>5, Quotient
<1>7. q2 < R
  <2> SUFFICES ASSUME q2 >= R PROVE FALSE
    BY <1>1, SMT
  <2>1. q2 >= 4
    BY <1>1, SMT
  <2>2. (R * R) * q2 >= (R * R) * 4
    BY <1>1, <2>1, SMT
  <2>3. 4 * R * R = (R * R) * 4
    BY <1>1, SMT
  <2>4. n < 4 * R * R
    BY DEF R
  <2> DEFINE a == (R * R) * q2
             b == R * r1 + r0
             c == (R * R) * 4
  <2>5. n = a + b /\ b \in Nat /\ a >= c /\ n < c /\ a \in Nat /\ c \in Nat
    BY <1>1, <1>4, <1>5, <2>2, <2>3, <2>4, SMT
  <2> HIDE DEF a, b, c
  <2> QED BY <2>5, SMT
<1>8. q2 % R = q2 /\ n \div 1 = n
  BY <1>1, <1>7, SMT
<1>9. r0 + r1 * R + q2 * (R * R) = n
  <2>1. r1 * R = R * r1 /\ q2 * (R * R) = (R * R) * q2
    BY <1>1, SMT
  <2>2. R * r1 \in Nat /\ (R * R) * q2 \in Nat
    BY <1>1, SMT
  <2> QED BY <1>1, <1>4, <2>1, <2>2, SMT
<1> QED BY <1>2, <1>3, <1>6, <1>7, <1>8, <1>9 DEF R

\* The digits of a length field say the length, and only the last is not marked.
LEMMA FieldValue ==
  ASSUME NEW n \in Nat, n < 4 * Radix * Radix
  PROVE  LET d == Digits(n)
             f == LengthField(n)
             D(i) == IF i <= d THEN f[i] % Radix ELSE 0
         IN  /\ \A i \in 1 .. d - 1 : f[i] >= Radix
             /\ f[d] < Radix
             /\ D(1) * Place(1) + D(2) * Place(2) + D(3) * Place(3) = n
<1> DEFINE d == Digits(n)
           f == LengthField(n)
           D(i) == IF i <= d THEN f[i] % Radix ELSE 0
           R == Radix
<1>1. PICK q1 \in Nat, q2 \in Nat, r0 \in 0 .. R - 1, r1 \in 0 .. R - 1 :
           /\ n = R * q1 + r0 /\ q1 = R * q2 + r1 /\ q2 < R
           /\ n \div 1 = n /\ n % R = r0
           /\ n \div R = q1 /\ q1 % R = r1
           /\ n \div (R * R) = q2 /\ q2 % R = q2
           /\ r0 + r1 * R + q2 * (R * R) = n
  BY Digits3
<1>2. /\ d \in {1, 2, 3} /\ (d = 1 <=> n < R) /\ (d # 3 <=> n < R \/ n < R * R)
      /\ R \in Nat /\ R >= 4 /\ R * R \in Nat /\ R * R >= 4 * R
  BY RadixFacts, SMT DEF Digits
<1>3. Place(1) = 1 /\ Place(2) = R /\ Place(3) = R * R
  BY DEF Place
<1>4. \A i \in 1 .. d : f[i] = ((n \div Place(i)) % R) + (IF i < d THEN R ELSE 0)
  BY DEF LengthField
<1> HIDE DEF d, f, R
<1>5. /\ 1 <= d => f[1] = r0 + (IF 1 < d THEN R ELSE 0)
      /\ 2 <= d => f[2] = r1 + (IF 2 < d THEN R ELSE 0)
      /\ 3 <= d => f[3] = q2
  <2>1. 1 <= d => f[1] = r0 + (IF 1 < d THEN R ELSE 0)
    <3>1. 1 <= d => 1 \in 1 .. d
      BY <1>2, SMT
    <3> QED BY <1>1, <1>3, <1>4, <3>1, Zenon
  <2>2. 2 <= d => f[2] = r1 + (IF 2 < d THEN R ELSE 0)
    <3>1. 2 <= d => 2 \in 1 .. d
      BY <1>2, SMT
    <3> QED BY <1>1, <1>3, <1>4, <3>1, Zenon
  <2>3. 3 <= d => f[3] = q2
    <3>1. 3 <= d => 3 \in 1 .. d /\ ~(3 < d)
      BY <1>2, SMT
    <3>2. 3 <= d => f[3] = q2 + 0
      BY <1>1, <1>3, <1>4, <3>1, Zenon
    <3> QED BY <3>2, SMT
  <2> QED BY <2>1, <2>2, <2>3
<1>6. \A x \in 0 .. R - 1 : x % R = x /\ (x + R) % R = x /\ (x + 0) % R = x
  <2>1. \A x \in 0 .. R - 1 : x % R = x
    BY <1>2, SMT
  <2>2. \A x \in 0 .. R - 1 : (x + R) % R = x
    <3> TAKE x \in 0 .. R - 1
    <3>1. x + R \in Nat /\ x + R = R * 1 + x /\ R > 0 /\ 1 \in Nat
      BY <1>2, SMT
    <3> QED BY <1>2, <3>1, Quotient
  <2> QED BY <1>2, <2>1, <2>2, SMT
<1>61. /\ (r0 + R) % R = r0 /\ (r0 + 0) % R = r0
       /\ (r1 + R) % R = r1 /\ (r1 + 0) % R = r1
  BY <1>1, <1>6, Zenon
<1>7. \A i \in 1 .. d - 1 : f[i] >= R
  <2> TAKE i \in 1 .. d - 1
  <2>1. (i = 1 /\ 1 <= d /\ 1 < d) \/ (i = 2 /\ 2 <= d /\ 2 < d)
    BY <1>2, SMT
  <2>2. CASE i = 1 /\ 1 <= d /\ 1 < d
    <3>1. f[1] = r0 + R
      BY <1>5, <2>2
    <3> QED BY <1>1, <1>2, <2>2, <3>1, SMT
  <2>3. CASE i = 2 /\ 2 <= d /\ 2 < d
    <3>1. f[2] = r1 + R
      BY <1>5, <2>3
    <3> QED BY <1>1, <1>2, <2>3, <3>1, SMT
  <2> QED BY <2>1, <2>2, <2>3
<1>8. f[d] < R
  <2>1. CASE d = 1
    <3>1. f[1] = r0 + 0
      BY <1>5, <2>1, SMT
    <3> QED BY <1>2, <2>1, <3>1, SMT
  <2>2. CASE d = 2
    <3>1. f[2] = r1 + 0
      BY <1>5, <2>2, SMT
    <3> QED BY <1>2, <2>2, <3>1, SMT
  <2>3. CASE d = 3
    <3>1. f[3] = q2
      BY <1>5, <2>3, SMT
    <3> QED BY <1>1, <2>3, <3>1
  <2> QED BY <1>2, <2>1, <2>2, <2>3
<1>9. D(1) * Place(1) + D(2) * Place(2) + D(3) * Place(3) = n
  <2>0. D(1) = r0
    <3>1. 1 <= d /\ (f[1] = r0 + R \/ f[1] = r0 + 0)
      BY <1>2, <1>5, SMT
    <3>2. f[1] % R = r0
      BY <1>61, <3>1, Zenon
    <3> QED BY <3>1, <3>2, Zenon DEF R
  <2>1. CASE d = 1
    <3>1. D(2) = 0 /\ D(3) = 0
      BY <2>1, SMT
    <3>2. r0 = n
      BY <1>1, <1>2, <2>1, SMT
    <3>3. r0 * 1 + 0 * R + 0 * (R * R) = r0
      BY <1>2, SMT
    <3> QED BY <1>3, <2>0, <3>1, <3>2, <3>3
  <2>2. CASE d = 2
    <3>1. D(3) = 0
      BY <2>2, SMT
    <3>2. D(2) = r1
      <4>1. 2 <= d /\ f[2] = r1 + 0
        BY <1>5, <2>2, SMT
      <4>2. f[2] % R = r1
        BY <1>61, <4>1, Zenon
      <4> QED BY <4>1, <4>2, Zenon DEF R
    <3>3. q2 = 0
      <4>1. n < R * R /\ R * R > 0
        BY <1>2, <2>2, SMT
      <4>2. n = (R * R) * 0 + n /\ n \in 0 .. R * R - 1 /\ 0 \in Nat
        BY <1>2, <4>1, SMT
      <4>3. n \div (R * R) = 0
        BY <1>2, <4>1, <4>2, Quotient
      <4> QED BY <1>1, <4>3
    <3>4. r0 * 1 + r1 * R + 0 * (R * R) = r0 + r1 * R + 0 * (R * R)
      BY <1>2, SMT
    <3> QED BY <1>1, <1>3, <2>0, <3>1, <3>2, <3>3, <3>4
  <2>3. CASE d = 3
    <3>1. D(2) = r1
      <4>1. 2 <= d /\ f[2] = r1 + R
        BY <1>5, <2>3, SMT
      <4>2. f[2] % R = r1
        BY <1>61, <4>1, Zenon
      <4> QED BY <4>1, <4>2, Zenon DEF R
    <3>2. D(3) = q2
      <4>1. 3 <= d /\ f[3] = q2
        BY <1>5, <2>3, SMT
      <4>2. f[3] % R = q2
        BY <1>1, <4>1, Zenon
      <4> QED BY <4>1, <4>2, Zenon DEF R
    <3>3. r0 * 1 + r1 * R + q2 * (R * R) = r0 + r1 * R + q2 * (R * R)
      BY <1>2, SMT
    <3> QED BY <1>1, <1>3, <2>0, <3>1, <3>2, <3>3
  <2> QED BY <1>2, <2>1, <2>2, <2>3
<1> QED BY <1>7, <1>8, <1>9 DEF d, f, R

\* readPacket() finds the length that was put before the body.
LEMMA LengthIsFound ==
  ASSUME NEW n \in Nat, n < 4 * Radix * Radix, NEW s \in Seq(Bytes),
         Len(s) >= 1 + Digits(n),
         \A i \in 1 .. Digits(n) : s[i + 1] = LengthField(n)[i]
  PROVE  LengthDigits(s) = Digits(n) /\ LengthValue(s, Digits(n)) = n
<1> DEFINE d == Digits(n)
           f == LengthField(n)
           D(i) == IF i <= d THEN f[i] % Radix ELSE 0
           ends == {i \in 1 .. Len(s) - 1 : s[i + 1] < Radix}
<1>1. /\ \A i \in 1 .. d - 1 : f[i] >= Radix
      /\ f[d] < Radix
      /\ D(1) * Place(1) + D(2) * Place(2) + D(3) * Place(3) = n
  BY FieldValue
<1>2. d \in 1 .. 3 /\ f \in Seq(Bytes) /\ Len(f) = d
  BY FieldType
<1>3. Len(s) \in Nat /\ Radix \in Nat /\ Radix > 0
  BY RadixFacts, SMT
<1>31. Len(s) >= 1 + d /\ \A i \in 1 .. d : s[i + 1] = f[i]
  OBVIOUS
<1>32. \A i \in 1 .. d : f[i] \in Nat
  <2>1. \A b \in Bytes : b \in Nat
    BY RadixFacts, SMT DEF Bytes
  <2>2. \A i \in 1 .. d : f[i] \in Bytes
    BY <1>2, ElementOfSeq
  <2> QED BY <2>1, <2>2
<1> HIDE DEF d, f
<1>4. d \in ends /\ \A j \in ends : d <= j
  <2>1. d \in 1 .. Len(s) - 1 /\ d \in 1 .. d
    BY <1>2, <1>3, <1>31, SMT
  <2>2. d \in ends
    BY <1>1, <1>31, <2>1
  <2>3. ASSUME NEW j \in ends PROVE d <= j
    <3>1. j \in Nat /\ j >= 1 /\ s[j + 1] < Radix
      BY <1>3
    <3>2. CASE j < d
      <4>1. j \in 1 .. d - 1 /\ j \in 1 .. d
        BY <1>2, <3>1, <3>2, SMT
      <4>2. f[j] >= Radix /\ f[j] < Radix /\ f[j] \in Nat
        BY <1>1, <1>31, <1>32, <3>1, <4>1
      <4> QED BY <1>3, <4>2, SMT
    <3> QED BY <1>2, <3>1, <3>2, SMT
  <2> QED BY <2>2, <2>3
<1>5. LengthDigits(s) = d
  <2>1. LengthDigits(s) = CHOOSE i \in ends : \A j \in ends : i <= j
    <3>1. ends # {}
      BY <1>4
    <3> QED BY <3>1, Zenon DEF LengthDigits
  <2>2. \A i \in ends : (\A j \in ends : i <= j) => i = d
    <3> TAKE i \in ends
    <3>1. i \in Nat /\ d \in Nat
      BY <1>2, <1>3, SMT
    <3>2. ASSUME \A j \in ends : i <= j PROVE i = d
      <4>1. i <= d /\ d <= i
        BY <1>4, <3>2
      <4> QED BY <3>1, <4>1, SMT
    <3> QED BY <3>2
  <2> HIDE DEF ends
  <2> QED BY <1>4, <2>1, <2>2, Zenon
<1>6. LengthValue(s, d) = n
  <2> DEFINE E(i) == IF i <= d THEN s[i + 1] % Radix ELSE 0
  <2>1. \A i \in {1, 2, 3} : E(i) = D(i)
    <3> SUFFICES ASSUME NEW i \in {1, 2, 3}, i <= d PROVE s[i + 1] = f[i]
      BY Zenon
    <3>1. i \in 1 .. d
      BY <1>2, SMT
    <3> QED BY <1>31, <3>1
  <2>2. E(1) = D(1) /\ E(2) = D(2) /\ E(3) = D(3)
    <3>1. 1 \in {1, 2, 3} /\ 2 \in {1, 2, 3} /\ 3 \in {1, 2, 3}
      OBVIOUS
    <3> HIDE DEF D, E
    <3> QED BY <2>1, <3>1
  <2>3. LengthValue(s, d) = (E(1) * Place(1) + E(2) * Place(2) + E(3) * Place(3))
                             % (4 * Radix * Radix)
    BY Zenon DEF LengthValue
  <2> HIDE DEF D, E
  <2>4. LengthValue(s, d) = n % (4 * Radix * Radix)
    BY <1>1, <2>2, <2>3
  <2>5. n % (4 * Radix * Radix) = n
    <3> DEFINE m == 4 * Radix * Radix
    <3>1. m \in Nat /\ m > 0 /\ n < m
      BY RadixFacts, SMT
    <3> HIDE DEF m
    <3>2. n % m = n
      BY <3>1, SMT
    <3> QED BY <3>2 DEF m
  <2> QED BY <2>4, <2>5
<1> QED BY <1>5, <1>6 DEF d

-----------------------------------------------------------------------------
(* A PUBLISH in the stream *)

LEMMA ConcatAt ==
  ASSUME NEW s \in Seq(Bytes), NEW t \in Seq(Bytes)
  PROVE  /\ s \o t \in Seq(Bytes) /\ Len(s \o t) = Len(s) + Len(t)
         /\ Len(s) \in Nat /\ Len(t) \in Nat
         /\ \A i \in 1 .. Len(s) : (s \o t)[i] = s[i]
         /\ \A i \in 1 .. Len(t) : (s \o t)[Len(s) + i] = t[i]
BY SMT

BodyLength(m) == 2 + Len(m.topic) + 2 * m.qos + Len(m.payload)

LEMMA MessageFacts ==
  ASSUME NEW m \in Messages
  PROVE  /\ m.topic \in Seq(Bytes) /\ m.payload \in Seq(Bytes) /\ m.qos \in {0, 1}
         /\ m.id \in Bytes /\ (m.qos = 0 => m.id = 0)
         /\ Len(m.topic) \in Nat /\ Len(m.payload) \in Nat /\ Len(m.topic) < 4 * Radix * Radix
         /\ BodyLength(m) \in Nat /\ BodyLength(m) >= 2 /\ BodyLength(m) < 4 * Radix * Radix
         /\ Digits(BodyLength(m)) \in 1 .. 3
         /\ m = [topic |-> m.topic, qos |-> m.qos, id |-> m.id, payload |-> m.payload]
<1>1. m \in [topic : Seq(Bytes), qos : {0, 1}, id : Bytes, payload : Seq(Bytes)]
      /\ Len(m.topic) < 4 * Radix * Radix /\ (m.qos = 0 => m.id = 0)
  BY MessageAssumption DEF MessageAssumption
<1>2. BodyLength(m) < 4 * Radix * Radix
  <2>1. 6 + Len(m.topic) + 2 * m.qos + Len(m.payload) < 4 * Radix * Radix
    BY LengthAssumption DEF LengthAssumption
  <2>2. Len(m.topic) \in Nat /\ Len(m.payload) \in Nat /\ m.qos \in {0, 1}
    BY <1>1, SMT
  <2>3. \A a, c \in Nat, q \in {0, 1}, b \in Int : 6 + a + 2 * q + c < b => 2 + a + 2 * q + c < b
    BY SMT
  <2>4. 4 * Radix * Radix \in Int
    BY RadixFacts, SMT
  <2>5. 2 + Len(m.topic) + 2 * m.qos + Len(m.payload) < 4 * Radix * Radix
    BY <2>1, <2>2, <2>3, <2>4, Zenon
  <2> QED BY <2>5 DEF BodyLength
<1>3. /\ m.topic \in Seq(Bytes) /\ m.payload \in Seq(Bytes) /\ m.qos \in {0, 1} /\ m.id \in Bytes
      /\ m = [topic |-> m.topic, qos |-> m.qos, id |-> m.id, payload |-> m.payload]
  BY <1>1
<1>4. Len(m.topic) \in Nat /\ Len(m.payload) \in Nat
  BY <1>3, SMT
<1>5. BodyLength(m) \in Nat /\ BodyLength(m) >= 2
  BY <1>3, <1>4, SMT DEF BodyLength
<1>6. Digits(BodyLength(m)) \in 1 .. 3
  BY <1>5, FieldType
<1> QED BY <1>1, <1>2, <1>3, <1>4, <1>5, <1>6

\* Where the parts of a PUBLISH are.
LEMMA PublicationParts ==
  ASSUME NEW m \in Messages
  PROVE  LET P  == Publication(m)
             n  == BodyLength(m)
             d  == Digits(n)
             tl == Len(m.topic)
         IN  /\ P \in Seq(Bytes) /\ Len(P) = 1 + d + n
             /\ P[1] = IF m.qos = 1 THEN PUBLISH1 ELSE PUBLISH0
             /\ \A i \in 1 .. d : P[i + 1] = LengthField(n)[i]
             /\ P[d + 2] = tl \div (2 * Radix) /\ P[d + 3] = tl % (2 * Radix)
             /\ \A i \in 1 .. tl : P[d + 3 + i] = m.topic[i]
             /\ m.qos = 1 => P[d + tl + 5] = m.id
             /\ \A i \in 1 .. Len(m.payload) : P[d + 3 + tl + 2 * m.qos + i] = m.payload[i]
<1> DEFINE P  == Publication(m)
           n  == BodyLength(m)
           d  == Digits(n)
           tl == Len(m.topic)
           pl == Len(m.payload)
           a  == tl \div (2 * Radix)
           b  == tl % (2 * Radix)
           h  == IF m.qos = 1 THEN PUBLISH1 ELSE PUBLISH0
           f  == LengthField(n)
           top == m.topic
           pay == m.payload
           ids == IF m.qos = 1 THEN <<0, m.id>> ELSE <<>>
           L1 == <<a, b>> \o top
           L2 == L1 \o ids
           L3 == L2 \o pay
           hf == <<h>> \o f
<1>1. /\ top \in Seq(Bytes) /\ pay \in Seq(Bytes) /\ m.qos \in {0, 1} /\ m.id \in Bytes
      /\ tl \in Nat /\ pl \in Nat /\ n \in Nat /\ d \in 1 .. 3 /\ n = 2 + tl + 2 * m.qos + pl
      /\ tl = Len(top) /\ pl = Len(pay)
  BY MessageFacts DEF BodyLength
<1>2. a \in Bytes /\ b \in Bytes
  <2>1. Text(top) \in Seq(Bytes) /\ Len(Text(top)) = tl + 2
    BY MessageFacts, TextType
  <2>2. Text(top) = L1
    BY DEF Text
  <2> DEFINE x == 2 * Radix
  <2>3. x \in Nat /\ x > 0
    BY RadixFacts, SMT
  <2>4. tl < x * x
    BY <1>1, MessageFacts, RadixFacts, SMT
  <2> HIDE DEF tl, x
  <2>5. tl \div x \in Nat /\ tl % x \in 0 .. x - 1 /\ tl \div x < x
    <3>1. tl \div x \in Nat /\ tl % x \in 0 .. x - 1
      BY <1>1, <2>3, DivModFacts
    <3>2. tl \div x < x
      <4> DEFINE q == tl \div x
      <4>1. tl = x * q + (tl % x) /\ q \in Nat
        BY <1>1, <2>3, DivMod
      <4>2. x * q <= tl
        <5> DEFINE y == x * q
                   z == tl % x
        <5>1. tl = y + z /\ z \in Nat /\ y \in Nat
          BY <2>3, <3>1, <4>1, SMT
        <5> HIDE DEF y, z
        <5>2. y <= tl
          BY <1>1, <5>1, SMT
        <5> QED BY <5>2 DEF y
      <4> HIDE DEF q
      <4>3. q >= x => x * q >= x * x
        BY <2>3, <4>1, SMT
      <4>4. x * x \in Nat /\ x * q \in Nat
        BY <2>3, <4>1, SMT
      <4>5. ~ (q >= x)
        BY <1>1, <2>4, <4>2, <4>3, <4>4, SMT
      <4>6. q < x
        BY <2>3, <4>1, <4>5, SMT
      <4> QED BY <4>6 DEF q
    <3> QED BY <3>1, <3>2
  <2>6. tl \div x \in 0 .. x - 1
    <3> DEFINE y == tl \div x
    <3>1. y \in Nat /\ y < x
      BY <2>5
    <3> HIDE DEF y
    <3>2. y \in 0 .. x - 1
      BY <2>3, <3>1, SMT
    <3> QED BY <3>2 DEF y
  <2> QED BY <2>5, <2>6 DEF Bytes, x
<1>3. h \in Bytes /\ ids \in Seq(Bytes) /\ Len(ids) = 2 * m.qos
      /\ (m.qos = 1 => ids[2] = m.id)
  <2>1. 0 \in Bytes /\ h \in Bytes
    BY ByteFacts
  <2>2. /\ <<0, m.id>> \in Seq(Bytes) /\ Len(<<0, m.id>>) = 2 /\ <<0, m.id>>[2] = m.id
        /\ <<>> \in Seq(Bytes) /\ Len(<<>>) = 0
    BY <1>1, <2>1, SMT
  <2>3. 2 * 1 = 2 /\ 2 * 0 = 0
    BY SMT
  <2> QED BY <1>1, <2>1, <2>2, <2>3
<1>4. f \in Seq(Bytes) /\ Len(f) = d
  BY <1>1, FieldType
<1>5. P = hf \o L3
  <2>1. Len(L3) = n /\ Text(top) = L1
    <3>1. Text(top) = L1
      BY DEF Text
    <3>2. /\ <<a, b>> \in Seq(Bytes) /\ Len(<<a, b>>) = 2
      BY <1>2
    <3> HIDE DEF a, b
    <3>3. L1 \in Seq(Bytes) /\ Len(L1) = 2 + tl
      BY <1>1, <3>2, ConcatAt
    <3> HIDE DEF L1, ids, tl, pl
    <3>4. L2 \in Seq(Bytes) /\ Len(L2) = 2 + tl + 2 * m.qos
      <4>1. L2 \in Seq(Bytes) /\ Len(L2) = Len(L1) + Len(ids)
        BY <1>3, <3>3, ConcatAt
      <4> HIDE DEF L2
      <4> QED BY <1>3, <3>3, <4>1, Zenon
    <3> HIDE DEF L2
    <3>5. L3 \in Seq(Bytes) /\ Len(L3) = 2 + tl + 2 * m.qos + pl
      BY <1>1, <3>4, ConcatAt
    <3> QED BY <1>1, <3>1, <3>5
  <2> QED BY <2>1 DEF Publication, Framed
<1>6. /\ <<a, b>> \in Seq(Bytes) /\ Len(<<a, b>>) = 2 /\ <<a, b>>[1] = a /\ <<a, b>>[2] = b
      /\ <<h>> \in Seq(Bytes) /\ Len(<<h>>) = 1 /\ <<h>>[1] = h
  BY <1>2, <1>3
<1> HIDE DEF P, n, d, tl, pl, a, b, h, f, top, pay, ids
<1>7. /\ L1 \in Seq(Bytes) /\ Len(L1) = 2 + tl /\ L1[1] = a /\ L1[2] = b
      /\ \A i \in 1 .. tl : L1[2 + i] = top[i]
  <2> DEFINE ab == <<a, b>>
  <2>1. ab \in Seq(Bytes) /\ Len(ab) = 2 /\ ab[1] = a /\ ab[2] = b
    BY <1>6
  <2> HIDE DEF ab
  <2>2. /\ L1 \in Seq(Bytes) /\ Len(L1) = 2 + tl
        /\ \A i \in 1 .. 2 : L1[i] = ab[i]
        /\ \A i \in 1 .. tl : L1[2 + i] = top[i]
    <3>1. L1 = ab \o top /\ 2 \in Nat
      BY DEF ab
    <3> HIDE DEF L1
    <3>8. /\ L1 \in Seq(Bytes) /\ Len(L1) = Len(ab) + Len(top)
          /\ \A i \in 1 .. Len(ab) : L1[i] = ab[i]
          /\ \A i \in 1 .. Len(top) : L1[Len(ab) + i] = top[i]
      BY <1>1, <2>1, <3>1, ConcatAt
    <3> QED BY <1>1, <2>1, <3>1, <3>8, Zenon
  <2>3. 1 \in 1 .. 2 /\ 2 \in 1 .. 2
    BY SMT
  <2> HIDE DEF L1
  <2> QED BY <2>1, <2>2, <2>3
<1> HIDE DEF L1
<1>8. /\ L2 \in Seq(Bytes) /\ Len(L2) = 2 + tl + 2 * m.qos /\ L2[1] = a /\ L2[2] = b
      /\ \A i \in 1 .. tl : L2[2 + i] = top[i]
      /\ m.qos = 1 => L2[tl + 4] = m.id
  <2>1. /\ L2 \in Seq(Bytes) /\ Len(L2) = 2 + tl + 2 * m.qos
        /\ \A i \in 1 .. 2 + tl : L2[i] = L1[i]
        /\ \A i \in 1 .. 2 * m.qos : L2[(2 + tl) + i] = ids[i]
    <3>1. 2 + tl \in Nat /\ 2 * m.qos \in Nat
      BY <1>1, SMT
    <3>8. /\ L2 \in Seq(Bytes) /\ Len(L2) = Len(L1) + Len(ids)
          /\ \A i \in 1 .. Len(L1) : L2[i] = L1[i]
          /\ \A i \in 1 .. Len(ids) : L2[Len(L1) + i] = ids[i]
      BY <1>3, <1>7, ConcatAt
    <3> QED BY <1>3, <1>7, <3>8, Zenon
  <2>2. 1 \in 1 .. 2 + tl /\ 2 \in 1 .. 2 + tl /\ \A i \in 1 .. tl : 2 + i \in 1 .. 2 + tl
    BY <1>1, SMT
  <2>3. m.qos = 1 => 2 \in 1 .. 2 * m.qos /\ (2 + tl) + 2 = tl + 4
    BY <1>1, SMT
  <2> QED BY <1>3, <1>7, <2>1, <2>2, <2>3
<1> HIDE DEF L2
<1>9. /\ L3 \in Seq(Bytes) /\ Len(L3) = n /\ L3[1] = a /\ L3[2] = b
      /\ \A i \in 1 .. tl : L3[2 + i] = top[i]
      /\ m.qos = 1 => L3[tl + 4] = m.id
      /\ \A i \in 1 .. pl : L3[2 + tl + 2 * m.qos + i] = pay[i]
  <2> DEFINE k == 2 + tl + 2 * m.qos
  <2>1. /\ L3 \in Seq(Bytes) /\ Len(L3) = k + pl
        /\ \A i \in 1 .. k : L3[i] = L2[i]
        /\ \A i \in 1 .. pl : L3[k + i] = pay[i]
    <3>1. k \in Nat /\ Len(L2) = k
      BY <1>1, <1>8, SMT
    <3> HIDE DEF k
    <3>8. /\ L3 \in Seq(Bytes) /\ Len(L3) = Len(L2) + Len(pay)
          /\ \A i \in 1 .. Len(L2) : L3[i] = L2[i]
          /\ \A i \in 1 .. Len(pay) : L3[Len(L2) + i] = pay[i]
      BY <1>1, <1>8, ConcatAt
    <3> QED BY <1>1, <1>8, <3>1, <3>8, Zenon
  <2>2. 1 \in 1 .. k /\ 2 \in 1 .. k /\ \A i \in 1 .. tl : 2 + i \in 1 .. k
    BY <1>1, SMT
  <2>3. m.qos = 1 => tl + 4 \in 1 .. k
    BY <1>1, SMT
  <2> QED BY <1>1, <1>8, <2>1, <2>2, <2>3
<1> HIDE DEF L3
<1>10. /\ hf \in Seq(Bytes) /\ Len(hf) = 1 + d /\ hf[1] = h
       /\ \A i \in 1 .. d : hf[1 + i] = f[i]
  <2> DEFINE hh == <<h>>
  <2>1. hh \in Seq(Bytes) /\ Len(hh) = 1 /\ hh[1] = h
    BY <1>6
  <2> HIDE DEF hh
  <2>2. /\ hf \in Seq(Bytes) /\ Len(hf) = 1 + d
        /\ \A i \in 1 .. 1 : hf[i] = hh[i]
        /\ \A i \in 1 .. d : hf[1 + i] = f[i]
    <3>1. hf = hh \o f /\ 1 \in Nat /\ d \in Nat
      BY <1>1 DEF hh
    <3> HIDE DEF hf
    <3>8. /\ hf \in Seq(Bytes) /\ Len(hf) = Len(hh) + Len(f)
          /\ \A i \in 1 .. Len(hh) : hf[i] = hh[i]
          /\ \A i \in 1 .. Len(f) : hf[Len(hh) + i] = f[i]
      BY <1>4, <2>1, <3>1, ConcatAt
    <3> QED BY <1>4, <2>1, <3>1, <3>8, Zenon
  <2>3. 1 \in 1 .. 1
    BY SMT
  <2> HIDE DEF hf
  <2> QED BY <2>1, <2>2, <2>3
<1> HIDE DEF hf
<1>11. /\ P \in Seq(Bytes) /\ Len(P) = 1 + d + n
       /\ \A i \in 1 .. 1 + d : P[i] = hf[i]
       /\ \A i \in 1 .. n : P[(1 + d) + i] = L3[i]
  <2>1. 1 + d \in Nat
    BY <1>1, SMT
  <2>8. /\ P \in Seq(Bytes) /\ Len(P) = Len(hf) + Len(L3)
        /\ \A i \in 1 .. Len(hf) : P[i] = hf[i]
        /\ \A i \in 1 .. Len(L3) : P[Len(hf) + i] = L3[i]
    BY <1>5, <1>9, <1>10, ConcatAt
  <2> QED BY <1>5, <1>9, <1>10, <2>8, Zenon
<1>12. P[1] = h /\ \A i \in 1 .. d : P[i + 1] = f[i]
  <2>1. 1 \in 1 .. 1 + d /\ \A i \in 1 .. d : i + 1 \in 1 .. 1 + d /\ i + 1 = 1 + i
    BY <1>1, SMT
  <2> QED BY <1>10, <1>11, <2>1
<1>13. P[d + 2] = a /\ P[d + 3] = b
  <2>1. 1 \in 1 .. n /\ 2 \in 1 .. n /\ d + 2 = (1 + d) + 1 /\ d + 3 = (1 + d) + 2
    BY <1>1, SMT
  <2> QED BY <1>9, <1>11, <2>1
<1>14. \A i \in 1 .. tl : P[d + 3 + i] = top[i]
  <2>1. \A i \in 1 .. tl : 2 + i \in 1 .. n /\ d + 3 + i = (1 + d) + (2 + i)
    BY <1>1, SMT
  <2> QED BY <1>9, <1>11, <2>1
<1>15. m.qos = 1 => P[d + tl + 5] = m.id
  <2>1. m.qos = 1 => tl + 4 \in 1 .. n /\ d + tl + 5 = (1 + d) + (tl + 4)
    BY <1>1, SMT
  <2> QED BY <1>9, <1>11, <2>1
<1>16. \A i \in 1 .. pl : P[d + 3 + tl + 2 * m.qos + i] = pay[i]
  <2>1. \A i \in 1 .. pl : /\ 2 + tl + 2 * m.qos + i \in 1 .. n
                           /\ d + 3 + tl + 2 * m.qos + i = (1 + d) + (2 + tl + 2 * m.qos + i)
    <3> DEFINE k == 2 * m.qos
    <3>1. k \in Nat /\ n = 2 + tl + k + pl
      BY <1>1
    <3> HIDE DEF k
    <3>2. \A i \in 1 .. pl : /\ 2 + tl + k + i \in 1 .. n
                             /\ d + 3 + tl + k + i = (1 + d) + (2 + tl + k + i)
      BY <1>1, <3>1, SMT
    <3> QED BY <3>2 DEF k
  <2> QED BY <1>9, <1>11, <2>1
<1> QED BY <1>11, <1>12, <1>13, <1>14, <1>15, <1>16 DEF P, n, d, tl, pl, a, b, h, f, top, pay

\* readPacket() takes the first PUBLISH of the stream, whole, and nothing else.
LEMMA PublicationIsTaken ==
  ASSUME NEW m \in Messages, NEW rest \in Seq(Bytes), NEW s, s = Publication(m) \o rest
  PROVE  /\ s \in Seq(Bytes) /\ IsPublish(s)
         /\ LengthDigits(s) = Digits(BodyLength(m))
         /\ Extent(s) = Len(Publication(m)) /\ Len(Publication(m)) \in Nat
         /\ SubSeq(s, 1, Extent(s)) = Publication(m)
         /\ SubSeq(s, Extent(s) + 1, Len(s)) = rest
<1> DEFINE P == Publication(m)
           n == BodyLength(m)
           d == Digits(n)
           f == LengthField(n)
<1>1. /\ P \in Seq(Bytes) /\ Len(P) = 1 + d + n
      /\ P[1] \in {PUBLISH0, PUBLISH1}
      /\ \A i \in 1 .. d : P[i + 1] = f[i]
  BY PublicationParts
<1>2. n \in Nat /\ n >= 2 /\ n < 4 * Radix * Radix /\ d \in 1 .. 3
  BY MessageFacts
<1>3. /\ s \in Seq(Bytes) /\ Len(s) = Len(P) + Len(rest) /\ Len(P) \in Nat /\ Len(rest) \in Nat
      /\ \A i \in 1 .. Len(P) : s[i] = P[i]
      /\ \A i \in 1 .. Len(rest) : s[Len(P) + i] = rest[i]
  BY <1>1, ConcatAt
<1> HIDE DEF P, d, n
<1>4. Len(s) >= 1 + d /\ s[1] = P[1] /\ \A i \in 1 .. d : s[i + 1] = f[i]
  <2>1. 1 \in 1 .. Len(P) /\ \A i \in 1 .. d : i + 1 \in 1 .. Len(P)
    BY <1>1, <1>2, SMT
  <2>2. Len(s) >= 1 + d
    BY <1>1, <1>2, <1>3, SMT
  <2> QED BY <1>1, <1>3, <2>1, <2>2
<1>5. LengthDigits(s) = d /\ LengthValue(s, d) = n
  BY <1>2, <1>3, <1>4, LengthIsFound DEF d
<1>6. IsPublish(s)
  BY <1>1, <1>4 DEF IsPublish
<1>7. Extent(s) = Len(P)
  <2>1. d # 0 /\ ~ (n < 2)
    BY <1>2, SMT
  <2>2. Extent(s) = 1 + d + n
    BY <1>5, <1>6, <2>1, Zenon DEF Extent
  <2> QED BY <1>1, <2>2
<1>8. SubSeq(s, 1, Len(P)) = P
  BY <1>1, <1>3, SMT
<1>9. SubSeq(s, Len(P) + 1, Len(s)) = rest
  BY <1>1, <1>3, SMT
<1> QED BY <1>3, <1>5, <1>6, <1>7, <1>8, <1>9 DEF P, d, n

\* The callback is called with the message that was sent, if it fits the buffer.
LEMMA MessageIsGiven ==
  ASSUME TypeOK, Intact, NEW m \in Messages, NEW rest \in Seq(Bytes),
         wire = Publication(m) \o rest, LoopRead
  PROVE  /\ wire' = rest
         /\ given' = IF Fits(m) THEN Append(given, m) ELSE given
<1> DEFINE P  == Publication(m)
           n  == BodyLength(m)
           d  == Digits(n)
           tl == Len(m.topic)
           pl == Len(m.payload)
           q  == m.qos
           buf == Stored(buffer, P)
<1>1. /\ IsPublish(wire) /\ LengthDigits(wire) = d /\ Extent(wire) = Len(P) /\ Len(P) \in Nat
      /\ SubSeq(wire, 1, Len(P)) = P /\ SubSeq(wire, Len(P) + 1, Len(wire)) = rest
  <2>1. /\ IsPublish(wire) /\ LengthDigits(wire) = Digits(BodyLength(m))
        /\ Extent(wire) = Len(Publication(m)) /\ Len(Publication(m)) \in Nat
        /\ SubSeq(wire, 1, Extent(wire)) = Publication(m)
        /\ SubSeq(wire, Extent(wire) + 1, Len(wire)) = rest
    BY PublicationIsTaken, Zenon
  <2> QED BY <2>1, Zenon
<1>2. wire' = rest
  BY <1>1 DEF LoopRead, Taken
<1>3. /\ P[1] = IF q = 1 THEN PUBLISH1 ELSE PUBLISH0
      /\ P[d + 2] = tl \div (2 * Radix) /\ P[d + 3] = tl % (2 * Radix)
      /\ \A i \in 1 .. tl : P[d + 3 + i] = m.topic[i]
      /\ q = 1 => P[d + tl + 5] = m.id
      /\ \A i \in 1 .. pl : P[d + 3 + tl + 2 * q + i] = m.payload[i]
      /\ Len(P) = 1 + d + n /\ P \in Seq(Bytes)
  BY PublicationParts
<1>4. /\ n = 2 + tl + 2 * q + pl /\ n \in Nat /\ d \in 1 .. 3 /\ tl \in Nat /\ pl \in Nat
      /\ q \in {0, 1} /\ (q = 0 => m.id = 0) /\ m.topic \in Seq(Bytes) /\ m.payload \in Seq(Bytes)
      /\ m = [topic |-> m.topic, qos |-> q, id |-> m.id, payload |-> m.payload]
  BY MessageFacts DEF BodyLength
<1>41. Len(P) = 1 + d + (2 + tl + 2 * q + pl)
  BY <1>3, <1>4, Zenon
<1>5. Fits(m) <=> Len(P) <= MaxPacket
  BY DEF Fits
<1> DEFINE blen == buf[d + 1] * 2 * Radix + buf[d + 2]
           bqos == IF buf[0] = PUBLISH1 THEN 1 ELSE 0
           start == d + 3 + blen + 2 * bqos
           payload == Segment(buf, start, Len(P) - start)
           topic == Segment(buf, d + 3, blen)
           id == IF bqos = 1 THEN buf[start - 1] ELSE 0
<1>6. IF Len(P) <= MaxPacket /\ IsPublish(P) /\ start <= Len(P)
        THEN given' = Append(given, [topic |-> topic, qos |-> bqos, id |-> id, payload |-> payload])
        ELSE given' = given
  <2> HIDE DEF P, d, n
  <2>1. IF Len(P) <= MaxPacket /\ IsPublish(P) /\ start <= Len(P)
        THEN /\ view' = [topic |-> topic, qos |-> bqos, id |-> id,
                         start |-> start, length |-> Len(P) - start]
             /\ given' = Append(given, [topic |-> view'.topic, qos |-> bqos, id |-> view'.id,
                                        payload |-> payload])
        ELSE given' = given
    BY <1>1, Zenon DEF LoopRead
  <2> HIDE DEF topic, payload, id, bqos, start
  <2> QED BY <2>1
<1>7. CASE ~Fits(m)
  BY <1>2, <1>5, <1>6, <1>7
<1>8. CASE Fits(m)
  <2>1. \A i \in 1 .. Len(P) : buf[i - 1] = P[i]
    <3> HIDE DEF P
    <3>0. buf = Overlay(buffer, 0, P)
      <4>1. buffer \in [0 .. MaxPacket - 1 -> Bytes] /\ P \in Seq(Bytes)
        BY <1>3, WholeBuffer
      <4>2. Unchecked(P) \in 0 .. Len(P)
        BY <4>1, UncheckedType
      <4>3. Unchecked(P) <= MaxPacket
        BY <1>1, <1>5, <1>8, <4>2, MaxFacts, SMT
      <4> QED BY <4>1, <4>3, StoredInside
    <3> HIDE DEF buf
    <3> TAKE i \in 1 .. Len(P)
    <3>1. /\ i - 1 \in 0 .. MaxPacket - 1 /\ i - 1 >= 0 /\ i - 1 < 0 + Len(P) /\ (i - 1) - 0 + 1 = i
          /\ i - 1 < MaxPacket
      BY <1>1, <1>5, <1>8, MaxFacts, SMT
    <3>2. DOMAIN buffer = 0 .. MaxPacket - 1
      BY DEF Intact
    <3> QED BY <3>0, <3>1, <3>2, Zenon DEF Overlay
  <2> HIDE DEF P, n, d, tl, pl, q, buf
  <2> DEFINE L == Len(P)
  <2>11. /\ L = 1 + d + (2 + tl + 2 * q + pl) /\ d \in 1 .. 3 /\ tl \in Nat /\ pl \in Nat
         /\ q \in {0, 1}
    BY <1>4, <1>41
  <2> HIDE DEF L
  <2>2. buf[0] = P[1] /\ buf[d + 1] = P[d + 2] /\ buf[d + 2] = P[d + 3]
    <3>1. /\ 1 \in 1 .. L /\ d + 2 \in 1 .. L /\ d + 3 \in 1 .. L
          /\ 1 - 1 = 0 /\ (d + 2) - 1 = d + 1 /\ (d + 3) - 1 = d + 2
      BY <2>11, SMT
    <3> QED BY <2>1, <3>1, Zenon DEF L
  <2>3. bqos = q
    <3>1. PUBLISH0 # PUBLISH1
      BY SMT DEF PUBLISH0, PUBLISH1
    <3> QED BY <1>3, <1>4, <2>2, <3>1
  <2>4. blen = tl
    <3> DEFINE x == 2 * Radix
               a == tl \div x
               b == tl % x
    <3>1. x \in Nat /\ x > 0
      BY RadixFacts, SMT
    <3>2. a \in Nat /\ b \in 0 .. x - 1 /\ tl = x * a + b
      <4> HIDE DEF x
      <4> QED BY <1>4, <3>1, DivMod
    <3>3. blen = a * 2 * Radix + b
      BY <1>3, <2>2
    <3> HIDE DEF a, b
    <3>4. a * 2 * Radix = x * a
      BY <3>2, RadixFacts, SMT
    <3> QED BY <3>2, <3>3, <3>4
  <2> HIDE DEF bqos, blen
  <2>51. start = d + 3 + tl + 2 * q
    BY <2>3, <2>4
  <2>5. /\ start = d + 3 + tl + 2 * q /\ start \in Nat /\ L - start = pl /\ start <= L
        /\ (q = 1 => start - 1 = (d + tl + 5) - 1 /\ d + tl + 5 \in 1 .. L)
    <3> HIDE DEF start
    <3> QED BY <2>11, <2>51, SMT
  <2> HIDE DEF start
  <2>6. payload = m.payload
    <3> DEFINE p == m.payload
    <3>1. \A i \in 1 .. pl : buf[start + i - 1] = p[i]
      <4> TAKE i \in 1 .. pl
      <4>1. /\ d + 3 + tl + 2 * q + i \in 1 .. L
            /\ (d + 3 + tl + 2 * q + i) - 1 = start + i - 1
        BY <2>5, <2>11, SMT
      <4> QED BY <1>3, <2>1, <4>1, Zenon DEF L
    <3>2. payload = [i \in 1 .. pl |-> p[i]]
      BY <2>5, <3>1 DEF Segment, L
    <3>3. p \in Seq(Bytes) /\ Len(p) = pl
      BY <1>4 DEF pl
    <3> HIDE DEF p, payload
    <3>4. p = [i \in 1 .. pl |-> p[i]]
      BY <3>3, SMT
    <3> QED BY <3>2, <3>4 DEF p
  <2>7. topic = m.topic
    <3> DEFINE p == m.topic
    <3>1. \A i \in 1 .. tl : buf[(d + 3) + i - 1] = p[i]
      <4> TAKE i \in 1 .. tl
      <4>1. /\ d + 3 + i \in 1 .. L
            /\ (d + 3 + i) - 1 = (d + 3) + i - 1
        BY <2>11, SMT
      <4> QED BY <1>3, <2>1, <4>1, Zenon DEF L
    <3>2. topic = [i \in 1 .. tl |-> p[i]]
      BY <2>4, <3>1 DEF Segment
    <3>3. p \in Seq(Bytes) /\ Len(p) = tl
      BY <1>4 DEF tl
    <3> HIDE DEF p, topic
    <3>4. p = [i \in 1 .. tl |-> p[i]]
      BY <3>3, SMT
    <3> QED BY <3>2, <3>4 DEF p
  <2>8. id = m.id
    <3>1. CASE q = 1
      BY <1>3, <2>1, <2>3, <2>5, <3>1 DEF L
    <3>2. CASE q = 0
      BY <1>4, <2>3, <3>2
    <3> QED BY <1>4, <3>1, <3>2
  <2>9. IsPublish(P)
    BY <1>3 DEF IsPublish
  <2> HIDE DEF topic, payload, id
  <2>10. given' = Append(given, [topic |-> m.topic, qos |-> q, id |-> m.id, payload |-> m.payload])
    BY <1>5, <1>6, <1>8, <2>3, <2>5, <2>6, <2>7, <2>8, <2>9 DEF L
  <2> QED BY <1>2, <1>4, <1>8, <2>10
<1> QED BY <1>7, <1>8

-----------------------------------------------------------------------------
(* Delivery *)

\* The packets of the messages of s after the first n.
Packets(s, n) == [i \in 1 .. Len(s) - n |-> Publication(s[n + i])]

Fitting == {m \in Messages : Fits(m)}

Splits(n) == given = Selected(SubSeq(sent, 1, n), Fitting) /\ wire = FlattenSeq(Packets(sent, n))

LEMMA SplitsMeans == DeliveredIntact <=> (torn \/ \E n \in 0 .. Len(sent) : Splits(n))
BY DEF DeliveredIntact, Splits, Packets, Fitting

LEMMA PacketsFacts ==
  ASSUME NEW s \in Seq(Messages), NEW n \in 0 .. Len(s)
  PROVE  /\ Packets(s, n) \in Seq(Seq(Bytes)) /\ Len(Packets(s, n)) = Len(s) - n
         /\ Len(s) \in Nat /\ n \in Nat /\ Len(s) - n \in Nat
<1>1. Len(s) \in Nat /\ n \in Nat /\ Len(s) - n \in Nat
  BY SMT
<1>2. \A i \in 1 .. Len(s) - n : Publication(s[n + i]) \in Seq(Bytes)
  <2> TAKE i \in 1 .. Len(s) - n
  <2>1. n + i \in 1 .. Len(s)
    BY <1>1, SMT
  <2>2. s[n + i] \in Messages
    BY <2>1, ElementOfSeq
  <2> QED BY <2>2, PublicationParts
<1> DEFINE p == Packets(s, n)
<1>3. p \in [1 .. Len(s) - n -> Seq(Bytes)]
  BY <1>2 DEF Packets
<1> HIDE DEF p
<1>4. p \in Seq(Seq(Bytes)) /\ Len(p) = Len(s) - n
  <2> DEFINE k == Len(s) - n
  <2>1. k \in Nat /\ p \in [1 .. k -> Seq(Bytes)]
    BY <1>1, <1>3
  <2> HIDE DEF k
  <2>2. p \in Seq(Seq(Bytes)) /\ DOMAIN p = 1 .. k
    BY <2>1, IsASeq
  <2>3. Len(p) = k
    BY <2>1, <2>2, SMT
  <2> QED BY <2>2, <2>3 DEF k
<1> QED BY <1>1, <1>4 DEF p

LEMMA PacketsAppend ==
  ASSUME NEW s \in Seq(Messages), NEW n \in 0 .. Len(s), NEW m \in Messages
  PROVE  /\ Packets(Append(s, m), n) = Append(Packets(s, n), Publication(m))
         /\ SubSeq(Append(s, m), 1, n) = SubSeq(s, 1, n)
         /\ n \in 0 .. Len(Append(s, m))
<1> DEFINE t == Append(s, m)
           p == Packets(s, n)
           q == Publication(m)
           k == Len(s) - n
<1>1. /\ t \in Seq(Messages) /\ Len(t) = Len(s) + 1 /\ t[Len(s) + 1] = m
      /\ \A i \in 1 .. Len(s) : t[i] = s[i]
  BY AppendProperties, SMT
<1>2. /\ p \in Seq(Seq(Bytes)) /\ Len(p) = k /\ k \in Nat /\ Len(s) \in Nat /\ n \in Nat
      /\ \A i \in 1 .. k : p[i] = Publication(s[n + i])
  BY PacketsFacts DEF Packets
<1>3. q \in Seq(Bytes)
  BY PublicationParts
<1> HIDE DEF t, p, q
<1>4. n \in 0 .. Len(t) /\ Len(t) - n = k + 1
  BY <1>1, <1>2, SMT
<1>5. SubSeq(t, 1, n) = SubSeq(s, 1, n)
  <2>1. \A i \in 1 .. n : i \in 1 .. Len(s) /\ s[i] \in Messages /\ t[i] = s[i]
    BY <1>1, <1>2, SMT
  <2>2. /\ SubSeq(s, 1, n) \in Seq(Messages) /\ SubSeq(t, 1, n) \in Seq(Messages)
        /\ Len(SubSeq(s, 1, n)) = n /\ Len(SubSeq(t, 1, n)) = n
        /\ \A i \in 1 .. n : SubSeq(s, 1, n)[i] = s[i] /\ SubSeq(t, 1, n)[i] = t[i]
    BY <1>1, <1>2, <1>4, SMT
  <2> DEFINE a == SubSeq(s, 1, n)
             b == SubSeq(t, 1, n)
  <2>3. a \in Seq(Messages) /\ b \in Seq(Messages) /\ Len(a) = Len(b) /\ \A i \in 1 .. Len(a) : a[i] = b[i]
    BY <2>1, <2>2
  <2> HIDE DEF a, b
  <2>4. a = b
    BY <2>3, SeqEqual
  <2> QED BY <2>4 DEF a, b
<1>6. Packets(t, n) = Append(p, q)
  <2> DEFINE a == Packets(t, n)
             b == Append(p, q)
  <2>1. a \in Seq(Seq(Bytes)) /\ Len(a) = k + 1 /\ \A i \in 1 .. k + 1 : a[i] = Publication(t[n + i])
    BY <1>1, <1>4, PacketsFacts DEF Packets
  <2>2. b \in Seq(Seq(Bytes)) /\ Len(b) = k + 1 /\ b[k + 1] = q /\ \A i \in 1 .. k : b[i] = p[i]
    BY <1>2, <1>3, AppendProperties, SMT
  <2> HIDE DEF a, b
  <2>3. \A i \in 1 .. k + 1 : a[i] = b[i]
    <3> TAKE i \in 1 .. k + 1
    <3> HIDE DEF k
    <3>1. CASE i = k + 1
      <4>1. n + i = Len(s) + 1
        BY <1>2, <3>1 DEF k
      <4>2. a[i] = Publication(m)
        BY <1>1, <2>1, <4>1
      <4> QED BY <2>2, <3>1, <4>2 DEF q
    <3>2. CASE i # k + 1
      <4>1. i \in 1 .. k
        BY <1>2, <3>2, SMT
      <4>2. n + i \in 1 .. Len(s)
        BY <1>2, <4>1, SMT DEF k
      <4> QED BY <1>1, <1>2, <2>1, <2>2, <4>1, <4>2
    <3> QED BY <3>1, <3>2
  <2>4. a = b
    BY <2>1, <2>2, <2>3, SeqEqual
  <2> QED BY <2>4 DEF a, b
<1> QED BY <1>4, <1>5, <1>6 DEF t, p, q

LEMMA PacketsFirst ==
  ASSUME NEW s \in Seq(Messages), NEW n \in 0 .. Len(s), n # Len(s)
  PROVE  /\ n + 1 \in 0 .. Len(s) /\ s[n + 1] \in Messages
         /\ FlattenSeq(Packets(s, n)) = Publication(s[n + 1]) \o FlattenSeq(Packets(s, n + 1))
         /\ FlattenSeq(Packets(s, n + 1)) \in Seq(Bytes)
         /\ SubSeq(s, 1, n + 1) = Append(SubSeq(s, 1, n), s[n + 1])
         /\ SubSeq(s, 1, n) \in Seq(Messages)
<1> DEFINE p == Packets(s, n)
           r == Packets(s, n + 1)
           k == Len(s) - n
<1>1. Len(s) \in Nat /\ n \in Nat /\ n + 1 \in 0 .. Len(s) /\ n + 1 \in 1 .. Len(s) /\ k - 1 \in Nat
      /\ Len(s) - (n + 1) = k - 1 /\ k \in Nat /\ k > 0
  BY SMT
<1>2. /\ p \in Seq(Seq(Bytes)) /\ Len(p) = k
      /\ \A i \in 1 .. k : p[i] = Publication(s[n + i])
  BY PacketsFacts DEF Packets
<1>3. /\ r \in Seq(Seq(Bytes)) /\ Len(r) = k - 1
      /\ \A i \in 1 .. k - 1 : r[i] = Publication(s[(n + 1) + i])
  BY <1>1, PacketsFacts DEF Packets
<1> HIDE DEF p, r, k
<1>4. p # <<>> /\ p[1] = Publication(s[n + 1])
  <2>1. 1 \in 1 .. k
    BY <1>1, SMT
  <2> QED BY <1>1, <1>2, <2>1, EmptySeq
<1>5. Tail(p) = r
  <2> DEFINE t == Tail(p)
  <2>1. t \in Seq(Seq(Bytes)) /\ Len(t) = k - 1 /\ \A i \in 1 .. k - 1 : t[i] = p[i + 1]
    <3>1. t \in Seq(Seq(Bytes)) /\ Len(t) = Len(p) - 1 /\ \A i \in 1 .. Len(t) : t[i] = p[i + 1]
      BY <1>2, <1>4, HeadTailProperties
    <3> HIDE DEF t
    <3>2. Len(t) = k - 1
      BY <1>2, <3>1
    <3> QED BY <3>1, <3>2
  <2> HIDE DEF t
  <2>2. \A i \in 1 .. k - 1 : i + 1 \in 1 .. k /\ n + (i + 1) = (n + 1) + i
    BY <1>1, SMT
  <2>3. \A i \in 1 .. k - 1 : t[i] = r[i]
    BY <1>2, <1>3, <2>1, <2>2, Zenon
  <2>4. t = r
    BY <1>3, <2>1, <2>3, SeqEqual
  <2> QED BY <2>4 DEF t
<1>6. FlattenSeq(p) = Publication(s[n + 1]) \o FlattenSeq(r) /\ FlattenSeq(r) \in Seq(Bytes)
  BY <1>2, <1>3, <1>4, <1>5, FlattenFirst, FlattenType
<1>7. s[n + 1] \in Messages
  BY <1>1, ElementOfSeq
<1>8. SubSeq(s, 1, n + 1) = Append(SubSeq(s, 1, n), s[n + 1]) /\ SubSeq(s, 1, n) \in Seq(Messages)
  BY <1>1, <1>7, SMT
<1> QED BY <1>1, <1>6, <1>7, <1>8 DEF p, r

LEMMA NothingSent ==
  ASSUME NEW s, s = <<>>
  PROVE  /\ 0 \in 0 .. Len(s)
         /\ Selected(SubSeq(s, 1, 0), Fitting) = <<>>
         /\ FlattenSeq(Packets(s, 0)) = <<>>
<1>1. s \in Seq(Messages) /\ Len(s) = 0 /\ 0 \in 0 .. Len(s)
  BY EmptySeq, SMT
<1>2. SubSeq(s, 1, 0) = <<>>
  BY SubSeqEmpty, SMT
<1>3. Selected(SubSeq(s, 1, 0), Fitting) = <<>>
  BY <1>2, SelectedEmpty
<1>4. FlattenSeq(Packets(s, 0)) = <<>>
  <2> DEFINE p == Packets(s, 0)
  <2>1. p \in Seq(Seq(Bytes)) /\ Len(p) = Len(s) - 0
    BY <1>1, PacketsFacts
  <2> HIDE DEF p
  <2>2. Len(p) = 0 /\ p = <<>>
    BY <1>1, <2>1, EmptySeq, SMT
  <2> QED BY <2>2, FlattenIsJoined DEF p
<1> QED BY <1>1, <1>3, <1>4

LEMMA DeliveredStep == TypeOK /\ DeliveredIntact /\ [Next]_vars => DeliveredIntact'
<1> SUFFICES ASSUME TypeOK, DeliveredIntact, [Next]_vars PROVE DeliveredIntact'
  OBVIOUS
<1>0. sent \in Seq(Messages) /\ wire \in Seq(Bytes)
  BY DEF TypeOK
<1>1. CASE UNCHANGED <<torn, sent, given, wire>>
  BY <1>1 DEF DeliveredIntact
<1>2. CASE Intact /\ LoopRead
  <2>1. UNCHANGED <<sent, torn>>
    BY <1>2 DEF LoopRead
  <2>2. CASE torn
    BY <2>1, <2>2 DEF DeliveredIntact
  <2>3. CASE ~torn
    <3>1. PICK n \in 0 .. Len(sent) : Splits(n)
      BY <2>3, SplitsMeans
    <3>2. CASE n = Len(sent)
      <4> DEFINE p == Packets(sent, n)
      <4>1. p \in Seq(Seq(Bytes)) /\ Len(p) = Len(sent) - n /\ Len(sent) \in Nat
        BY <1>0, PacketsFacts
      <4> HIDE DEF p
      <4>2. Len(p) = 0 /\ p = <<>>
        BY <3>2, <4>1, EmptySeq, SMT
      <4>3. wire = <<>>
        BY <3>1, <4>2, FlattenIsJoined DEF Splits, p
      <4>4. Extent(wire) \in 1 .. Len(wire)
        BY <1>2 DEF LoopRead
      <4>5. Len(wire) = 0
        BY <4>3, EmptySeq
      <4> QED BY <4>4, <4>5, SMT
    <3>3. CASE n # Len(sent)
      <4> DEFINE m == sent[n + 1]
                 rest == FlattenSeq(Packets(sent, n + 1))
                 a == SubSeq(sent, 1, n)
      <4>1. /\ n + 1 \in 0 .. Len(sent) /\ m \in Messages /\ rest \in Seq(Bytes)
            /\ wire = Publication(m) \o rest /\ a \in Seq(Messages)
            /\ SubSeq(sent, 1, n + 1) = Append(a, m)
        BY <1>0, <3>1, <3>3, PacketsFirst DEF Splits
      <4>2. given = Selected(a, Fitting)
        BY <3>1 DEF Splits
      <4> HIDE DEF m, rest, a
      <4>3. wire' = rest /\ given' = IF Fits(m) THEN Append(given, m) ELSE given
        BY <1>2, <4>1, MessageIsGiven
      <4>4. given' = Selected(Append(a, m), Fitting)
        <5>1. m \in Fitting <=> Fits(m)
          BY <4>1 DEF Fitting
        <5> QED BY <4>1, <4>2, <4>3, <5>1, SelectedAppend
      <4>5. /\ given' = Selected(SubSeq(sent', 1, n + 1), Fitting)
            /\ wire' = FlattenSeq(Packets(sent', n + 1)) /\ n + 1 \in 0 .. Len(sent')
        BY <2>1, <4>1, <4>3, <4>4 DEF rest
      <4> QED BY <4>5 DEF DeliveredIntact, Packets, Fitting
    <3> QED BY <3>2, <3>3
  <2> QED BY <2>2, <2>3
<1>3. CASE Reconnect \/ PowerCycle
  <2>1. sent' = <<>> /\ given' = <<>> /\ wire' = <<>>
    BY <1>3 DEF Reconnect, PowerCycle
  <2>2. /\ 0 \in 0 .. Len(sent') /\ given' = Selected(SubSeq(sent', 1, 0), Fitting)
        /\ wire' = FlattenSeq(Packets(sent', 0))
    BY <2>1, NothingSent
  <2> QED BY <2>2 DEF DeliveredIntact, Packets, Fitting
<1>4. ASSUME NEW m \in Messages, BrokerSend(m) PROVE DeliveredIntact'
  <2>1. /\ sent' = Append(sent, m) /\ wire' = wire \o Publication(m) /\ UNCHANGED <<given, torn>>
    BY <1>4 DEF BrokerSend
  <2>2. CASE torn
    BY <2>1, <2>2 DEF DeliveredIntact
  <2>3. CASE ~torn
    <3>1. PICK n \in 0 .. Len(sent) : Splits(n)
      BY <2>3, SplitsMeans
    <3>2. /\ Packets(sent', n) = Append(Packets(sent, n), Publication(m))
          /\ SubSeq(sent', 1, n) = SubSeq(sent, 1, n) /\ n \in 0 .. Len(sent')
      BY <1>0, <2>1, PacketsAppend
    <3>3. FlattenSeq(Packets(sent', n)) = FlattenSeq(Packets(sent, n)) \o Publication(m)
      <4>1. Packets(sent, n) \in Seq(Seq(Bytes)) /\ Publication(m) \in Seq(Bytes)
        BY <1>0, PacketsFacts, PublicationParts
      <4> QED BY <3>2, <4>1, FlattenAppend
    <3>4. /\ given' = Selected(SubSeq(sent', 1, n), Fitting)
          /\ wire' = FlattenSeq(Packets(sent', n))
      BY <2>1, <3>1, <3>2, <3>3 DEF Splits
    <3> QED BY <3>2, <3>4 DEF DeliveredIntact, Packets, Fitting
  <2> QED BY <2>2, <2>3
<1>5. ASSUME NEW k, LoopGiveUp(k) PROVE DeliveredIntact'
  BY <1>5 DEF LoopGiveUp, DeliveredIntact
<1>6. CASE CallbackReturn
  BY <1>1, <1>6 DEF CallbackReturn
<1>7. ASSUME NEW text \in Texts,
             Publish(text) \/ PublishP(text) \/ Republish(text.topic) \/ Subscribe(text.topic)
      PROVE  DeliveredIntact'
  BY <1>1, <1>7 DEF Publish, PublishP, Republish, Subscribe, history
<1>8. CASE UNCHANGED vars
  BY <1>1, <1>8 DEF vars, history
<1> QED BY <1>2, <1>3, <1>4, <1>5, <1>6, <1>7, <1>8 DEF Next, Loop, Application

LEMMA FirstIsMessage ==
  ASSUME TypeOK, DeliveredIntact, ~torn, Extent(wire) \in 1 .. Len(wire)
  PROVE  \E m \in Messages, rest \in Seq(Bytes) : wire = Publication(m) \o rest
<1>0. sent \in Seq(Messages) /\ wire \in Seq(Bytes)
  BY DEF TypeOK
<1>1. PICK n \in 0 .. Len(sent) : Splits(n)
  BY SplitsMeans
<1>2. CASE n = Len(sent)
  <2> DEFINE p == Packets(sent, n)
  <2>1. p \in Seq(Seq(Bytes)) /\ Len(p) = Len(sent) - n /\ Len(sent) \in Nat
    BY <1>0, PacketsFacts
  <2> HIDE DEF p
  <2>2. Len(p) = 0 /\ p = <<>>
    BY <1>2, <2>1, EmptySeq, SMT
  <2>3. wire = <<>>
    BY <1>1, <2>2, FlattenIsJoined DEF Splits, p
  <2>4. Len(wire) = 0
    BY <2>3, EmptySeq
  <2> QED BY <2>4, SMT
<1>3. CASE n # Len(sent)
  BY <1>0, <1>1, <1>3, PacketsFirst DEF Splits
<1> QED BY <1>2, <1>3

\* What is stored of a message without looking at the index fits.
LEMMA MessageStaysInside ==
  ASSUME TypeOK, Intact, DeliveredIntact, ~torn, LoopRead
  PROVE  Intact'
<1>1. Extent(wire) \in 1 .. Len(wire)
  BY DEF LoopRead
<1>2. PICK m \in Messages, rest \in Seq(Bytes) : wire = Publication(m) \o rest
  BY <1>1, FirstIsMessage
<1> DEFINE P == Publication(m)
           none == <<>>
<1>3. SubSeq(wire, 1, Extent(wire)) = P
  BY <1>2, PublicationIsTaken, Zenon
<1>4. P \in Seq(Bytes) /\ IsPublish(P) /\ LengthDigits(P) \in 1 .. 3
  <2>1. P \in Seq(Bytes) /\ none \in Seq(Bytes) /\ P = P \o none
    <3>1. P \in Seq(Bytes)
      BY PublicationParts
    <3> HIDE DEF P
    <3> QED BY <3>1, SMT
  <2>2. IsPublish(P) /\ LengthDigits(P) = Digits(BodyLength(m))
    <3> HIDE DEF none
    <3> QED BY <2>1, PublicationIsTaken, Zenon
  <2>3. Digits(BodyLength(m)) \in 1 .. 3
    BY MessageFacts
  <2> QED BY <2>1, <2>2, <2>3
<1> HIDE DEF P
<1>5. Unchecked(P) \in 0 .. Len(P) /\ Unchecked(P) <= 6
  <2> DEFINE d == LengthDigits(P)
             l == Len(P)
             u == Unchecked(P)
  <2>1. u = IF d = 0 \/ l < 1 + d + 2 THEN l ELSE 1 + d + 2
    BY <1>4 DEF Unchecked
  <2>2. u \in 0 .. l /\ d \in 1 .. 3 /\ l \in Nat
    BY <1>4, UncheckedType
  <2> HIDE DEF d, l, u
  <2>3. u <= 6
    BY <2>1, <2>2, SMT
  <2> QED BY <2>2, <2>3 DEF u, l
<1>6. buffer' = Stored(buffer, P)
  BY <1>3 DEF LoopRead
<1>7. DOMAIN Stored(buffer, P) = 0 .. MaxPacket - 1 \cup 0 .. Unchecked(P) - 1
  BY <1>4, WholeBuffer, StoredType
<1>8. 0 .. MaxPacket - 1 \cup 0 .. Unchecked(P) - 1 = 0 .. MaxPacket - 1
  <2> DEFINE u == Unchecked(P)
  <2>1. u \in Int /\ u <= 6
    BY <1>5, SMT
  <2> HIDE DEF u
  <2>2. 0 .. MaxPacket - 1 \cup 0 .. u - 1 = 0 .. MaxPacket - 1
    BY <2>1, MaxFacts, SMT
  <2> QED BY <2>2 DEF u
<1> QED BY <1>6, <1>7, <1>8 DEF Intact

LEMMA InsideStep ==
  IInv /\ DeliveredIntact /\ WritesStayInside /\ [Next]_vars => WritesStayInside'
<1> SUFFICES ASSUME IInv, DeliveredIntact, WritesStayInside, [Next]_vars PROVE WritesStayInside'
  OBVIOUS
<1>0. TypeOK
  BY DEF IInv
<1>1. CASE Intact /\ UNCHANGED buffer
  BY <1>1 DEF Intact, WritesStayInside
<1>2. CASE Intact /\ LoopRead
  <2>1. torn' = torn
    BY <1>2 DEF LoopRead
  <2> QED BY <1>0, <1>2, <2>1, MessageStaysInside DEF WritesStayInside
<1>3. ASSUME NEW k, LoopGiveUp(k) PROVE WritesStayInside'
  BY <1>3 DEF LoopGiveUp, WritesStayInside
<1>4. CASE Intact /\ CallbackReturn
  BY <1>4, StepReturn DEF WritesStayInside
<1>5. ASSUME NEW text \in Texts, Intact,
             Publish(text) \/ PublishP(text) \/ Republish(text.topic) \/ Subscribe(text.topic)
      PROVE  WritesStayInside'
  BY <1>5, StepPublish, StepPublishP, StepRepublish, StepSubscribe DEF WritesStayInside
<1>6. CASE Intact /\ Reconnect
  BY <1>1, <1>6 DEF Reconnect
<1>7. ASSUME NEW m \in Messages, Intact, BrokerSend(m) PROVE WritesStayInside'
  BY <1>1, <1>7 DEF BrokerSend
<1>8. CASE PowerCycle
  <2>1. DOMAIN buffer' = 0 .. MaxPacket - 1
    BY <1>8 DEF PowerCycle
  <2> QED BY <2>1 DEF WritesStayInside, Intact
<1>9. CASE UNCHANGED vars
  BY <1>9 DEF vars, calls, history, WritesStayInside, Intact
<1> QED BY <1>2, <1>3, <1>4, <1>5, <1>6, <1>7, <1>8, <1>9 DEF Next, Loop, Application

\* Until a read gives up, the callback gets the messages that fit, whole and in
\* order, and what is under way is the rest: for every buffer, every base of the
\* length field and every message whose length readPacket() can compute.
THEOREM MessagesAreDelivered == Spec => []DeliveredIntact
<1>1. Init => DeliveredIntact
  <2> SUFFICES ASSUME Init PROVE DeliveredIntact
    OBVIOUS
  <2>1. sent = <<>> /\ given = <<>> /\ wire = <<>>
    BY DEF Init
  <2>2. 0 \in 0 .. Len(sent) /\ Splits(0)
    BY <2>1, NothingSent DEF Splits
  <2> QED BY <2>2, SplitsMeans
<1>2. IInv => TypeOK
  BY DEF IInv
<1> QED BY <1>1, <1>2, Inductive, DeliveredStep, PTL DEF Spec

\* For every size of the buffer and every message, no write of a read that finds its
\* packet, of publish() or of an acknowledgement leaves the buffer; subscribe() goes
\* one byte past it for its longest topic, publish_P() for a topic too long, and a
\* read after one that gave up.
THEOREM WritesAreInside == Spec => []WritesStayInside
<1>1. Init => WritesStayInside
  BY DEF Init, WritesStayInside, Intact
<1> QED BY <1>1, Inductive, MessagesAreDelivered, InsideStep, PTL DEF Spec
=============================================================================
