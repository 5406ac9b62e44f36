--------------------------- MODULE PsPathProofs ----------------------------
(***************************************************************************)
(* Proofs about PsPath, for any sizes of headers, PES packets and buffer,  *)
(* any frames and any cutting into RTP payloads: without loss the demuxer  *)
(* returns what was muxed, its buffer is bounded, and the search for the   *)
(* next entity drops none that has arrived but one after a torn one.       *)
(***************************************************************************)
EXTENDS PsPath, FiniteSetTheorems, SequenceTheorems, WellFoundedInduction, TLAPS

\* A set of naturals that is not empty has a least element.
LEMMA LeastNatural ==
  ASSUME NEW T \in SUBSET Nat, T # {}
  PROVE  \E x \in T : \A y \in T : x <= y
<1> DEFINE R == OpToRel(<, Nat)
<1>1. IsWellFoundedOn(R, Nat)
  BY NatLessThanWellFounded, Zenon
<1> HIDE DEF R
<1>2. PICK x \in T : \A y \in T : ~ (<<y, x>> \in R)
  BY <1>1, WFMin, Zenon
<1>3. \A y \in T : <<y, x>> \in R <=> y < x
  BY DEF R, OpToRel
<1>4. \A y \in T : ~ (y < x)
  BY <1>2, <1>3, Zenon
<1>5. \A y \in T : x <= y
  BY <1>4
<1> QED BY <1>5

\* Such a function exists.
LEMMA EndsExists ==
  ASSUME NEW s \in Seq(Nat)
  PROVE  \E e : e = [k \in 0 .. Len(s) |-> IF k = 0 THEN 0 ELSE e[k - 1] + s[k]]
<1> DEFINE P(n) == \E e \in [0 .. n -> Nat] : e[0] = 0 /\ \A k \in 1 .. n : e[k] = e[k - 1] + s[k]
           T == {n \in 0 .. Len(s) : ~ P(n)}
<1>1. Len(s) \in Nat /\ \A k \in 1 .. Len(s) : s[k] \in Nat
  OBVIOUS
<1>2. T = {}
  <2> SUFFICES ASSUME T # {} PROVE FALSE
    BY Zenon
  <2>0. T \in SUBSET Nat
    BY <1>1
  <2>1. PICK n \in T : \A m \in T : n <= m
    <3> HIDE DEF T
    <3> QED BY <2>0, LeastNatural, Zenon
  <2>2. n \in 0 .. Len(s) /\ ~ P(n) /\ \A m \in 0 .. Len(s) : m < n => P(m)
    <3>1. \A m \in 0 .. Len(s) : m < n => m \notin T
      <4> HIDE DEF T
      <4> QED BY <1>1, <2>0, <2>1
    <3> HIDE DEF P
    <3> QED BY <3>1
  <2>3. n # 0
    <3>1. P(0)
      <4> WITNESS [k \in 0 .. 0 |-> 0] \in [0 .. 0 -> Nat]
      <4> QED OBVIOUS
    <3> QED BY <2>2, <3>1, Zenon
  <2>4. P(n - 1)
    <3>1. n - 1 \in 0 .. Len(s) /\ n - 1 < n
      BY <1>1, <2>2, <2>3
    <3> HIDE DEF P
    <3> QED BY <2>2, <3>1
  <2>5. PICK e \in [0 .. n - 1 -> Nat] : e[0] = 0 /\ \A k \in 1 .. n - 1 : e[k] = e[k - 1] + s[k]
    BY <2>4, Zenon
  <2> DEFINE f == [k \in 0 .. n |-> IF k = n THEN e[n - 1] + s[n] ELSE e[k]]
  <2>6. n \in Nat /\ n >= 1 /\ s[n] \in Nat /\ e[n - 1] \in Nat
    BY <1>1, <2>2, <2>3, <2>5
  <2>7. f \in [0 .. n -> Nat]
    BY <2>5, <2>6
  <2>8. f[0] = 0 /\ f[n] = e[n - 1] + s[n] /\ \A k \in 0 .. n - 1 : f[k] = e[k]
    BY <2>5, <2>6
  <2> HIDE DEF f
  <2>9. \A k \in 1 .. n : f[k] = f[k - 1] + s[k]
    <3> SUFFICES ASSUME NEW k \in 1 .. n PROVE f[k] = f[k - 1] + s[k]
      OBVIOUS
    <3>1. k - 1 \in 0 .. n - 1 /\ (k = n \/ k \in 1 .. n - 1)
      BY <2>6
    <3>2. CASE k = n
      BY <2>8, <3>1, <3>2
    <3>3. CASE k \in 1 .. n - 1
      <4>1. k \in 0 .. n - 1
        BY <3>3
      <4> QED BY <2>5, <2>8, <3>1, <3>3, <4>1, Zenon
    <3> QED BY <3>1, <3>2, <3>3
  <2>10. P(n)
    BY <2>7, <2>8, <2>9, Zenon
  <2> QED BY <2>2, <2>10, Zenon
<1>3. P(Len(s))
  <2> HIDE DEF P
  <2> QED BY <1>1, <1>2
<1>4. PICK e \in [0 .. Len(s) -> Nat] : e[0] = 0 /\ \A k \in 1 .. Len(s) : e[k] = e[k - 1] + s[k]
  BY <1>3
<1>5. \A k \in 0 .. Len(s) : e[k] = IF k = 0 THEN 0 ELSE e[k - 1] + s[k]
  BY <1>1, <1>4
<1>6. e = [k \in 0 .. Len(s) |-> IF k = 0 THEN 0 ELSE e[k - 1] + s[k]]
  BY <1>4, <1>5
<1> QED BY <1>6

\* What Ends computes.
LEMMA EndsStep ==
  ASSUME NEW s \in Seq(Nat)
  PROVE  /\ Ends(s)[0] = 0
         /\ \A k \in 1 .. Len(s) : Ends(s)[k] = Ends(s)[k - 1] + s[k]
<1> DEFINE F(e) == [k \in 0 .. Len(s) |-> IF k = 0 THEN 0 ELSE e[k - 1] + s[k]]
<1>1. \E e : e = F(e)
  BY EndsExists
<1>2. Ends(s) = CHOOSE e : e = F(e)
  BY DEF Ends
<1>3. Ends(s) = F(Ends(s))
  BY <1>1, <1>2, Zenon
<1>4. Len(s) \in Nat
  OBVIOUS
<1>5. \A k \in 0 .. Len(s) : Ends(s)[k] = IF k = 0 THEN 0 ELSE Ends(s)[k - 1] + s[k]
  <2> DEFINE E == Ends(s)
  <2>1. E = F(E)
    BY <1>3, Zenon
  <2> HIDE DEF E
  <2>2. \A k \in 0 .. Len(s) : E[k] = IF k = 0 THEN 0 ELSE E[k - 1] + s[k]
    BY <2>1, Zenon
  <2> QED BY <2>2 DEF E
<1> QED BY <1>4, <1>5

\* Sums of numbers are numbers and do not decrease.
LEMMA SumsGrow ==
  ASSUME NEW n \in Nat, NEW e, NEW s, e[0] = 0,
         \A k \in 1 .. n : e[k] = e[k - 1] + s[k] /\ s[k] \in Nat
  PROVE  /\ \A k \in 0 .. n : e[k] \in Nat
         /\ \A i, j \in 0 .. n : i <= j => e[i] <= e[j]
<1>1. n \in Nat /\ e[0] = 0 /\ \A k \in 1 .. n : e[k] = e[k - 1] + s[k] /\ s[k] \in Nat
  OBVIOUS
<1>2. \A k \in 0 .. n : e[k] \in Nat
  <2> DEFINE T == {k \in 0 .. n : e[k] \notin Nat}
  <2> SUFFICES ASSUME T # {} PROVE FALSE
    OBVIOUS
  <2>0. T \in SUBSET Nat
    BY <1>1
  <2>1. PICK k \in T : \A m \in T : k <= m
    <3> HIDE DEF T
    <3> QED BY <2>0, LeastNatural
  <2>2. k \in 1 .. n /\ k - 1 \in 0 .. n
    BY <1>1
  <2>3. e[k - 1] \in Nat
    BY <1>1, <2>0, <2>1, <2>2
  <2>4. e[k] \notin Nat
    OBVIOUS
  <2> HIDE DEF T
  <2> QED BY <1>1, <2>2, <2>3, <2>4
<1>3. ASSUME NEW i \in 0 .. n PROVE \A j \in 0 .. n : i <= j => e[i] <= e[j]
  <2> DEFINE T == {j \in 0 .. n : i <= j /\ ~ (e[i] <= e[j])}
  <2> SUFFICES ASSUME T # {} PROVE FALSE
    OBVIOUS
  <2>0. T \in SUBSET Nat
    BY <1>1
  <2>1. PICK j \in T : \A m \in T : j <= m
    <3> HIDE DEF T
    <3> QED BY <2>0, LeastNatural
  <2>2. j \in 1 .. n /\ j - 1 \in 0 .. n /\ i <= j - 1
    <3>1. j # i
      BY <1>1, <1>2
    <3> QED BY <1>1, <3>1
  <2>3. e[i] <= e[j - 1]
    BY <1>1, <2>0, <2>1, <2>2
  <2>4. ~ (e[i] <= e[j])
    OBVIOUS
  <2>5. e[j] = e[j - 1] + s[j] /\ s[j] \in Nat /\ e[i] \in Nat /\ e[j - 1] \in Nat
    <3> HIDE DEF T
    <3> QED BY <1>1, <1>2, <2>2
  <2> HIDE DEF T
  <2> QED BY <2>3, <2>4, <2>5
<1> QED BY <1>2, <1>3

\* Ends are numbers that do not decrease.
LEMMA EndsGrow ==
  ASSUME NEW s \in Seq(Nat)
  PROVE  /\ \A k \in 0 .. Len(s) : Ends(s)[k] \in Nat
         /\ \A i, j \in 0 .. Len(s) : i <= j => Ends(s)[i] <= Ends(s)[j]
<1> DEFINE e == Ends(s)
           n == Len(s)
<1>1. n \in Nat /\ e[0] = 0 /\ \A k \in 1 .. n : e[k] = e[k - 1] + s[k] /\ s[k] \in Nat
  BY EndsStep
<1> HIDE DEF e, n
<1>2. /\ \A k \in 0 .. n : e[k] \in Nat
      /\ \A i, j \in 0 .. n : i <= j => e[i] <= e[j]
  BY <1>1, SumsGrow, Zenon
<1> QED BY <1>2 DEF e, n

\* A length in parts of m.
LEMMA RoundUp ==
  ASSUME NEW a \in Nat, NEW m \in Nat \ {0}
  PROVE  LET n == (a + m - 1) \div m IN
         n \in Nat /\ \A k \in 1 .. n : (k - 1) * m \in Nat /\ k * m = (k - 1) * m + m
                                        /\ (k - 1) * m < a
<1> DEFINE b == a + m - 1
           n == b \div m
<1>1. b \in Nat
  OBVIOUS
<1> HIDE DEF b
<1>2. n \in Nat /\ n * m <= b
  BY <1>1
<1> HIDE DEF n
<1>3. ASSUME NEW k \in 1 .. n
      PROVE  (k - 1) * m \in Nat /\ k * m = (k - 1) * m + m /\ (k - 1) * m < a
  <2>1. (k - 1) * m \in Nat /\ k * m \in Nat /\ n * m \in Nat
    BY <1>2
  <2>2. k * m = (k - 1) * m + m
    BY <1>2
  <2>3. k * m <= n * m
    BY <1>2
  <2> QED BY <1>2, <2>1, <2>2, <2>3 DEF b
<1> QED BY <1>2, <1>3 DEF n, b

----------------------------------------------------------------------------
\* The program stream.

PsSpec == PsInit /\ [][PsNext]_psVars

PsTracks == {"v", "a"}
PsEntities ==
  [kind : {"pack", "system"}, lo : {0}, hi : {0}]
    \cup [kind : {"map"}, lo : {0}, hi : {0}, tracks : SUBSET PsTracks]
    \cup {e \in [kind : {"pes"}, track : PsTracks, frame : Nat, open : BOOLEAN, lo : Nat, hi : Nat] :
            e.lo < e.hi}
PsBytes == Nat \X Nat
WireBytes == (1 .. Len(psEnts)) \X Nat
PsReturned == [ent : Nat, bytes : Seq(PsBytes), typed : BOOLEAN]

PsBase ==
  /\ psPlan \in PsPlans /\ psMuxed \in Nat
  /\ psMux \in [tracks : SUBSET PsTracks, aac : BOOLEAN, pending : BOOLEAN]
  /\ psEnts \in Seq(PsEntities) /\ psWire \in Seq(WireBytes)
  /\ psHead \in Nat /\ psFed \in Nat /\ psHurt \in Nat
  /\ psHead <= psFed /\ psFed <= Len(psWire) /\ psFed - psHead <= MaxBuf
  /\ psPos \in Nat /\ psHead + psPos <= psFed

IsMap(t, m) == psEnts[m].kind = "map" /\ t \in psEnts[m].tracks

\* A map with its track goes before every PES packet.
PsMapped ==
  /\ \A j \in 1 .. Len(psEnts) : psEnts[j].kind = "pes" => \E m \in 1 .. j - 1 : IsMap(psEnts[j].track, m)
  /\ ~ psMux.pending => \A t \in psMux.tracks : \E m \in 1 .. Len(psEnts) : IsMap(t, m)

\* Where the entities end on a wire that has lost nothing.
Layout(end) ==
  /\ end \in [0 .. Len(psEnts) -> Nat] /\ end[0] = 0
  /\ \A i \in 1 .. Len(psEnts) : end[i] = end[i - 1] + Size(psEnts[i])
  /\ Len(psWire) = end[Len(psEnts)]
  /\ \A i \in 1 .. Len(psEnts) : \A j \in 1 .. Size(psEnts[i]) : psWire[end[i - 1] + j] = <<i, j - 1>>

\* The PES packet returned last.
LastReturned == IF psOut = << >> THEN 0 ELSE psOut[Len(psOut)].ent

\* h entities are done.
Through(h) ==
  /\ psOut \in Seq(PsReturned)
  /\ LastReturned <= h /\ \A j \in LastReturned + 1 .. h : psEnts[j].kind # "pes"
  /\ \A j \in 1 .. h : psEnts[j].kind = "map" => psEnts[j].tracks \subseteq psTypes

Lossless(end, h) ==
  h \in 0 .. Len(psEnts) /\ Layout(end) /\ psHead = end[h] /\ psPos = 0 /\ Through(h)

\* The inductive invariant.
PsInv ==
  /\ PsBase /\ PsMapped /\ PsPacketsExact
  /\ psHurt = 0 => \E end, h : Lossless(end, h)

\* The entities.
LEMMA EntityFacts ==
  ASSUME NEW e \in PsEntities
  PROVE  /\ e.lo \in Nat /\ e.hi \in Nat /\ e.lo <= e.hi /\ HeadLen \in Nat /\ HeadLen >= 4
         /\ Size(e) \in Nat /\ Size(e) >= HeadLen /\ Size(e) = HeadLen + (e.hi - e.lo)
         /\ e.kind = "pes" => Size(e) > HeadLen /\ e.track \in PsTracks /\ e.open \in BOOLEAN
<1>1. e.lo \in Nat /\ e.hi \in Nat /\ e.lo <= e.hi /\ (e.kind = "pes" => e.lo < e.hi)
  BY DEF PsEntities
<1>2. e.kind = "pes" => e.track \in PsTracks /\ e.open \in BOOLEAN
  BY DEF PsEntities
<1>3. HeadLen \in Nat /\ HeadLen >= 4
  BY PsSizes
<1> QED BY <1>1, <1>2, <1>3 DEF Size

\* Nothing is written at first.
LEMMA PsStart == PsInit => PsInv
<1> SUFFICES ASSUME PsInit PROVE PsInv
  OBVIOUS
<1>1. PsBase
  BY PsSizes DEF PsInit, PsBase
<1>2. PsMapped /\ PsPacketsExact
  BY DEF PsInit, PsMapped, PsPacketsExact
<1>3. Lossless([i \in 0 .. 0 |-> 0], 0)
  <2>1. psEnts = << >> /\ psWire = << >> /\ psHead = 0 /\ psPos = 0 /\ psOut = << >>
    BY DEF PsInit
  <2> QED BY <2>1 DEF Lossless, Layout, Through, LastReturned
<1> QED BY <1>1, <1>2, <1>3 DEF PsInv

\* Without loss the buffer begins with an entity.
LEMMA AtFront ==
  ASSUME PsBase, NEW end, NEW h, Lossless(end, h), Avail >= HeadLen
  PROVE  /\ h + 1 \in 1 .. Len(psEnts) /\ h \in Nat /\ Len(psEnts) \in Nat
         /\ psEnts[h + 1] \in PsEntities
         /\ \A k \in 1 .. Size(psEnts[h + 1]) : At(k) = <<h + 1, k - 1>>
         /\ psPos = 0 /\ PesAt = 1 /\ Body = HeadLen + 1
         /\ Intact /\ StartCode(1) /\ Owner(1) = h + 1 /\ Ent(1) = psEnts[h + 1]
         /\ psHead + Size(psEnts[h + 1]) = end[h + 1]
<1>0. psPos = 0 /\ PesAt = 1 /\ Body = HeadLen + 1
  BY PsSizes DEF Lossless, PesAt, Body
<1>1. /\ h \in Nat /\ Len(psEnts) \in Nat /\ h <= Len(psEnts) /\ psHead = end[h] /\ psHead < Len(psWire)
      /\ Len(psWire) = end[Len(psEnts)] /\ HeadLen \in Nat /\ HeadLen >= 4
  BY PsSizes DEF PsBase, Lossless, Layout, Avail
<1>2. h + 1 \in 1 .. Len(psEnts)
  <2>1. h # Len(psEnts)
    BY <1>1 DEF PsBase
  <2> QED BY <1>1, <2>1
<1>3. psEnts[h + 1] \in PsEntities
  BY <1>2 DEF PsBase
<1>4. Size(psEnts[h + 1]) \in Nat /\ Size(psEnts[h + 1]) >= HeadLen
  BY <1>3, EntityFacts
<1>5. \A k \in 1 .. Size(psEnts[h + 1]) : At(k) = <<h + 1, k - 1>>
  <2>1. (h + 1) - 1 = h
    BY <1>1
  <2> QED BY <1>1, <1>2, <2>1, Zenon DEF Lossless, Layout, At
<1>6. At(1) = <<h + 1, 0>> /\ At(2) = <<h + 1, 1>> /\ At(3) = <<h + 1, 2>> /\ At(4) = <<h + 1, 3>>
  <2>1. {1, 2, 3, 4} \subseteq 1 .. Size(psEnts[h + 1])
    BY <1>1, <1>4
  <2>2. 1 - 1 = 0 /\ 2 - 1 = 1 /\ 3 - 1 = 2 /\ 4 - 1 = 3
    OBVIOUS
  <2> QED BY <1>5, <2>1, <2>2
<1>7. Owner(1) = h + 1 /\ Ent(1) = psEnts[h + 1]
  <2>1. 1 + 3 = 4
    OBVIOUS
  <2> QED BY <1>6, <2>1 DEF Owner, Ent
<1>8. Intact
  <2> SUFFICES ASSUME NEW j \in 0 .. HeadLen - 1 PROVE At(1 + j) = <<h + 1, j>>
    BY <1>0, <1>7 DEF Intact
  <2>1. 1 + j \in 1 .. Size(psEnts[h + 1]) /\ (1 + j) - 1 = j
    BY <1>1, <1>4
  <2>2. At(1 + j) = <<h + 1, (1 + j) - 1>>
    BY <1>5, <2>1, Zenon
  <2> QED BY <2>1, <2>2
<1>9. StartCode(1)
  <2>1. /\ 1 + 3 = 4 /\ 1 + 1 = 2 /\ 1 + 2 = 3 /\ 4 <= Avail
    BY <1>1 DEF PsBase, Avail
  <2> QED BY <1>6, <2>1 DEF StartCode, Prefix, Zero, One, Id
<1>10. psHead + Size(psEnts[h + 1]) = end[h + 1]
  BY <1>1, <1>2 DEF Lossless, Layout
<1> QED BY <1>0, <1>1, <1>2, <1>3, <1>5, <1>7, <1>8, <1>9, <1>10

\* The search steps over a start code only if a torn one is directly before it.
LEMMA StepsOverAfterTorn ==
  ASSUME NEW from \in Nat, NEW k \in Nat, SteppedOver(from, k)
  PROVE  k - from >= 3 /\ Torn(k - 3)
<1> DEFINE run == {m \in 1 .. (k - from) \div 3 : \A j \in 1 .. m : Torn(k - 3 * j)}
<1>1. Cardinality(run) % 2 = 1
  BY DEF SteppedOver
<1>2. run # {}
  <2> SUFFICES ASSUME run = {} PROVE FALSE
    OBVIOUS
  <2>1. Cardinality(run) = 0
    BY FS_EmptySet
  <2> HIDE DEF run
  <2> QED BY <1>1, <2>1
<1>3. PICK m \in 1 .. (k - from) \div 3 : \A j \in 1 .. m : Torn(k - 3 * j)
  BY <1>2
<1>4. 1 \in 1 .. m /\ k - 3 * 1 = k - 3
  OBVIOUS
<1>5. Torn(k - 3)
  BY <1>3, <1>4
<1>6. k - from >= 3
  <2> DEFINE d == k - from
  <2>1. d \in Int /\ d \div 3 >= 1
    OBVIOUS
  <2> HIDE DEF d
  <2>2. d >= 3
    BY <2>1
  <2> QED BY <2>2 DEF d
<1> QED BY <1>5, <1>6

\* The least of a set of numbers.
LEMMA LeastChosen ==
  ASSUME NEW T \in SUBSET Nat, T # {}
  PROVE  Least(T) \in T /\ \A j \in T : Least(T) <= j
BY LeastNatural, Zenon DEF Least

\* What the search finds lies between where it began and the end of the buffer.
LEMMA FoundInside ==
  ASSUME PsBase, NEW from \in Nat, find_start_code(from) # {}
  PROVE  /\ Least(find_start_code(from)) \in find_start_code(from)
         /\ \A j \in find_start_code(from) : Least(find_start_code(from)) <= j
         /\ Least(find_start_code(from)) \in from .. Avail
<1>1. find_start_code(from) \in SUBSET Nat /\ \A k \in find_start_code(from) : k \in from .. Avail
  BY DEF find_start_code
<1>2. /\ Least(find_start_code(from)) \in find_start_code(from)
      /\ \A j \in find_start_code(from) : Least(find_start_code(from)) <= j
  BY <1>1, LeastChosen, Zenon
<1> QED BY <1>1, <1>2, Zenon

\* A PES packet that can be taken ends where the next entity begins.
LEMMA FrontEnds ==
  ASSUME PsBase, NEW end, NEW h, Lossless(end, h), CanTake
  PROVE  payload_end = Size(psEnts[h + 1]) /\ Size(psEnts[h + 1]) <= Avail
<1> DEFINE e == psEnts[h + 1]
           z == Size(e)
<1>0. Avail >= HeadLen
  BY PsSizes DEF CanTake, Headed, Lossless
<1>1. /\ Ent(1) = e /\ Intact /\ PesAt = 1 /\ Body = HeadLen + 1 /\ psPos = 0
      /\ \A k \in 1 .. z : At(k) = <<h + 1, k - 1>>
      /\ e \in PsEntities /\ h \in Nat /\ Len(psEnts) \in Nat /\ h + 1 <= Len(psEnts)
      /\ psHead + z = end[h + 1]
  BY <1>0, AtFront
<1>2. /\ e.kind = "pes"
      /\ IF e.open THEN find_start_code(Body) # {} ELSE Avail >= psPos + z
  BY <1>1 DEF CanTake
<1>3. /\ z \in Nat /\ z > HeadLen /\ HeadLen \in Nat /\ HeadLen >= 4 /\ Avail \in Nat /\ psHead \in Nat
      /\ e.open \in BOOLEAN
  BY <1>1, <1>2, EntityFacts DEF PsBase, Avail
<1>4. CASE ~ e.open
  BY <1>1, <1>2, <1>3, <1>4 DEF payload_end
<1>5. CASE e.open
  <2> DEFINE F == find_start_code(Body)
  <2>1. /\ F # {} /\ Least(F) \in F /\ \A j \in F : Least(F) <= j
        /\ Least(F) \in Nat
    <3>1. Body \in Nat
      BY <1>1, <1>3
    <3> QED BY <1>1, <1>2, <1>3, <1>5, <3>1, FoundInside
  <2>2. \A k \in F : k \in Nat /\ k > z /\ k + 3 <= Avail
    <3> SUFFICES ASSUME NEW k \in F PROVE k \in Nat /\ k > z /\ k + 3 <= Avail
      OBVIOUS
    <3>1. k \in HeadLen + 1 .. Avail /\ Zero(k) /\ (StartCode(k) \/ StartCode(k + 1))
      BY <1>1 DEF find_start_code, StartCode, Prefix
    <3>2. k + 3 <= Avail
      BY <1>3, <3>1 DEF StartCode, Prefix
    <3>3. ASSUME k <= z PROVE FALSE
      <4>1. k \in 1 .. z /\ k - 1 # 0 /\ k - 1 # 1
        BY <1>3, <3>1, <3>3
      <4>2. At(k) = <<h + 1, k - 1>>
        BY <1>1, <4>1
      <4>3. At(k)[2] \in {0, 1}
        BY <3>1 DEF Zero
      <4> QED BY <4>1, <4>2, <4>3
    <3> HIDE DEF z
    <3> QED BY <1>3, <3>1, <3>2, <3>3
  <2>3. z + 1 \in F
    <3>1. z + 4 <= Avail /\ z + 1 \in Body .. Avail
      <4>1. PICK k \in F : k \in Nat /\ k > z /\ k + 3 <= Avail
        BY <2>1, <2>2
      <4> HIDE DEF z
      <4> QED BY <1>1, <1>3, <4>1
    <3>2. h + 2 \in 1 .. Len(psEnts) /\ (h + 2) - 1 = h + 1
      <4>1. Len(psWire) = end[Len(psEnts)] /\ end[h + 1] < Len(psWire) /\ Len(psWire) \in Nat
        <5>1. Len(psWire) = end[Len(psEnts)]
          BY DEF Lossless, Layout
        <5>2. psFed \in Nat /\ psFed <= Len(psWire) /\ Len(psWire) \in Nat /\ Avail = psFed - psHead
          BY DEF PsBase, Avail
        <5> HIDE DEF z
        <5>3. psHead + z < psFed
          BY <1>3, <3>1, <5>2
        <5>4. psHead + z < Len(psWire)
          BY <1>3, <5>2, <5>3
        <5> QED BY <1>1, <5>1, <5>2, <5>4
      <4>2. h + 1 # Len(psEnts)
        BY <4>1
      <4> QED BY <1>1, <4>2
    <3>3. \A j \in 1 .. 4 : psWire[end[h + 1] + j] = <<h + 2, j - 1>>
      <4>1. psEnts[h + 2] \in PsEntities
        BY <3>2 DEF PsBase
      <4>2. Size(psEnts[h + 2]) \in Nat /\ Size(psEnts[h + 2]) >= 4
        BY <4>1, EntityFacts
      <4>3. \A j \in 1 .. 4 : j \in 1 .. Size(psEnts[h + 2])
        BY <4>2
      <4>4. \A j \in 1 .. Size(psEnts[h + 2]) : psWire[end[(h + 2) - 1] + j] = <<h + 2, j - 1>>
        BY <3>2, Zenon DEF Lossless, Layout
      <4> QED BY <3>2, <4>3, <4>4, Zenon
    <3>4. \A j \in 1 .. 4 : At(z + j) = <<h + 2, j - 1>>
      <4> SUFFICES ASSUME NEW j \in 1 .. 4 PROVE psWire[psHead + (z + j)] = <<h + 2, j - 1>>
        BY DEF At
      <4> HIDE DEF z
      <4>1. psHead + (z + j) = end[h + 1] + j
        BY <1>1, <1>3
      <4> QED BY <3>3, <4>1, Zenon
    <3>5. StartCode(z + 1)
      <4>1. /\ (z + 1) + 1 = z + 2 /\ (z + 1) + 2 = z + 3 /\ (z + 1) + 3 = z + 4
        BY <1>3
      <4>2. /\ At(z + 1)[2] = 0 /\ At(z + 2)[2] = 1 /\ At(z + 3)[2] = 2 /\ At(z + 4)[2] = 3
        <5>1. {1, 2, 3, 4} \subseteq 1 .. 4 /\ 1 - 1 = 0 /\ 2 - 1 = 1 /\ 3 - 1 = 2 /\ 4 - 1 = 3
          OBVIOUS
        <5> HIDE DEF z
        <5> QED BY <3>4, <5>1
      <4> HIDE DEF z
      <4> QED BY <3>1, <4>1, <4>2 DEF StartCode, Prefix, Zero, One, Id
    <3>6. ~ SteppedOver(Body, z + 1)
      <4> SUFFICES ASSUME SteppedOver(Body, z + 1) PROVE FALSE
        OBVIOUS
      <4>1. Body \in Nat /\ z + 1 \in Nat /\ (z + 1) - 3 = z - 2 /\ (z - 2) + 2 = z
        BY <1>1, <1>3
      <4>2. Torn(z - 2)
        BY <4>1, StepsOverAfterTorn
      <4>3. At(z)[2] = 2
        BY <4>1, <4>2 DEF Torn, Prefix, One
      <4>4. At(z) = <<h + 1, z - 1>> /\ z - 1 # 2
        BY <1>1, <1>3
      <4> QED BY <4>3, <4>4
    <3> QED BY <3>1, <3>5, <3>6 DEF find_start_code
  <2>4. Least(F) = z + 1
    <3> HIDE DEF z, F
    <3>1. Least(F) > z /\ Least(F) <= z + 1
      BY <2>1, <2>2, <2>3
    <3> QED BY <1>3, <2>1, <3>1
  <2>5. payload_end = (z + 1) - 1
    BY <1>1, <1>5, <2>4, Zenon DEF payload_end
  <2>6. z + 4 <= Avail
    <3> HIDE DEF z, F
    <3> QED BY <1>3, <2>2, <2>3
  <2> HIDE DEF z, F
  <2> QED BY <1>3, <2>5, <2>6 DEF z
<1> QED BY <1>3, <1>4, <1>5

\* A step that leaves the muxer and the wire alone keeps what is known of them.
LEMMA SameStream ==
  ASSUME PsInv, UNCHANGED <<psPlan, psMuxed, psMux, psEnts, psWire>>,
         psHead' \in Nat, psFed' \in Nat, psHurt' \in Nat,
         psHead' <= psFed', psFed' <= Len(psWire), psFed' - psHead' <= MaxBuf,
         psPos' \in Nat, psHead' + psPos' <= psFed'
  PROVE  /\ PsBase' /\ PsMapped'
         /\ \A end : Layout(end) => Layout(end)'
<1>1. PsBase'
  <2>1. WireBytes' = WireBytes
    BY DEF WireBytes
  <2> QED BY <2>1, Zenon DEF PsInv, PsBase
<1>2. PsMapped'
  BY DEF PsInv, PsMapped, IsMap
<1>3. \A end : Layout(end) => Layout(end)'
  BY Zenon DEF Layout, Size
<1> QED BY <1>1, <1>2, <1>3

\* Arithmetic of a buffer whose front moves on.
LEMMA FrontMoves ==
  ASSUME NEW h \in Nat, NEW g \in Nat, NEW f \in Nat, NEW m \in Nat, h <= g, g <= f, f - h <= m
  PROVE  f - g <= m
OBVIOUS

\* A step that only takes bytes from the buffer.
LEMMA HeadMoves ==
  ASSUME PsInv, UNCHANGED <<psPlan, psMuxed, psMux, psEnts, psWire, psFed, psHurt>>,
         psHead' \in Nat, psHead <= psHead', psHead' <= psFed,
         psPos' \in Nat, psHead' + psPos' <= psFed
  PROVE  /\ PsBase' /\ PsMapped'
         /\ \A end : Layout(end) => Layout(end)'
<1>1. /\ psHead \in Nat /\ psFed \in Nat /\ psFed <= Len(psWire) /\ psFed - psHead <= MaxBuf
      /\ MaxBuf \in Nat /\ psHurt \in Nat
  BY PsSizes DEF PsInv, PsBase
<1>2. psFed - psHead' <= MaxBuf
  <2>1. PICK g \in Nat : g = psHead'
    OBVIOUS
  <2>2. psFed - g <= MaxBuf
    BY <1>1, <2>1, FrontMoves, Zenon
  <2> QED BY <2>1, <2>2
<1>3. /\ psFed' \in Nat /\ psHurt' \in Nat /\ psHead' <= psFed' /\ psFed' <= Len(psWire)
      /\ psFed' - psHead' <= MaxBuf /\ psHead' + psPos' <= psFed'
  BY <1>1, <1>2, Zenon
<1> QED BY <1>3, SameStream

\* What is said of one PES packet that was returned.
ReturnedRight(k) ==
  LET i == psOut[k].ent
      before == IF k = 1 THEN 0 ELSE psOut[k - 1].ent
  IN /\ i \in before + 1 .. Len(psEnts) /\ psEnts[i].kind = "pes"
     /\ \A j \in before + 1 .. i - 1 : psEnts[j].kind # "pes"
     /\ psOut[k].bytes = [j \in 1 .. psEnts[i].hi - psEnts[i].lo |-> <<i, HeadLen + j - 1>>]
     /\ psOut[k].typed

\* PsPacketsExact, one packet that read_packet returned at a time.
LEMMA AllReturnedRight == PsPacketsExact <=> (psHurt = 0 => \A k \in DOMAIN psOut : ReturnedRight(k))
BY DEF PsPacketsExact, ReturnedRight

\* A step that returns nothing.
LEMMA SameOut ==
  ASSUME PsPacketsExact, UNCHANGED <<psEnts, psOut>>, psHurt' = 0 => psHurt = 0
  PROVE  PsPacketsExact'
<1>1. \A k : ReturnedRight(k)' <=> ReturnedRight(k)
  BY DEF ReturnedRight
<1>2. psHurt' = 0 => \A k \in DOMAIN psOut' : ReturnedRight(k)'
  BY <1>1, AllReturnedRight
<1>3. (psHurt' = 0 => \A k \in DOMAIN psOut' : ReturnedRight(k)') => PsPacketsExact'
  BY Zenon DEF PsPacketsExact, ReturnedRight
<1> QED BY <1>2, <1>3

\* Bytes arrive.
LEMMA PushStep == PsInv /\ ps_push => PsInv'
<1> SUFFICES ASSUME PsInv, ps_push PROVE PsInv'
  OBVIOUS
<1>0. PsBase
  BY DEF PsInv
<1>1. PICK n \in PsPieces :
        /\ psFed + n <= Len(psWire) /\ psFed' = psFed + n /\ psHead' = psHead + room(n)
        /\ psPos' = IF room(n) > 0 THEN 0 ELSE psPos
        /\ psHurt' = psHurt + (IF room(n) > 0 THEN 1 ELSE 0)
  BY DEF ps_push
<1>2. n \in 1 .. MaxBuf /\ MaxBuf \in Nat
  BY PsSizes
<1>3. /\ room(n) \in Nat /\ room(n) <= Avail /\ Avail + n - room(n) <= MaxBuf /\ Avail \in Nat
  BY <1>0, <1>2 DEF PsBase, room, Avail
<1>4. /\ psHead' \in Nat /\ psFed' \in Nat /\ psHurt' \in Nat /\ psHead' <= psFed'
      /\ psFed' <= Len(psWire) /\ psFed' - psHead' <= MaxBuf
      /\ psPos' \in Nat /\ psHead' + psPos' <= psFed'
      /\ psHurt' = 0 => psHurt = 0 /\ psHead' = psHead /\ psPos' = psPos
  <2> DEFINE q == room(n)
             av == Avail
  <2>1. /\ psHead \in Nat /\ psFed \in Nat /\ psHurt \in Nat /\ psHead <= psFed /\ n \in Nat /\ av = psFed - psHead
        /\ q \in Nat /\ q <= av /\ av + n - q <= MaxBuf /\ MaxBuf \in Nat
        /\ psFed' = psFed + n /\ psHead' = psHead + q /\ psHurt' = psHurt + (IF q > 0 THEN 1 ELSE 0)
        /\ psPos \in Nat /\ psHead + psPos <= psFed /\ psPos' = IF q > 0 THEN 0 ELSE psPos
    BY <1>0, <1>1, <1>2, <1>3 DEF PsBase, Avail
  <2> HIDE DEF q, av
  <2> QED BY <1>1, <2>1
<1>5. UNCHANGED <<psPlan, psMuxed, psMux, psEnts, psWire, psTypes, psOut>>
  BY DEF ps_push
<1>6. PsBase' /\ PsMapped' /\ \A end : Layout(end) => Layout(end)'
  BY <1>4, <1>5, SameStream
<1>7. PsPacketsExact'
  BY <1>4, <1>5, SameOut DEF PsInv
<1>8. ASSUME psHurt' = 0 PROVE \E end, h : Lossless(end, h)'
  <2>1. PICK end, h : Lossless(end, h)
    BY <1>4, <1>8 DEF PsInv
  <2>2. Lossless(end, h)'
    BY <1>4, <1>5, <1>6, <1>8, <2>1 DEF Lossless, Through, LastReturned
  <2> QED BY <2>2
<1> QED BY <1>6, <1>7, <1>8 DEF PsInv

\* Bytes are lost.
LEMMA LoseStep == PsInv /\ ps_lose => PsInv'
<1> SUFFICES ASSUME PsInv, ps_lose PROVE PsInv'
  OBVIOUS
<1>0. PsBase
  BY DEF PsInv
<1>1. PICK n \in PsPieces :
        /\ psFed + n <= Len(psWire)
        /\ psWire' = SubSeq(psWire, 1, psFed) \o SubSeq(psWire, psFed + n + 1, Len(psWire))
  BY Zenon DEF ps_lose
<1>2. n \in Nat /\ psWire \in Seq(WireBytes) /\ psFed \in Nat /\ psFed <= Len(psWire) /\ Len(psWire) \in Nat
  BY <1>0, PsSizes DEF PsBase
<1> DEFINE a == SubSeq(psWire, 1, psFed)
           b == SubSeq(psWire, psFed + n + 1, Len(psWire))
<1>3. a \in Seq(WireBytes) /\ Len(a) = psFed
  BY <1>2
<1>4. b \in Seq(WireBytes) /\ Len(b) \in Nat
  <2>1. \A i \in psFed + n + 1 .. Len(psWire) : psWire[i] \in WireBytes
    BY <1>2
  <2> QED BY <1>1, <1>2, <2>1
<1> HIDE DEF a, b
<1>5. psWire' \in Seq(WireBytes) /\ Len(psWire') = psFed + Len(b)
  BY <1>1, <1>3, <1>4 DEF a, b
<1>6. psHurt' \in Nat /\ psHurt' # 0
      /\ UNCHANGED <<psPlan, psMuxed, psMux, psEnts, psFed, psHead, psPos, psTypes, psOut>>
  BY <1>0 DEF ps_lose, PsBase
<1>7. PsBase'
  <2>1. WireBytes' = WireBytes
    BY <1>6 DEF WireBytes
  <2> QED BY <1>0, <1>2, <1>4, <1>5, <1>6, <2>1 DEF PsBase
<1>8. PsMapped'
  BY <1>6 DEF PsInv, PsMapped, IsMap
<1> QED BY <1>6, <1>7, <1>8 DEF PsInv, PsPacketsExact

\* A header is passed over.
LEMMA LeadingStep == PsInv /\ leading_header_len => PsInv'
<1> SUFFICES ASSUME PsInv, leading_header_len PROVE PsInv'
  OBVIOUS
<1>0. PsBase /\ CanSkip /\ HeadLen \in Nat /\ HeadLen >= 1 /\ psPos = 0
      /\ UNCHANGED <<psPlan, psMuxed, psMux, psEnts, psWire, psFed, psPos, psHurt, psOut>>
  BY PsSizes DEF PsInv, leading_header_len
<1>1. psHead' \in Nat /\ psHead' <= psFed /\ psHead' >= psHead
  <2>1. psHead \in Nat /\ psFed \in Nat /\ psHead <= psFed /\ Avail = psFed - psHead /\ Avail >= HeadLen
    BY <1>0 DEF CanSkip, Headed, Avail, PsBase
  <2>2. \E n \in HeadLen .. Avail : psHead' = psHead + n
    BY <1>0, <2>1 DEF leading_header_len
  <2> QED BY <1>0, <2>1, <2>2
<1>2. PsBase' /\ PsMapped' /\ \A end : Layout(end) => Layout(end)'
  <2>1. psPos' \in Nat /\ psHead' + psPos' <= psFed
    BY <1>0, <1>1
  <2> QED BY <1>0, <1>1, <2>1, HeadMoves
<1>3. PsPacketsExact'
  BY <1>0, SameOut DEF PsInv
<1>4. ASSUME psHurt' = 0 PROVE \E end, h : Lossless(end, h)'
  <2>1. PICK end, h : Lossless(end, h)
    BY <1>0, <1>4 DEF PsInv
  <2>2. /\ h + 1 \in 1 .. Len(psEnts) /\ h \in Nat /\ Len(psEnts) \in Nat /\ Intact
        /\ Ent(PesAt) = psEnts[h + 1] /\ psEnts[h + 1] \in PsEntities /\ psEnts[h + 1].kind # "pes"
        /\ psHead + Size(psEnts[h + 1]) = end[h + 1]
    BY <1>0, <2>1, AtFront DEF CanSkip, Headed
  <2>3. Size(psEnts[h + 1]) = HeadLen
    BY <1>0, <2>2 DEF PsEntities, Size
  <2>4. psHead' = end[h + 1] /\ psTypes' = psTypes \cup parse_program_stream_map(psEnts[h + 1])
    BY <2>2, <2>3 DEF leading_header_len
  <2>5. Through(h + 1)'
    <3>1. \A j \in 1 .. h + 1 : j \in 1 .. h \/ j = h + 1
      BY <2>2
    <3>2. LastReturned' = LastReturned
      BY <1>0 DEF LastReturned
    <3>3. /\ psOut \in Seq(PsReturned) /\ LastReturned \in Nat /\ LastReturned <= h
          /\ \A j \in LastReturned + 1 .. h : psEnts[j].kind # "pes"
          /\ \A j \in 1 .. h : psEnts[j].kind = "map" => psEnts[j].tracks \subseteq psTypes
      <4>1. psOut \in Seq(PsReturned)
        BY <2>1 DEF Lossless, Through
      <4>2. LastReturned \in Nat
        <5>1. CASE psOut = << >>
          BY <5>1 DEF LastReturned
        <5>2. CASE psOut # << >>
          <6>1. psOut[Len(psOut)] \in PsReturned
            BY <4>1, <5>2
          <6>2. psOut[Len(psOut)].ent \in Nat
            BY <6>1 DEF PsReturned
          <6> QED BY <5>2, <6>2 DEF LastReturned
        <5> QED BY <5>1, <5>2
      <4> QED BY <2>1, <4>1, <4>2 DEF Lossless, Through
    <3>4. LastReturned <= h + 1 /\ \A j \in LastReturned + 1 .. h + 1 : psEnts[j].kind # "pes"
      BY <2>2, <3>3
    <3>5. \A j \in 1 .. h + 1 : psEnts[j].kind = "map" => psEnts[j].tracks \subseteq psTypes'
      BY <2>4, <3>1, <3>3 DEF parse_program_stream_map
    <3> QED BY <1>0, <3>2, <3>3, <3>4, <3>5 DEF Through
  <2>6. Lossless(end, h + 1)'
    <3>1. h + 1 \in 0 .. Len(psEnts')
      BY <1>0, <2>2
    <3> QED BY <1>0, <1>2, <2>1, <2>4, <2>5, <3>1 DEF Lossless
  <2> QED BY <2>6
<1> QED BY <1>2, <1>3, <1>4 DEF PsInv

\* An error moves the front of the buffer, and never past its end.
LEMMA ResyncMoves ==
  ASSUME PsBase, Avail >= 1, Resync
  PROVE  /\ psHead' \in Nat /\ psHead <= psHead' /\ psHead' <= psFed
         /\ psPos' \in Nat /\ psHead' + psPos' <= psFed
<1> DEFINE next == find_start_code(1)
           c == Least(next)
<1>0. psHead \in Nat /\ psFed \in Nat /\ psHead <= psFed /\ Avail = psFed - psHead /\ Avail \in Nat
  BY DEF PsBase, Avail
<1>1. /\ psHead' = IF next = {} THEN psFed ELSE psHead + (IF c = 1 THEN 1 ELSE c - 1)
      /\ psPos' = 0
  BY DEF Resync
<1>2. next # {} => c \in 1 .. Avail
  BY FoundInside
<1> HIDE DEF next, c
<1> QED BY <1>0, <1>1, <1>2

\* What is dropped had arrived.
LEMMA Dropped ==
  ASSUME NEW h \in Nat, NEW g \in Nat, NEW f \in Nat, g <= f, NEW k \in 1 .. g - h
  PROVE  k \in 1 .. f - h /\ k \in Nat
OBVIOUS

\* Where no start code is at the front, an error drops no whole start code but one
\* after a torn one.
LEMMA ResyncSkips ==
  ASSUME PsBase, Avail >= 1, Resync, ~ StartCode(1)
  PROVE  \A k \in 1 .. psHead' - psHead : StartCode(k) => k > 3 /\ Torn(k - 3)
<1> DEFINE next == find_start_code(1)
           c == Least(next)
<1>0. psHead \in Nat /\ psFed \in Nat /\ psHead <= psFed /\ Avail = psFed - psHead /\ Avail \in Nat
  BY DEF PsBase, Avail
<1>1. psHead' = IF next = {} THEN psFed ELSE psHead + (IF c = 1 THEN 1 ELSE c - 1)
  BY DEF Resync
<1>2. next # {} => c \in 1 .. Avail /\ \A j \in next : c <= j
  BY FoundInside
<1> SUFFICES ASSUME NEW k \in 1 .. psHead' - psHead, StartCode(k) PROVE k > 3 /\ Torn(k - 3)
  OBVIOUS
<1>3. psHead' \in Nat /\ psHead' <= psFed /\ psHead <= psHead'
  BY ResyncMoves
<1>4. k \in 1 .. Avail /\ k \in Nat /\ k # 1
  <2>1. k # 1
    BY Zenon
  <2>2. k \in 1 .. Avail /\ k \in Nat
    BY <1>0, <1>3, Dropped, Zenon
  <2> QED BY <2>1, <2>2
<1>5. k \notin next
  <2> SUFFICES ASSUME k \in next PROVE FALSE
    OBVIOUS
  <2>1. next # {} /\ c \in 1 .. Avail /\ c <= k
    BY <1>2
  <2> HIDE DEF next, c
  <2>2. psHead' - psHead = IF c = 1 THEN 1 ELSE c - 1
    BY <1>0, <1>1, <2>1
  <2> QED BY <1>4, <2>1, <2>2
<1>6. SteppedOver(1, k)
  BY <1>4, <1>5 DEF find_start_code
<1>7. k - 1 >= 3 /\ Torn(k - 3)
  BY <1>4, <1>6, StepsOverAfterTorn
<1> QED BY <1>4, <1>7

\* Without loss there is nothing to search.
LEMMA ResyncStep == PsInv /\ ps_resync => PsInv'
<1> SUFFICES ASSUME PsInv, ps_resync PROVE PsInv'
  OBVIOUS
<1>0. PsBase /\ MustResync /\ UNCHANGED <<psPlan, psMuxed, psMux, psEnts, psWire, psFed, psHurt, psTypes, psOut>>
  BY DEF PsInv, ps_resync
<1>1. /\ psHead' \in Nat /\ psHead <= psHead' /\ psHead' <= psFed
      /\ psPos' \in Nat /\ psHead' + psPos' <= psFed
  <2>1. Avail >= 1
    BY <1>0, PsSizes DEF MustResync, PsBase, Avail
  <2> QED BY <1>0, <2>1, ResyncMoves DEF ps_resync
<1>2. PsBase' /\ PsMapped'
  BY <1>0, <1>1, HeadMoves
<1>3. psHurt # 0
  <2>1. ASSUME NEW end, NEW h, Lossless(end, h) PROVE FALSE
    <3>1. PesAt = 1 /\ StartCode(1)
      BY <1>0, <2>1, AtFront DEF MustResync
    <3> QED BY <1>0, <3>1 DEF MustResync, StartCode
  <2> QED BY <2>1 DEF PsInv
<1> QED BY <1>0, <1>2, <1>3 DEF PsInv, PsPacketsExact

\* An unknown start code, and what is passed over after it: only after a loss.
LEMMA PassStep == PsInv /\ (skip_unknown \/ skip_header) => PsInv'
<1> SUFFICES ASSUME PsInv, skip_unknown \/ skip_header PROVE PsInv'
  OBVIOUS
<1>0. /\ PsBase
      /\ UNCHANGED <<psPlan, psMuxed, psMux, psEnts, psWire, psFed, psHead, psHurt, psTypes, psOut>>
  BY DEF PsInv, skip_unknown, skip_header
<1>1. /\ psHead \in Nat /\ psFed \in Nat /\ psPos \in Nat /\ psHead + psPos <= psFed /\ Avail \in Nat
      /\ Avail = psFed - psHead /\ HeadLen \in Nat /\ HeadLen >= 4
  BY <1>0, PsSizes DEF PsBase, Avail
<1>2. psPos' \in Nat /\ psHead' + psPos' <= psFed
  <2>1. CASE skip_unknown
    <3>1. PesAt + 4 \in Nat /\ PesAt + 4 >= 1
      BY <1>1 DEF PesAt
    <3>2. psPos' = Least(find_start_code(PesAt + 4)) - 1 /\ find_start_code(PesAt + 4) # {}
      BY <2>1 DEF skip_unknown, CanPass
    <3>3. Least(find_start_code(PesAt + 4)) \in PesAt + 4 .. Avail
      BY <1>0, <3>1, <3>2, FoundInside
    <3> QED BY <1>0, <1>1, <3>1, <3>2, <3>3
  <2>2. CASE skip_header
    <3>1. Avail >= psPos + HeadLen
      BY <2>2 DEF skip_header, CanSkip, Headed
    <3>2. \E n \in HeadLen .. Avail - psPos : psPos' = psPos + n
      BY <1>1, <2>2, <3>1 DEF skip_header
    <3> QED BY <1>0, <1>1, <3>2
  <2> QED BY <2>1, <2>2
<1>3. PsBase' /\ PsMapped'
  <2>1. psHead' \in Nat /\ psHead <= psHead' /\ psHead' <= psFed
    BY <1>0, <1>1
  <2> QED BY <1>0, <1>2, <2>1, HeadMoves
<1>4. psHurt # 0
  <2>1. ASSUME NEW end, NEW h, Lossless(end, h) PROVE FALSE
    <3>1. psPos = 0
      BY <2>1 DEF Lossless
    <3>2. Avail >= HeadLen /\ Torn(PesAt)
      BY <3>1 DEF skip_unknown, skip_header, CanPass
    <3>3. PesAt = 1 /\ StartCode(1)
      BY <1>0, <2>1, <3>2, AtFront
    <3> QED BY <3>2, <3>3 DEF Torn, StartCode
  <2> QED BY <2>1 DEF PsInv
<1> QED BY <1>0, <1>3, <1>4 DEF PsInv, PsPacketsExact

\* The id of a start code belongs to some entity.
LEMMA FrontEntity ==
  ASSUME PsBase, Headed
  PROVE  Ent(PesAt) \in PsEntities
<1>1. psHead + (PesAt + 3) \in 1 .. Len(psWire)
  BY PsSizes DEF PsBase, Avail, Headed, PesAt
<1>2. psWire[psHead + (PesAt + 3)] \in WireBytes
  BY <1>1 DEF PsBase
<1>3. Owner(PesAt) \in 1 .. Len(psEnts)
  BY <1>2 DEF WireBytes, Owner, At
<1> QED BY <1>3 DEF PsBase, Ent

\* A packet that is taken has arrived.
LEMMA TakeMoves ==
  ASSUME PsBase, parse_one_pes
  PROVE  /\ psHead' \in Nat /\ psHead <= psHead' /\ psHead' <= psFed
         /\ psPos' \in Nat /\ psHead' + psPos' <= psFed
<1>0. /\ psHead \in Nat /\ psFed \in Nat /\ psHead <= psFed /\ Avail = psFed - psHead /\ Avail \in Nat
      /\ psPos \in Nat /\ HeadLen \in Nat /\ HeadLen >= 1 /\ CanTake /\ Headed /\ Avail >= psPos + HeadLen
  BY PsSizes DEF PsBase, Avail, parse_one_pes, CanTake, Headed
<1>1. ASSUME NEW n \in 1 .. Avail - psPos, TakePes(n)
      PROVE  /\ psHead' \in Nat /\ psHead <= psHead' /\ psHead' <= psFed
             /\ psPos' \in Nat /\ psHead' + psPos' <= psFed
  <2>1. psHead' = psHead + psPos + n /\ psPos' = 0
    BY <1>1 DEF TakePes
  <2> QED BY <1>0, <2>1
<1>2. CASE ~ Intact
  <2>1. Resync \/ \E n \in HeadLen .. Avail - psPos : TakePes(n)
    BY <1>2, Zenon DEF parse_one_pes
  <2>2. CASE Resync
    BY <1>0, <2>2, ResyncMoves
  <2>3. ASSUME NEW n \in HeadLen .. Avail - psPos, TakePes(n) PROVE n \in 1 .. Avail - psPos
    BY <1>0, <2>3
  <2> QED BY <1>1, <2>1, <2>2, <2>3
<1>3. CASE Intact
  <2>1. TakePes(payload_end)
    BY <1>3 DEF parse_one_pes
  <2>2. Ent(PesAt) \in PsEntities
    BY <1>0, FrontEntity
  <2>3. payload_end \in 1 .. Avail - psPos
    <3>1. CASE Ent(PesAt).open
      <4>1. find_start_code(Body) # {} /\ Body \in Nat /\ Body = psPos + 1 + HeadLen /\ PesAt = psPos + 1
        BY <1>0, <1>3, <3>1 DEF CanTake, Body, PesAt
      <4>2. Least(find_start_code(Body)) \in Body .. Avail
        BY <4>1, FoundInside
      <4>3. payload_end = Least(find_start_code(Body)) - PesAt
        BY <3>1 DEF payload_end
      <4> QED BY <1>0, <4>1, <4>2, <4>3
    <3>2. CASE ~ Ent(PesAt).open
      <4>1. Size(Ent(PesAt)) \in Nat /\ Size(Ent(PesAt)) >= HeadLen
        BY <2>2, EntityFacts
      <4>2. Avail >= psPos + Size(Ent(PesAt)) /\ payload_end = Size(Ent(PesAt))
        BY <1>3, <3>2 DEF CanTake, payload_end, parse_one_pes
      <4> QED BY <1>0, <4>1, <4>2
    <3> QED BY <3>1, <3>2
  <2> QED BY <1>1, <2>1, <2>3
<1> QED BY <1>2, <1>3

\* The number of the packet returned last.
LEMMA LastNumber ==
  ASSUME psOut \in Seq(PsReturned)
  PROVE  LastReturned \in Nat
<1>1. CASE psOut = << >>
  BY <1>1 DEF LastReturned
<1>2. CASE psOut # << >>
  <2>1. psOut[Len(psOut)] \in PsReturned
    BY <1>2
  <2>2. psOut[Len(psOut)].ent \in Nat
    BY <2>1 DEF PsReturned
  <2> QED BY <1>2, <2>2 DEF LastReturned
<1> QED BY <1>1, <1>2

\* A part of a sequence.
LEMMA Slice ==
  ASSUME NEW S, NEW w \in Seq(S), NEW a \in Nat, NEW l \in Nat, a + l <= Len(w)
  PROVE  SubSeq(w, a + 1, a + l) = [j \in 1 .. l |-> w[a + j]]
<1>1. SubSeq(w, a + 1, a + l) = [j \in 1 .. l |-> w[(a + 1) + j - 1]]
  OBVIOUS
<1>2. \A j \in 1 .. l : (a + 1) + j - 1 = a + j
  OBVIOUS
<1> QED BY <1>1, <1>2

\* Without loss, the packet that is taken is the next one, with its payload.
LEMMA TakeExact ==
  ASSUME PsInv, parse_one_pes, NEW end, NEW h, Lossless(end, h)
  PROVE  LET e == psEnts[h + 1]
             r == [ent |-> h + 1, bytes |-> [j \in 1 .. e.hi - e.lo |-> <<h + 1, HeadLen + j - 1>>],
                   typed |-> TRUE]
         IN /\ h \in Nat /\ h + 1 \in 1 .. Len(psEnts) /\ e.kind = "pes"
            /\ psHead' = end[h + 1] /\ psPos' = 0
            /\ r \in PsReturned /\ psOut' = Append(psOut, r)
<1> DEFINE e == psEnts[h + 1]
           z == Size(e)
           p == [j \in 1 .. e.hi - e.lo |-> <<h + 1, HeadLen + j - 1>>]
           bytes == SubSeq(psWire, psHead + HeadLen + 1, psHead + payload_end)
<1>0. PsBase /\ CanTake /\ Avail >= HeadLen
  BY PsSizes DEF PsInv, parse_one_pes, CanTake, Headed, Lossless
<1>1. /\ h + 1 \in 1 .. Len(psEnts) /\ h \in Nat /\ e \in PsEntities /\ e.kind = "pes"
      /\ \A k \in 1 .. z : At(k) = <<h + 1, k - 1>>
      /\ Intact /\ Ent(PesAt) = e /\ Owner(PesAt) = h + 1 /\ psHead + z = end[h + 1] /\ psPos = 0
  BY <1>0, AtFront DEF CanTake
<1>2. payload_end = z /\ z <= Avail
  BY <1>0, FrontEnds
<1>3. /\ e.lo \in Nat /\ e.hi \in Nat /\ HeadLen \in Nat /\ z \in Nat /\ z > HeadLen
      /\ z = HeadLen + (e.hi - e.lo) /\ e.lo <= e.hi
      /\ psHead \in Nat /\ psHead + z <= Len(psWire) /\ Len(psWire) \in Nat
  <2>1. /\ e.lo \in Nat /\ e.hi \in Nat /\ HeadLen \in Nat /\ z \in Nat /\ z > HeadLen
        /\ z = HeadLen + (e.hi - e.lo) /\ e.lo <= e.hi
    BY <1>1, EntityFacts
  <2> HIDE DEF z, e
  <2> QED BY <1>0, <1>2, <2>1 DEF PsBase, Avail
<1>4. bytes = p /\ p \in Seq(PsBytes)
  <2> DEFINE l == e.hi - e.lo
  <2>0. l \in Nat /\ z = HeadLen + l
    BY <1>3
  <2>1. \A j \in 1 .. l : psWire[psHead + HeadLen + j] = <<h + 1, HeadLen + j - 1>>
    <3> SUFFICES ASSUME NEW j \in 1 .. l PROVE psWire[psHead + HeadLen + j] = <<h + 1, HeadLen + j - 1>>
      OBVIOUS
    <3> HIDE DEF l, z, e
    <3>1. /\ HeadLen + j \in 1 .. z /\ psHead + (HeadLen + j) = psHead + HeadLen + j
          /\ (HeadLen + j) - 1 = HeadLen + j - 1
      BY <1>3, <2>0
    <3>2. \A k \in 1 .. z : psWire[psHead + k] = <<h + 1, k - 1>>
      BY <1>1 DEF At
    <3>3. psWire[psHead + (HeadLen + j)] = <<h + 1, (HeadLen + j) - 1>>
      BY <3>1, <3>2
    <3> QED BY <3>1, <3>3, Zenon
  <2>2. bytes = SubSeq(psWire, (psHead + HeadLen) + 1, (psHead + HeadLen) + l)
    <3> HIDE DEF l, z, e
    <3>1. psHead + payload_end = (psHead + HeadLen) + l
      <4>1. payload_end = HeadLen + l
        BY <1>2, <2>0
      <4>2. psHead \in Nat /\ HeadLen \in Nat /\ l \in Nat
        BY <1>3, <2>0
      <4>3. psHead + (HeadLen + l) = (psHead + HeadLen) + l
        BY <4>2
      <4> QED BY <4>1, <4>3, Zenon
    <3> QED BY <3>1, Zenon
  <2> HIDE DEF bytes
  <2>3. p = [j \in 1 .. l |-> <<h + 1, HeadLen + j - 1>>]
    OBVIOUS
  <2>4. \A j \in 1 .. l : <<h + 1, HeadLen + j - 1>> \in PsBytes
    <3> SUFFICES ASSUME NEW j \in 1 .. l PROVE <<h + 1, HeadLen + j - 1>> \in PsBytes
      OBVIOUS
    <3> HIDE DEF l, z, e
    <3>1. h + 1 \in Nat /\ HeadLen + j - 1 \in Nat
      BY <1>1, <1>3, <2>0
    <3> QED BY <3>1 DEF PsBytes
  <2> HIDE DEF l, z, e, p
  <2>5. p \in Seq(PsBytes)
    BY <2>0, <2>3, <2>4
  <2>6. psWire \in Seq(WireBytes)
    BY <1>0 DEF PsBase
  <2>7. bytes = [j \in 1 .. l |-> psWire[(psHead + HeadLen) + j]]
    <3>1. psHead + HeadLen \in Nat /\ (psHead + HeadLen) + l <= Len(psWire)
      BY <1>3, <2>0
    <3> QED BY <2>0, <2>2, <2>6, <3>1, Slice
  <2>8. [j \in 1 .. l |-> psWire[(psHead + HeadLen) + j]] = [j \in 1 .. l |-> <<h + 1, HeadLen + j - 1>>]
    BY <2>1
  <2> QED BY <2>3, <2>5, <2>7, <2>8
<1>5. e.track \in psTypes
  <2>1. PICK m \in 1 .. h : IsMap(e.track, m)
    BY <1>1 DEF PsInv, PsMapped
  <2> QED BY <2>1 DEF IsMap, Lossless, Through
<1>6. psHead' = psHead + payload_end /\ psPos' = 0
      /\ psOut' = Append(psOut, [ent |-> Owner(PesAt), bytes |-> bytes, typed |-> Ent(PesAt).track \in psTypes])
  <2>1. TakePes(payload_end)
    BY <1>1 DEF parse_one_pes
  <2>2. /\ psHead + psPos + HeadLen + 1 = psHead + HeadLen + 1
        /\ psHead + psPos + payload_end = psHead + payload_end
    <3> HIDE DEF z, e
    <3> QED BY <1>1, <1>2, <1>3
  <2> QED BY <2>1, <2>2, Zenon DEF TakePes
<1>7. psOut' = Append(psOut, [ent |-> h + 1, bytes |-> p, typed |-> TRUE])
  <2>1. (Ent(PesAt).track \in psTypes) = TRUE
    BY <1>1, <1>5
  <2> QED BY <1>1, <1>4, <1>6, <2>1, Zenon
<1>8. [ent |-> h + 1, bytes |-> p, typed |-> TRUE] \in PsReturned
  <2>1. h + 1 \in Nat /\ p \in Seq(PsBytes) /\ TRUE \in BOOLEAN
    BY <1>1, <1>4
  <2> HIDE DEF p
  <2> QED BY <2>1 DEF PsReturned
<1>9. psHead' = end[h + 1]
  BY <1>1, <1>2, <1>6
<1> QED BY <1>1, <1>6, <1>7, <1>8, <1>9

\* A PES packet is returned.
LEMMA TakeStep == PsInv /\ parse_one_pes => PsInv'
<1> SUFFICES ASSUME PsInv, parse_one_pes PROVE PsInv'
  OBVIOUS
<1>0. PsBase /\ UNCHANGED <<psPlan, psMuxed, psMux, psEnts, psWire, psFed, psHurt, psTypes>>
  BY DEF PsInv, parse_one_pes
<1>1. /\ psHead' \in Nat /\ psHead <= psHead' /\ psHead' <= psFed
      /\ psPos' \in Nat /\ psHead' + psPos' <= psFed
  BY <1>0, TakeMoves
<1>2. PsBase' /\ PsMapped' /\ \A end : Layout(end) => Layout(end)'
  BY <1>0, <1>1, HeadMoves
<1>3. ASSUME psHurt' = 0
      PROVE  (\A k \in DOMAIN psOut' : ReturnedRight(k)') /\ \E end, h : Lossless(end, h)'
  <2>1. PICK end, h : Lossless(end, h)
    BY <1>0, <1>3 DEF PsInv
  <2> DEFINE e == psEnts[h + 1]
             p == [j \in 1 .. e.hi - e.lo |-> <<h + 1, HeadLen + j - 1>>]
             r == [ent |-> h + 1, bytes |-> p, typed |-> TRUE]
  <2>2. /\ h \in Nat /\ h + 1 \in 1 .. Len(psEnts) /\ e.kind = "pes" /\ psHead' = end[h + 1] /\ psPos' = 0
        /\ r \in PsReturned /\ psOut' = Append(psOut, r)
    BY <2>1, TakeExact, Zenon
  <2>3. /\ psOut \in Seq(PsReturned) /\ LastReturned \in Nat /\ LastReturned <= h /\ Len(psEnts) \in Nat
        /\ \A j \in LastReturned + 1 .. h : psEnts[j].kind # "pes"
        /\ \A j \in 1 .. h : psEnts[j].kind = "map" => psEnts[j].tracks \subseteq psTypes
    <3>1. psOut \in Seq(PsReturned)
      BY <2>1 DEF Lossless, Through
    <3>2. LastReturned \in Nat
      BY <3>1, LastNumber
    <3>3. Len(psEnts) \in Nat
      BY <1>0 DEF PsBase
    <3> QED BY <2>1, <3>1, <3>2, <3>3 DEF Lossless, Through
  <2>n. PICK n : n = Len(psOut)
    BY Zenon
  <2>4. r.ent = h + 1 /\ r.bytes = p /\ r.typed
    OBVIOUS
  <2> HIDE DEF r
  <2>5. /\ n \in Nat /\ Len(psOut') = n + 1 /\ DOMAIN psOut' = 1 .. n + 1 /\ psOut' \in Seq(PsReturned)
        /\ psOut'[n + 1] = r /\ \A k \in 1 .. n : psOut'[k] = psOut[k]
    <3> HIDE DEF p
    <3> QED BY <2>n, <2>2, <2>3
  <2>6. \A k \in 1 .. n : ReturnedRight(k)'
    <3> SUFFICES ASSUME NEW k \in 1 .. n PROVE ReturnedRight(k)'
      OBVIOUS
    <3>1. ReturnedRight(k)
      BY <1>0, <1>3, <2>n, <2>3, AllReturnedRight DEF PsInv
    <3>2. psOut'[k] = psOut[k] /\ (k # 1 => psOut'[k - 1] = psOut[k - 1])
      BY <2>5
    <3> QED BY <1>0, <3>1, <3>2 DEF ReturnedRight
  <2>7. ReturnedRight(n + 1)'
    <3>1. (IF n + 1 = 1 THEN 0 ELSE psOut'[(n + 1) - 1].ent) = LastReturned
      <4>1. CASE n = 0
        <5>1. psOut = << >>
          BY <2>n, <2>3, <4>1, EmptySeq, Zenon
        <5>2. n + 1 = 1 /\ LastReturned = 0
          BY <4>1, <5>1 DEF LastReturned
        <5> QED BY <5>2
      <4>2. CASE n # 0
        <5>1. psOut # << >> /\ (n + 1) - 1 = n /\ n + 1 # 1 /\ n \in 1 .. n
          BY <2>n, <2>3, <2>5, <4>2
        <5> QED BY <2>n, <2>5, <5>1 DEF LastReturned
      <4> QED BY <4>1, <4>2
    <3>2. h + 1 \in LastReturned + 1 .. Len(psEnts)
      BY <2>2, <2>3
    <3>3. \A j \in LastReturned + 1 .. (h + 1) - 1 : psEnts[j].kind # "pes"
      BY <2>2, <2>3
    <3> HIDE DEF p
    <3>4. psOut'[n + 1].ent = h + 1 /\ psOut'[n + 1].bytes = p /\ psOut'[n + 1].typed
      BY <2>4, <2>5
    <3> DEFINE i == psOut'[n + 1].ent
               before == IF n + 1 = 1 THEN 0 ELSE psOut'[(n + 1) - 1].ent
    <3>5. i = h + 1 /\ before = LastReturned /\ psEnts' = psEnts
      BY <1>0, <3>1, <3>4
    <3> HIDE DEF i, before
    <3>6. /\ i \in before + 1 .. Len(psEnts') /\ psEnts'[i].kind = "pes"
          /\ \A j \in before + 1 .. i - 1 : psEnts'[j].kind # "pes"
      BY <2>2, <3>2, <3>3, <3>5
    <3>7. psOut'[n + 1].bytes = [j \in 1 .. psEnts'[i].hi - psEnts'[i].lo |-> <<i, HeadLen + j - 1>>]
      BY <3>4, <3>5 DEF p
    <3> QED BY <3>4, <3>6, <3>7, Zenon DEF ReturnedRight, i, before
  <2>8. \A k \in DOMAIN psOut' : ReturnedRight(k)'
    <3>1. \A k \in 1 .. n + 1 : k \in 1 .. n \/ k = n + 1
      BY <2>5
    <3>2. \A k \in 1 .. n + 1 : ReturnedRight(k)'
      <4> SUFFICES ASSUME NEW k \in 1 .. n + 1 PROVE ReturnedRight(k)'
        OBVIOUS
      <4>1. CASE k \in 1 .. n
        BY <2>6, <4>1
      <4>2. CASE k = n + 1
        BY <2>7, <4>2, Zenon
      <4> QED BY <3>1, <4>1, <4>2
    <3> QED BY <2>5, <3>2, Zenon
  <2>9. Through(h + 1)'
    <3>1. LastReturned' = h + 1
      <4>1. psOut' # << >>
        BY <2>5
      <4> QED BY <2>4, <2>5, <4>1 DEF LastReturned
    <3>2. \A j \in (h + 1) + 1 .. h + 1 : FALSE
      BY <2>2
    <3>3. \A j \in 1 .. h + 1 : psEnts[j].kind = "map" => psEnts[j].tracks \subseteq psTypes
      <4>1. \A j \in 1 .. h + 1 : j \in 1 .. h \/ j = h + 1
        BY <2>2
      <4> QED BY <2>2, <2>3, <4>1
    <3>4. LastReturned' <= h + 1
      BY <2>2, <3>1
    <3>5. \A j \in LastReturned' + 1 .. h + 1 : psEnts[j].kind # "pes"
      BY <3>1, <3>2
    <3> QED BY <1>0, <2>5, <3>3, <3>4, <3>5 DEF Through
  <2>10. Lossless(end, h + 1)'
    <3>1. h + 1 \in 0 .. Len(psEnts')
      BY <1>0, <2>2, <2>3
    <3>2. Layout(end)'
      BY <1>2, <2>1 DEF Lossless
    <3> QED BY <2>2, <2>9, <3>1, <3>2 DEF Lossless
  <2> QED BY <2>8, <2>10
<1>4. (psHurt' = 0 => \A k \in DOMAIN psOut' : ReturnedRight(k)') => PsPacketsExact'
  BY Zenon DEF PsPacketsExact, ReturnedRight
<1> QED BY <1>2, <1>3, <1>4 DEF PsInv

\* Every place below the last end has an owner.
LEMMA OwnerExists ==
  ASSUME NEW n \in Nat, NEW end, end[0] = 0, \A k \in 0 .. n : end[k] \in Nat,
         NEW p \in 1 .. end[n]
  PROVE  \E k \in 1 .. n : end[k - 1] < p /\ p <= end[k]
<1> DEFINE T == {k \in 0 .. n : p <= end[k]}
<1>1. T \in SUBSET Nat /\ n \in T
  OBVIOUS
<1>2. PICK k \in T : \A m \in T : k <= m
  <2> HIDE DEF T
  <2> QED BY <1>1, LeastNatural
<1>3. k \in 0 .. n /\ p <= end[k] /\ k # 0
  OBVIOUS
<1>4. k - 1 \in 0 .. n /\ k \in 1 .. n /\ ~ (k <= k - 1)
  BY <1>3
<1>5. k - 1 \notin T
  <2> HIDE DEF T
  <2> QED BY <1>2, <1>4
<1>6. end[k - 1] < p
  <2>1. ~ (p <= end[k - 1]) /\ end[k - 1] \in Nat
    BY <1>4, <1>5
  <2> QED BY <2>1
<1> QED BY <1>3, <1>4, <1>6

\* The bytes of entities, one entity after the other.
LEMMA BytesOf ==
  ASSUME NEW from \in Nat, NEW ents \in Seq(PsEntities)
  PROVE  \E end \in [0 .. Len(ents) -> Nat] :
           /\ end[0] = 0
           /\ \A i \in 1 .. Len(ents) : end[i] = end[i - 1] + Size(ents[i])
           /\ EntityBytes(from, ents) \in Seq((from + 1 .. from + Len(ents)) \X Nat)
           /\ Len(EntityBytes(from, ents)) = end[Len(ents)]
           /\ \A i \in 1 .. Len(ents) : \A j \in 1 .. Size(ents[i]) :
                EntityBytes(from, ents)[end[i - 1] + j] = <<from + i, j - 1>>
<1> DEFINE n == Len(ents)
           sizes == [k \in DOMAIN ents |-> Size(ents[k])]
           E == Ends(sizes)
           at(p) == CHOOSE k \in DOMAIN ents : E[k - 1] < p /\ p <= E[k]
           B == EntityBytes(from, ents)
           S == (from + 1 .. from + n) \X Nat
<1>1. n \in Nat /\ DOMAIN ents = 1 .. n /\ \A k \in 1 .. n : ents[k] \in PsEntities
  OBVIOUS
<1>2. \A k \in 1 .. n : Size(ents[k]) \in Nat
  BY <1>1, EntityFacts
<1>3. sizes \in Seq(Nat) /\ Len(sizes) = n /\ \A k \in 1 .. n : sizes[k] = Size(ents[k])
  BY <1>1, <1>2
<1> HIDE DEF n, sizes
<1>4. /\ E[0] = 0 /\ \A k \in 1 .. n : E[k] = E[k - 1] + Size(ents[k])
      /\ \A k \in 0 .. n : E[k] \in Nat
      /\ \A i, j \in 0 .. n : i <= j => E[i] <= E[j]
  BY <1>3, EndsStep, EndsGrow, Zenon
<1>5. B = [p \in 1 .. E[n] |-> <<from + at(p), p - E[at(p) - 1] - 1>>]
  BY DEF EntityBytes, n, sizes
<1> HIDE DEF E, B
<1>6. \A p \in 1 .. E[n] : at(p) \in 1 .. n /\ E[at(p) - 1] < p /\ p <= E[at(p)]
  <2> SUFFICES ASSUME NEW p \in 1 .. E[n]
               PROVE  at(p) \in 1 .. n /\ E[at(p) - 1] < p /\ p <= E[at(p)]
    OBVIOUS
  <2>1. \E k \in 1 .. n : E[k - 1] < p /\ p <= E[k]
    BY <1>1, <1>4, OwnerExists
  <2> QED BY <1>1, <2>1
<1>7. ASSUME NEW i \in 1 .. n, NEW j \in 1 .. Size(ents[i])
      PROVE  E[i - 1] + j \in 1 .. E[n] /\ at(E[i - 1] + j) = i
  <2>1. /\ Size(ents[i]) \in Nat /\ j \in Nat /\ j >= 1 /\ j <= Size(ents[i]) /\ i \in 0 .. n /\ i - 1 \in 0 .. n
        /\ E[i] \in Nat /\ E[i - 1] \in Nat /\ E[n] \in Nat /\ E[i] <= E[n] /\ E[i] = E[i - 1] + Size(ents[i])
    BY <1>1, <1>2, <1>4
  <2>2. E[i - 1] + j \in 1 .. E[n] /\ E[i - 1] < E[i - 1] + j /\ E[i - 1] + j <= E[i]
    BY <2>1
  <2> DEFINE p == E[i - 1] + j
             k == at(p)
  <2> HIDE DEF p
  <2>3. p \in 1 .. E[n] /\ E[i - 1] < p /\ p <= E[i]
    BY <2>2 DEF p
  <2>4. k \in 1 .. n /\ E[k - 1] < p /\ p <= E[k]
    BY <1>6, <2>3
  <2> HIDE DEF k
  <2>5. ~ (k <= i - 1)
    <3> SUFFICES ASSUME k <= i - 1 PROVE FALSE
      OBVIOUS
    <3>1. E[k] <= E[i - 1] /\ E[k] \in Nat
      BY <1>1, <1>4, <2>1, <2>4
    <3> QED BY <2>1, <2>3, <2>4, <3>1
  <2>6. ~ (i <= k - 1)
    <3> SUFFICES ASSUME i <= k - 1 PROVE FALSE
      OBVIOUS
    <3>1. k - 1 \in 0 .. n
      BY <1>1, <2>4
    <3>2. E[i] <= E[k - 1] /\ E[k - 1] \in Nat
      BY <1>4, <2>1, <3>1
    <3> QED BY <2>1, <2>3, <2>4, <3>2
  <2>7. k = i
    BY <1>1, <2>1, <2>4, <2>5, <2>6
  <2> QED BY <2>2, <2>7 DEF k, p
<1> HIDE DEF at
<1>8. B \in Seq(S) /\ Len(B) = E[n]
  <2>1. E[n] \in Nat
    BY <1>1, <1>4
  <2>2. \A p \in 1 .. E[n] : <<from + at(p), p - E[at(p) - 1] - 1>> \in S
    <3> SUFFICES ASSUME NEW p \in 1 .. E[n] PROVE <<from + at(p), p - E[at(p) - 1] - 1>> \in S
      OBVIOUS
    <3>1. at(p) \in 1 .. n /\ E[at(p) - 1] < p
      BY <1>6
    <3>2. at(p) - 1 \in 0 .. n
      BY <1>1, <3>1
    <3>3. E[at(p) - 1] \in Nat
      BY <1>4, <3>2
    <3>4. p - E[at(p) - 1] - 1 \in Nat
      BY <2>1, <3>1, <3>3
    <3>5. from + at(p) \in from + 1 .. from + n
      BY <1>1, <3>1
    <3> QED BY <3>4, <3>5
  <2> HIDE DEF S
  <2> QED BY <1>5, <2>1, <2>2
<1>9. ASSUME NEW i \in 1 .. n, NEW j \in 1 .. Size(ents[i])
      PROVE  B[E[i - 1] + j] = <<from + i, j - 1>>
  <2>1. E[i - 1] + j \in 1 .. E[n] /\ at(E[i - 1] + j) = i
    BY <1>7
  <2>2. B[E[i - 1] + j] = <<from + i, (E[i - 1] + j) - E[i - 1] - 1>>
    BY <1>5, <2>1
  <2>3. E[i - 1] \in Nat /\ j \in Nat
    BY <1>1, <1>2, <1>4
  <2>4. (E[i - 1] + j) - E[i - 1] - 1 = j - 1
    BY <2>3
  <2> QED BY <2>2, <2>4
<1> DEFINE F == [k \in 0 .. n |-> E[k]]
<1>10. F \in [0 .. n -> Nat] /\ \A k \in 0 .. n : F[k] = E[k]
  BY <1>4
<1> HIDE DEF F
<1>11. \A i \in 1 .. n : i - 1 \in 0 .. n /\ i \in 0 .. n
  BY <1>1
<1>12. /\ F[0] = 0 /\ \A i \in 1 .. n : F[i] = F[i - 1] + Size(ents[i])
       /\ B \in Seq(S) /\ Len(B) = F[n]
       /\ \A i \in 1 .. n : \A j \in 1 .. Size(ents[i]) : B[F[i - 1] + j] = <<from + i, j - 1>>
  <2>1. F[0] = 0 /\ F[n] = E[n]
    BY <1>1, <1>4, <1>10
  <2>2. \A i \in 1 .. n : F[i] = F[i - 1] + Size(ents[i])
    BY <1>4, <1>10, <1>11, Zenon
  <2>3. \A i \in 1 .. n : F[i - 1] = E[i - 1]
    BY <1>10, <1>11
  <2>4. \A i \in 1 .. n : \A j \in 1 .. Size(ents[i]) : B[F[i - 1] + j] = <<from + i, j - 1>>
    BY <1>9, <2>3, Zenon
  <2> QED BY <1>8, <2>1, <2>2, <2>4, Zenon
<1> QED BY <1>10, <1>12, Zenon DEF n, B

\* The PES packets of a frame.
LEMMA PesPackets ==
  ASSUME PsBase, NEW i \in 1 .. Len(psPlan)
  PROVE  /\ pes_packets(i) \in Seq(PsEntities)
         /\ \A k \in 1 .. Len(pes_packets(i)) :
              pes_packets(i)[k].kind = "pes" /\ pes_packets(i)[k].track = psPlan[i].track
<1> DEFINE f == psPlan[i]
           a == FrameLen(f)
           n == (a + MaxPes - 1) \div MaxPes
           r(k) == [kind |-> "pes", track |-> f.track, frame |-> i, open |-> f.open,
                    lo |-> (k - 1) * MaxPes, hi |-> IF k = n THEN a ELSE k * MaxPes]
<1>1. f \in [track : {"v", "a"}, key : BOOLEAN, cfg : BOOLEAN, nals : Seq(Nat), open : BOOLEAN]
  <2> DEFINE R == [track : {"v", "a"}, key : BOOLEAN, cfg : BOOLEAN, nals : Seq(Nat), open : BOOLEAN]
  <2>1. psPlan \in Seq(R)
    BY PsSizes DEF PsBase
  <2> HIDE DEF R
  <2>2. psPlan[i] \in R
    BY <2>1
  <2> QED BY <2>2 DEF R
<1>2. f.nals \in Seq(Nat) /\ f.track \in PsTracks /\ f.open \in BOOLEAN
  BY <1>1 DEF PsTracks
<1>3. a \in Nat
  <2>1. Len(f.nals) \in 0 .. Len(f.nals)
    BY <1>2
  <2> QED BY <1>2, <2>1, EndsGrow DEF FrameLen
<1>4. pes_packets(i) = [k \in 1 .. n |-> r(k)]
  BY DEF pes_packets
<1>5. i \in Nat
  BY PsSizes DEF PsBase
<1>6. MaxPes \in Nat \ {0}
  BY PsSizes
<1> HIDE DEF f, a
<1>7. n \in Nat /\ \A k \in 1 .. n : (k - 1) * MaxPes \in Nat /\ k * MaxPes = (k - 1) * MaxPes + MaxPes
                                     /\ (k - 1) * MaxPes < a
  BY <1>3, <1>6, RoundUp
<1> HIDE DEF n
<1>8. ASSUME NEW k \in 1 .. n
      PROVE  r(k) \in PsEntities /\ r(k).kind = "pes" /\ r(k).track = f.track
  <2> DEFINE lo == (k - 1) * MaxPes
             hi == IF k = n THEN a ELSE k * MaxPes
  <2>1. lo \in Nat /\ hi \in Nat /\ lo < hi
    BY <1>3, <1>6, <1>7
  <2> HIDE DEF lo, hi
  <2>2. r(k) = [kind |-> "pes", track |-> f.track, frame |-> i, open |-> f.open, lo |-> lo, hi |-> hi]
    BY DEF lo, hi
  <2> HIDE DEF r
  <2>3. r(k) \in [kind : {"pes"}, track : PsTracks, frame : Nat, open : BOOLEAN, lo : Nat, hi : Nat]
    BY <1>2, <1>5, <2>1, <2>2
  <2>4. r(k).lo < r(k).hi
    BY <2>1, <2>2
  <2> QED BY <2>2, <2>3, <2>4 DEF PsEntities
<1> HIDE DEF r
<1>9. pes_packets(i) \in Seq(PsEntities) /\ Len(pes_packets(i)) = n
  BY <1>4, <1>7, <1>8
<1>10. \A k \in 1 .. n : pes_packets(i)[k] = r(k)
  BY <1>4
<1> QED BY <1>8, <1>9, <1>10 DEF f

\* Two sequences, one after the other.
LEMMA Joined ==
  ASSUME NEW S, NEW a \in Seq(S), NEW b \in Seq(S)
  PROVE  /\ a \o b \in Seq(S) /\ Len(a) \in Nat /\ Len(b) \in Nat /\ Len(a \o b) = Len(a) + Len(b)
         /\ \A j \in 1 .. Len(a) + Len(b) : (a \o b)[j] = IF j <= Len(a) THEN a[j] ELSE b[j - Len(a)]
OBVIOUS

\* Entities whose PES packets carry track t; with a map before the packets.
PacketsOf(X, t) == X \in Seq(PsEntities) /\ \A j \in 1 .. Len(X) : X[j].kind = "pes" => X[j].track = t
MapThenPackets(X, t, tracks) ==
  /\ PacketsOf(X, t) /\ \A j \in 1 .. Len(X) : X[j].kind = "pes" => j > 3
  /\ Len(X) >= 3 /\ X[3].kind = "map" /\ X[3].tracks = tracks

\* What mux_frame writes.
LEMMA WrittenEntities ==
  ASSUME NEW tracks \in SUBSET PsTracks, NEW t, NEW packets \in Seq(PsEntities),
         \A k \in 1 .. Len(packets) : packets[k].kind = "pes" /\ packets[k].track = t
  PROVE  /\ MapThenPackets(<<pack_header>> \o <<system_header, program_stream_map(tracks)>> \o packets,
                           t, tracks)
         /\ PacketsOf(<<pack_header>> \o << >> \o packets, t)
<1> DEFINE a == pack_header
           b == system_header
           c == program_stream_map(tracks)
<1>1. a \in PsEntities /\ b \in PsEntities /\ c \in PsEntities
  BY DEF pack_header, system_header, program_stream_map, PsEntities
<1>2. a.kind # "pes" /\ b.kind # "pes" /\ c.kind = "map" /\ c.tracks = tracks
  BY DEF pack_header, system_header, program_stream_map
<1> HIDE DEF a, b, c
<1>3. MapThenPackets(<<a>> \o <<b, c>> \o packets, t, tracks)
  <2> DEFINE x == <<a>>
             y == <<b, c>>
             head == x \o y
             ents == head \o packets
  <2>2. head \in Seq(PsEntities) /\ Len(head) = 3 /\ head[1] = a /\ head[2] = b /\ head[3] = c
    <3>1. /\ x \in Seq(PsEntities) /\ Len(x) = 1 /\ x[1] = a
          /\ y \in Seq(PsEntities) /\ Len(y) = 2 /\ y[1] = b /\ y[2] = c
      BY <1>1
    <3> HIDE DEF x, y
    <3>2. /\ x \o y \in Seq(PsEntities) /\ Len(x \o y) = Len(x) + Len(y)
          /\ \A j \in 1 .. Len(x) + Len(y) : (x \o y)[j] = IF j <= Len(x) THEN x[j] ELSE y[j - Len(x)]
      BY <3>1, Joined, Zenon
    <3> QED BY <3>1, <3>2
  <2> HIDE DEF head
  <2>3. /\ ents \in Seq(PsEntities) /\ Len(ents) = 3 + Len(packets) /\ Len(packets) \in Nat
        /\ \A j \in 1 .. Len(ents) : ents[j] = IF j <= 3 THEN head[j] ELSE packets[j - 3]
    <3>1. /\ head \o packets \in Seq(PsEntities) /\ Len(packets) \in Nat
          /\ Len(head \o packets) = Len(head) + Len(packets)
          /\ \A j \in 1 .. Len(head) + Len(packets) :
               (head \o packets)[j] = IF j <= Len(head) THEN head[j] ELSE packets[j - Len(head)]
      BY <2>2, Joined, Zenon
    <3> QED BY <2>2, <3>1
  <2> HIDE DEF ents
  <2>4. \A j \in 1 .. Len(ents) : j = 1 \/ j = 2 \/ j = 3 \/ (j > 3 /\ j - 3 \in 1 .. Len(packets))
    BY <2>3
  <2>5. ents[3] = c /\ Len(ents) >= 3
    BY <2>2, <2>3
  <2>6. \A j \in 1 .. Len(ents) : ents[j].kind = "pes" => ents[j].track = t /\ j > 3
    <3> SUFFICES ASSUME NEW j \in 1 .. Len(ents), ents[j].kind = "pes" PROVE ents[j].track = t /\ j > 3
      OBVIOUS
    <3>1. j # 1 /\ j # 2 /\ j # 3
      BY <1>2, <2>2, <2>3
    <3>2. j > 3 /\ j - 3 \in 1 .. Len(packets) /\ ents[j] = packets[j - 3]
      BY <2>3, <2>4, <3>1
    <3> QED BY <3>2
  <2>7. MapThenPackets(ents, t, tracks)
    BY <1>2, <2>3, <2>5, <2>6, Zenon DEF MapThenPackets, PacketsOf
  <2> QED BY <2>7 DEF ents, head
<1>4. PacketsOf(<<a>> \o << >> \o packets, t)
  <2> DEFINE head == <<a>> \o << >>
             ents == head \o packets
  <2>1. head = <<a>>
    OBVIOUS
  <2>2. head \in Seq(PsEntities) /\ Len(head) = 1 /\ head[1] = a
    BY <1>1, <2>1
  <2> HIDE DEF head
  <2>3. /\ ents \in Seq(PsEntities) /\ Len(ents) = 1 + Len(packets) /\ Len(packets) \in Nat
        /\ \A j \in 1 .. Len(ents) : ents[j] = IF j <= 1 THEN head[j] ELSE packets[j - 1]
    <3>1. /\ head \o packets \in Seq(PsEntities) /\ Len(packets) \in Nat
          /\ Len(head \o packets) = Len(head) + Len(packets)
          /\ \A j \in 1 .. Len(head) + Len(packets) :
               (head \o packets)[j] = IF j <= Len(head) THEN head[j] ELSE packets[j - Len(head)]
      BY <2>2, Joined, Zenon
    <3> QED BY <2>2, <3>1
  <2> HIDE DEF ents
  <2>4. \A j \in 1 .. Len(ents) : ents[j].kind = "pes" => ents[j].track = t
    <3> SUFFICES ASSUME NEW j \in 1 .. Len(ents), ents[j].kind = "pes" PROVE ents[j].track = t
      OBVIOUS
    <3>1. j # 1
      BY <1>2, <2>2, <2>3
    <3>2. j - 1 \in 1 .. Len(packets) /\ ents[j] = packets[j - 1]
      BY <2>3, <3>1
    <3> QED BY <3>2
  <2>5. PacketsOf(ents, t)
    BY <2>3, <2>4 DEF PacketsOf
  <2> QED BY <2>5 DEF ents, head
<1> QED BY <1>3, <1>4 DEF a, b, c

\* Where the places of an entity are, given where the entities end.
LEMMA PlacesInside ==
  ASSUME NEW ents \in Seq(PsEntities), NEW end, end[0] = 0,
         \A i \in 1 .. Len(ents) : end[i] = end[i - 1] + Size(ents[i])
  PROVE  /\ \A i \in 0 .. Len(ents) : end[i] \in Nat
         /\ \A i \in 1 .. Len(ents) : \A j \in 1 .. Size(ents[i]) :
              end[i - 1] + j \in 1 .. end[Len(ents)]
<1> DEFINE n == Len(ents)
           s == [i \in 1 .. n |-> Size(ents[i])]
<1>1. n \in Nat /\ \A i \in 1 .. n : ents[i] \in PsEntities
  OBVIOUS
<1>2. \A i \in 1 .. n : s[i] = Size(ents[i]) /\ s[i] \in Nat
  BY <1>1, EntityFacts
<1> HIDE DEF n, s
<1>3. \A i \in 1 .. n : end[i] = end[i - 1] + s[i] /\ s[i] \in Nat
  BY <1>2 DEF n
<1>4. (\A k \in 0 .. n : end[k] \in Nat) /\ \A i, j \in 0 .. n : i <= j => end[i] <= end[j]
  BY <1>1, <1>3, SumsGrow, Zenon
<1>5. ASSUME NEW i \in 1 .. n, NEW j \in 1 .. Size(ents[i]) PROVE end[i - 1] + j \in 1 .. end[n]
  <2>1. i \in 0 .. n /\ i - 1 \in 0 .. n /\ n \in 0 .. n /\ i <= n
    BY <1>1
  <2>2. /\ end[i - 1] \in Nat /\ end[i] \in Nat /\ end[n] \in Nat /\ end[i] <= end[n]
        /\ end[i] = end[i - 1] + s[i] /\ s[i] \in Nat /\ j \in 1 .. s[i]
    BY <1>2, <1>3, <1>4, <2>1
  <2> QED BY <2>2
<1> QED BY <1>4, <1>5 DEF n

\* A sequence over a set is one over a larger set.
LEMMA LargerSet ==
  ASSUME NEW S, NEW T, S \subseteq T, NEW a \in Seq(S)
  PROVE  a \in Seq(T)
<1>1. Len(a) \in Nat /\ a = [i \in 1 .. Len(a) |-> a[i]] /\ \A i \in 1 .. Len(a) : a[i] \in T
  OBVIOUS
<1> QED BY <1>1

\* The entities after some have been written.
LEMMA EntsGrow ==
  ASSUME PsBase, NEW X \in Seq(PsEntities), psEnts' = psEnts \o X, NEW N, NEW n,
         N = Len(psEnts), n = Len(X)
  PROVE  /\ N \in Nat /\ n \in Nat /\ psEnts' \in Seq(PsEntities) /\ Len(psEnts') = N + n
         /\ \A j \in 1 .. N : psEnts'[j] = psEnts[j]
         /\ \A q \in 1 .. n : psEnts'[N + q] = X[q]
<1>0. N \in Nat /\ n \in Nat
  BY DEF PsBase
<1>1. /\ psEnts \o X \in Seq(PsEntities) /\ Len(psEnts \o X) = Len(psEnts) + Len(X)
      /\ \A j \in 1 .. Len(psEnts) + Len(X) :
           (psEnts \o X)[j] = IF j <= Len(psEnts) THEN psEnts[j] ELSE X[j - Len(psEnts)]
  BY Joined DEF PsBase
<1>2. psEnts' \in Seq(PsEntities) /\ Len(psEnts') = N + n
      /\ \A j \in 1 .. N + n : psEnts'[j] = IF j <= N THEN psEnts[j] ELSE X[j - N]
  BY <1>1
<1>3. \A q \in 1 .. n : N + q \in 1 .. N + n /\ ~ (N + q <= N) /\ (N + q) - N = q
  BY <1>0
<1>4. \A j \in 1 .. N : j \in 1 .. N + n /\ j <= N
  BY <1>0
<1> QED BY <1>0, <1>2, <1>3, <1>4

\* Entities are written after the others.
LEMMA MuxWrites ==
  ASSUME PsInv, UNCHANGED <<psPlan, psFed, psHead, psPos, psHurt, psTypes, psOut>>, psMuxed' \in Nat,
         psMux' \in [tracks : SUBSET PsTracks, aac : BOOLEAN, pending : BOOLEAN],
         NEW X \in Seq(PsEntities), psEnts' = psEnts \o X,
         psWire' = psWire \o EntityBytes(Len(psEnts), X), PsMapped'
  PROVE  PsInv' /\ \A j \in 1 .. psFed : psWire'[j] = psWire[j]
<1>0. PsBase
  BY DEF PsInv
<1>1. PICK N \in Nat, n \in Nat : N = Len(psEnts) /\ n = Len(X)
  BY <1>0 DEF PsBase
<1>2. /\ psEnts' \in Seq(PsEntities) /\ Len(psEnts') = N + n
      /\ \A j \in 1 .. N : psEnts'[j] = psEnts[j]
      /\ \A q \in 1 .. n : psEnts'[N + q] = X[q]
  <2>1. N = Len(psEnts) /\ n = Len(X)
    BY <1>1
  <2>2. Len(psEnts') = N + n
    BY <1>0, <2>1, EntsGrow
  <2>3. \A j \in 1 .. N : psEnts'[j] = psEnts[j]
    BY <1>0, <2>1, EntsGrow
  <2>4. \A q \in 1 .. n : psEnts'[N + q] = X[q]
    BY <1>0, <2>1, EntsGrow
  <2>5. psEnts' \in Seq(PsEntities)
    BY <1>0, <2>1, EntsGrow, Zenon
  <2> QED BY <2>2, <2>3, <2>4, <2>5, Zenon
<1>b. PICK B : B = EntityBytes(N, X)
  OBVIOUS
<1>e. PICK e2 \in [0 .. Len(X) -> Nat] :
        /\ e2[0] = 0
        /\ \A i \in 1 .. Len(X) : e2[i] = e2[i - 1] + Size(X[i])
        /\ EntityBytes(N, X) \in Seq((N + 1 .. N + Len(X)) \X Nat)
        /\ Len(EntityBytes(N, X)) = e2[Len(X)]
        /\ \A i \in 1 .. Len(X) : \A j \in 1 .. Size(X[i]) :
             EntityBytes(N, X)[e2[i - 1] + j] = <<N + i, j - 1>>
  BY BytesOf, Zenon
<1>3. /\ psWire' = psWire \o B /\ B \in Seq((N + 1 .. N + n) \X Nat)
      /\ e2[0] = 0 /\ Len(B) = e2[n]
      /\ \A i \in 1 .. n : e2[i] = e2[i - 1] + Size(X[i])
      /\ \A i \in 1 .. n : \A j \in 1 .. Size(X[i]) : B[e2[i - 1] + j] = <<N + i, j - 1>>
  <2>1. n = Len(X) /\ psWire' = psWire \o B
    BY <1>1, <1>b
  <2> QED BY <1>b, <1>e, <2>1, Zenon
<1>4. PICK L \in Nat, M \in Nat : L = Len(psWire) /\ M = Len(B)
  BY <1>0, <1>3 DEF PsBase
<1>5. /\ psWire' \in Seq(WireBytes') /\ Len(psWire') = L + M
      /\ \A j \in 1 .. L : psWire'[j] = psWire[j]
      /\ \A q \in 1 .. M : psWire'[L + q] = B[q]
  <2> DEFINE S == (1 .. N + n) \X Nat
  <2>1. WireBytes' = S /\ psWire \in Seq((1 .. N) \X Nat)
    BY <1>0, <1>1, <1>2 DEF WireBytes, PsBase
  <2>2. (1 .. N) \X Nat \subseteq S /\ (N + 1 .. N + n) \X Nat \subseteq S
    OBVIOUS
  <2> HIDE DEF S
  <2>3. psWire \in Seq(S) /\ B \in Seq(S)
    BY <1>3, <2>1, <2>2, LargerSet
  <2>4. /\ psWire \o B \in Seq(S) /\ Len(psWire \o B) = Len(psWire) + Len(B)
        /\ \A j \in 1 .. Len(psWire) + Len(B) :
             (psWire \o B)[j] = IF j <= Len(psWire) THEN psWire[j] ELSE B[j - Len(psWire)]
    BY <2>3, Joined
  <2>5. psWire' \in Seq(S) /\ Len(psWire') = L + M
        /\ \A j \in 1 .. L + M : psWire'[j] = IF j <= L THEN psWire[j] ELSE B[j - L]
    BY <1>3, <1>4, <2>4
  <2>6. \A q \in 1 .. M : L + q \in 1 .. L + M /\ ~ (L + q <= L) /\ (L + q) - L = q
    OBVIOUS
  <2>7. \A j \in 1 .. L : j \in 1 .. L + M /\ j <= L
    OBVIOUS
  <2> QED BY <2>1, <2>5, <2>6, <2>7, Zenon
<1>6. PsBase'
  <2>1. psFed <= L + M
    BY <1>0, <1>4 DEF PsBase
  <2> QED BY <1>0, <1>2, <1>5, <2>1 DEF PsBase
<1>7. ASSUME psHurt' = 0
      PROVE  (\A k \in DOMAIN psOut' : ReturnedRight(k)') /\ \E end, h : Lossless(end, h)'
  <2>1. PICK end, h : Lossless(end, h)
    BY <1>7 DEF PsInv
  <2>2. /\ h \in 0 .. N /\ psHead = end[h] /\ psOut \in Seq(PsReturned) /\ LastReturned \in Nat
        /\ LastReturned <= h
    BY <1>1, <2>1, LastNumber DEF Lossless, Through
  <2>3. \A k \in DOMAIN psOut' : ReturnedRight(k)'
    <3> SUFFICES ASSUME NEW k \in DOMAIN psOut PROVE ReturnedRight(k)'
      OBVIOUS
    <3>1. ReturnedRight(k)
      BY <1>7, AllReturnedRight DEF PsInv
    <3>2. PICK i, before : i = psOut[k].ent /\ before = IF k = 1 THEN 0 ELSE psOut[k - 1].ent
      OBVIOUS
    <3>3. before \in Nat
      <4>1. CASE k = 1
        BY <3>2, <4>1
      <4>2. CASE k # 1
        <5>1. k - 1 \in DOMAIN psOut
          BY <2>2, <4>2
        <5>2. psOut[k - 1] \in PsReturned
          BY <2>2, <5>1
        <5>3. psOut[k - 1].ent \in Nat
          BY <5>2, Zenon DEF PsReturned
        <5> QED BY <3>2, <4>2, <5>3
      <4> QED BY <4>1, <4>2
    <3>4. /\ i \in before + 1 .. N /\ psEnts[i].kind = "pes" /\ psOut[k].typed
          /\ \A j \in before + 1 .. i - 1 : psEnts[j].kind # "pes"
          /\ psOut[k].bytes = [j \in 1 .. psEnts[i].hi - psEnts[i].lo |-> <<i, HeadLen + j - 1>>]
      BY <1>1, <3>1, <3>2 DEF ReturnedRight
    <3>5. /\ i \in before + 1 .. N + n /\ psEnts'[i] = psEnts[i]
          /\ \A j \in before + 1 .. i - 1 : psEnts'[j] = psEnts[j]
      <4>1. /\ i \in before + 1 .. N + n /\ i \in 1 .. N
            /\ \A j \in before + 1 .. i - 1 : j \in 1 .. N
        BY <1>1, <3>3, <3>4
      <4> QED BY <1>2, <4>1, Zenon
    <3>6. /\ i \in before + 1 .. Len(psEnts') /\ psEnts'[i].kind = "pes" /\ psOut'[k].typed
          /\ \A j \in before + 1 .. i - 1 : psEnts'[j].kind # "pes"
          /\ psOut'[k].bytes = [j \in 1 .. psEnts'[i].hi - psEnts'[i].lo |-> <<i, HeadLen + j - 1>>]
      BY <1>2, <3>4, <3>5, Zenon
    <3>7. i = psOut'[k].ent /\ before = IF k = 1 THEN 0 ELSE psOut'[k - 1].ent
      BY <3>2
    <3> QED BY <3>6, <3>7, Zenon DEF ReturnedRight
  <2> DEFINE end3 == [i \in 0 .. N + n |-> IF i <= N THEN end[i] ELSE L + e2[i - N]]
  <2>4. Layout(end3)'
    <3>1. /\ end[0] = 0 /\ end[N] = L /\ \A i \in 1 .. N : end[i] = end[i - 1] + Size(psEnts[i])
          /\ \A i \in 1 .. N : \A j \in 1 .. Size(psEnts[i]) : psWire[end[i - 1] + j] = <<i, j - 1>>
      BY <1>1, <1>4, <2>1, Zenon DEF Lossless, Layout
    <3>2. /\ \A i \in 0 .. N : end[i] \in Nat
          /\ \A i \in 1 .. N : \A j \in 1 .. Size(psEnts[i]) : end[i - 1] + j \in 1 .. L
      BY <1>0, <1>1, <3>1, PlacesInside, Zenon DEF PsBase
    <3>3. /\ \A i \in 0 .. n : e2[i] \in Nat
          /\ \A i \in 1 .. n : \A j \in 1 .. Size(X[i]) : e2[i - 1] + j \in 1 .. M
      BY <1>1, <1>3, <1>4, PlacesInside, Zenon
    <3>4. \A i \in 0 .. N : end3[i] = end[i]
      OBVIOUS
    <3>5. \A q \in 0 .. n : end3[N + q] = L + e2[q]
      <4> SUFFICES ASSUME NEW q \in 0 .. n PROVE end3[N + q] = L + e2[q]
        BY Zenon
      <4>1. N + q \in 0 .. N + n /\ (N + q) - N = q /\ (N + q <= N <=> q = 0)
        OBVIOUS
      <4>2. CASE q = 0
        <5>1. N + q = N /\ N \in 0 .. N /\ L + 0 = L
          BY <4>2
        <5> HIDE DEF end3
        <5> QED BY <1>3, <3>1, <3>4, <4>2, <5>1
      <4>3. CASE q # 0
        BY <4>1, <4>3
      <4> QED BY <4>2, <4>3
    <3>6. end3 \in [0 .. N + n -> Nat]
      <4>1. \A i \in 0 .. N + n : i \in 0 .. N \/ (~ (i <= N) /\ i - N \in 0 .. n)
        OBVIOUS
      <4>2. \A i \in 0 .. N + n : (IF i <= N THEN end[i] ELSE L + e2[i - N]) \in Nat
        <5> SUFFICES ASSUME NEW i \in 0 .. N + n PROVE (IF i <= N THEN end[i] ELSE L + e2[i - N]) \in Nat
          OBVIOUS
        <5>1. CASE i \in 0 .. N
          BY <3>2, <5>1
        <5>2. CASE ~ (i <= N) /\ i - N \in 0 .. n
          <6>1. e2[i - N] \in Nat
            BY <3>3, <5>2
          <6> QED BY <5>2, <6>1
        <5> QED BY <4>1, <5>1, <5>2
      <4> QED BY <4>2
    <3> HIDE DEF end3
    <3>7. \A i \in 1 .. N + n : i \in 1 .. N \/ \E q \in 1 .. n : i = N + q
      <4> SUFFICES ASSUME NEW i \in 1 .. N + n, ~ (i <= N) PROVE \E q \in 1 .. n : i = N + q
        OBVIOUS
      <4>1. i - N \in 1 .. n /\ i = N + (i - N)
        OBVIOUS
      <4> QED BY <4>1
    <3>8. ASSUME NEW i \in 1 .. N
          PROVE  /\ end3[i] = end3[i - 1] + Size(psEnts'[i])
                 /\ \A j \in 1 .. Size(psEnts'[i]) : psWire'[end3[i - 1] + j] = <<i, j - 1>>
      <4>1. i \in 0 .. N /\ i - 1 \in 0 .. N /\ psEnts'[i] = psEnts[i]
        BY <1>2
      <4>2. end3[i] = end[i] /\ end3[i - 1] = end[i - 1]
        BY <3>4, <4>1
      <4>3. \A j \in 1 .. Size(psEnts[i]) : psWire'[end[i - 1] + j] = <<i, j - 1>>
        BY <1>5, <3>1, <3>2, Zenon
      <4> QED BY <3>1, <4>1, <4>2, <4>3, Zenon
    <3>9. ASSUME NEW q \in 1 .. n
          PROVE  /\ end3[N + q] = end3[(N + q) - 1] + Size(psEnts'[N + q])
                 /\ \A j \in 1 .. Size(psEnts'[N + q]) : psWire'[end3[(N + q) - 1] + j] = <<N + q, j - 1>>
      <4>1. q \in 0 .. n /\ q - 1 \in 0 .. n /\ (N + q) - 1 = N + (q - 1) /\ psEnts'[N + q] = X[q]
        BY <1>2
      <4>2. end3[N + q] = L + e2[q] /\ end3[(N + q) - 1] = L + e2[q - 1]
        BY <3>5, <4>1, Zenon
      <4>3. e2[q] \in Nat /\ e2[q - 1] \in Nat /\ e2[q] = e2[q - 1] + Size(X[q])
        BY <1>3, <3>3, <4>1, Zenon
      <4>4. Size(X[q]) \in Nat
        BY <1>1, EntityFacts
      <4>5. L + e2[q] = (L + e2[q - 1]) + Size(X[q])
        BY <4>3, <4>4
      <4>6. ASSUME NEW j \in 1 .. Size(X[q]) PROVE psWire'[(L + e2[q - 1]) + j] = <<N + q, j - 1>>
        <5>1. e2[q - 1] + j \in 1 .. M /\ B[e2[q - 1] + j] = <<N + q, j - 1>>
          BY <1>3, <3>3, Zenon
        <5>2. (L + e2[q - 1]) + j = L + (e2[q - 1] + j)
          BY <4>3, <4>4, SMTT(20)
        <5>3. psWire'[L + (e2[q - 1] + j)] = <<N + q, j - 1>>
          BY <1>5, <5>1, Zenon
        <5> QED BY <5>2, <5>3, Zenon
      <4> QED BY <4>1, <4>2, <4>5, <4>6, Zenon
    <3>10. end3[0] = 0 /\ Len(psWire') = end3[N + n]
      <4>1. 0 \in 0 .. N /\ n \in 0 .. n
        OBVIOUS
      <4> QED BY <1>3, <1>4, <1>5, <3>1, <3>4, <3>5, <4>1
    <3>11. \A i \in 1 .. N + n :
             /\ end3[i] = end3[i - 1] + Size(psEnts'[i])
             /\ \A j \in 1 .. Size(psEnts'[i]) : psWire'[end3[i - 1] + j] = <<i, j - 1>>
      <4> SUFFICES ASSUME NEW i \in 1 .. N + n
                   PROVE  /\ end3[i] = end3[i - 1] + Size(psEnts'[i])
                          /\ \A j \in 1 .. Size(psEnts'[i]) : psWire'[end3[i - 1] + j] = <<i, j - 1>>
        BY Zenon
      <4>1. CASE i \in 1 .. N
        BY <3>8, <4>1, Zenon
      <4>2. ASSUME NEW q \in 1 .. n, i = N + q
            PROVE  /\ end3[i] = end3[i - 1] + Size(psEnts'[i])
                   /\ \A j \in 1 .. Size(psEnts'[i]) : psWire'[end3[i - 1] + j] = <<i, j - 1>>
        BY <3>9, <4>2, Zenon
      <4> QED BY <3>7, <4>1, <4>2, Zenon
    <3>12. PICK g : g = end3
      OBVIOUS
    <3>13. Layout(g)'
      BY <1>2, <3>6, <3>10, <3>11, <3>12, Zenon DEF Layout, Size
    <3> QED BY <3>12, <3>13
  <2>5. Through(h)'
    <3>1. \A j \in 1 .. h : psEnts'[j] = psEnts[j]
      <4>1. \A j \in 1 .. h : j \in 1 .. N
        BY <2>2
      <4>2. \A j \in 1 .. N : psEnts'[j] = psEnts[j]
        BY <1>2, Zenon
      <4> QED BY <4>1, <4>2, Zenon
    <3>2. LastReturned' = LastReturned
      BY DEF LastReturned
    <3>3. \A j \in LastReturned + 1 .. h : j \in 1 .. h
      BY <2>2
    <3> QED BY <2>1, <2>2, <3>1, <3>2, <3>3, Zenon DEF Lossless, Through
  <2>6. end3[h] = end[h] /\ h \in 0 .. Len(psEnts')
    BY <1>2, <2>2
  <2>7. PICK g : g = end3
    BY Zenon
  <2> HIDE DEF end3
  <2>8. Lossless(g, h)'
    BY <2>1, <2>2, <2>4, <2>5, <2>6, <2>7 DEF Lossless
  <2> QED BY <2>3, <2>8
<1>8. (psHurt' = 0 => \A k \in DOMAIN psOut' : ReturnedRight(k)') => PsPacketsExact'
  BY Zenon DEF PsPacketsExact, ReturnedRight
<1>9. \A j \in 1 .. psFed : psWire'[j] = psWire[j]
  <2>1. \A j \in 1 .. psFed : j \in 1 .. L
    BY <1>0, <1>4 DEF PsBase
  <2> QED BY <1>5, <2>1, Zenon
<1> QED BY <1>6, <1>7, <1>8, <1>9, Zenon DEF PsInv

\* The map goes before the packets.
LEMMA MuxMapped ==
  ASSUME PsInv, NEW X, psEnts' = psEnts \o X, NEW t, NEW tracks, t \in tracks, psMux'.tracks = tracks,
         \/ MapThenPackets(X, t, tracks)
         \/ PacketsOf(X, t) /\ ~ psMux.pending /\ psMux.tracks = tracks
  PROVE  PsMapped'
<1>0. PacketsOf(X, t) /\ X \in Seq(PsEntities)
  BY DEF MapThenPackets, PacketsOf
<1>1. PICK N, n : N = Len(psEnts) /\ n = Len(X)
  BY Zenon
<1>2. /\ N \in Nat /\ n \in Nat /\ Len(psEnts') = N + n
      /\ \A j \in 1 .. N : psEnts'[j] = psEnts[j]
      /\ \A q \in 1 .. n : psEnts'[N + q] = X[q]
  BY <1>0, <1>1, EntsGrow DEF PsInv
<1>3. \A u : \A k \in 1 .. N : IsMap(u, k) => IsMap(u, k)'
  BY <1>2 DEF IsMap
<1>4. ASSUME NEW u \in tracks
      PROVE  \/ MapThenPackets(X, t, tracks) /\ 3 <= n /\ IsMap(u, N + 3)'
             \/ \E k \in 1 .. N : IsMap(u, k)'
  <2>1. CASE MapThenPackets(X, t, tracks)
    <3>1. 3 \in 1 .. n /\ X[3].kind = "map" /\ X[3].tracks = tracks
      BY <1>1, <1>2, <2>1 DEF MapThenPackets
    <3>2. psEnts'[N + 3] = X[3]
      BY <1>2, <3>1
    <3>3. IsMap(u, N + 3)'
      <4>1. psEnts'[N + 3].kind = "map" /\ u \in psEnts'[N + 3].tracks
        BY <3>1, <3>2
      <4> QED BY <4>1, Zenon DEF IsMap
    <3> QED BY <1>2, <2>1, <3>1, <3>3
  <2>2. CASE ~ psMux.pending /\ psMux.tracks = tracks
    <3>1. PICK k \in 1 .. N : IsMap(u, k)
      BY <1>1, <2>2 DEF PsInv, PsMapped
    <3> QED BY <1>3, <3>1, Zenon
  <2> QED BY <2>1, <2>2
<1>5. ASSUME NEW j \in 1 .. N, psEnts'[j].kind = "pes"
      PROVE  \E k \in 1 .. j - 1 : IsMap(psEnts[j].track, k)'
  <2>1. psEnts'[j] = psEnts[j]
    BY <1>2
  <2>2. PICK k \in 1 .. j - 1 : IsMap(psEnts[j].track, k)
    BY <1>1, <1>5, <2>1 DEF PsInv, PsMapped
  <2>3. k \in 1 .. N
    BY <1>2
  <2>4. PICK u : u = psEnts[j].track
    OBVIOUS
  <2>5. IsMap(u, k)' /\ u = psEnts'[j].track
    BY <1>3, <2>1, <2>2, <2>3, <2>4
  <2> QED BY <2>5, Zenon DEF IsMap
<1>6. ASSUME NEW q \in 1 .. n, psEnts'[N + q].kind = "pes"
      PROVE  \E k \in 1 .. (N + q) - 1 : IsMap(psEnts[N + q].track, k)'
  <2>1. psEnts'[N + q] = X[q] /\ psEnts'[N + q].track = t
    BY <1>0, <1>1, <1>2, <1>6 DEF PacketsOf
  <2>2. CASE MapThenPackets(X, t, tracks) /\ 3 <= n /\ IsMap(t, N + 3)'
    <3>1. q > 3
      BY <1>1, <1>6, <2>1, <2>2 DEF MapThenPackets
    <3>2. N + 3 \in 1 .. (N + q) - 1
      BY <1>2, <3>1
    <3> QED BY <2>1, <2>2, <3>2, Zenon DEF IsMap
  <2>3. CASE \E k \in 1 .. N : IsMap(t, k)'
    <3>1. PICK k \in 1 .. N : IsMap(t, k)'
      BY <2>3
    <3>2. k \in 1 .. (N + q) - 1
      BY <1>2
    <3> QED BY <2>1, <3>1, <3>2, Zenon DEF IsMap
  <2> QED BY <1>4, <2>2, <2>3, Zenon
<1>7. \A j \in 1 .. Len(psEnts') :
        psEnts'[j].kind = "pes" => \E k \in 1 .. j - 1 : IsMap(psEnts[j].track, k)'
  <2> SUFFICES ASSUME NEW j \in 1 .. N + n, psEnts'[j].kind = "pes"
               PROVE  \E k \in 1 .. j - 1 : IsMap(psEnts[j].track, k)'
    BY <1>2
  <2>1. CASE j <= N
    BY <1>2, <1>5, <2>1
  <2>2. CASE ~ (j <= N)
    <3>1. PICK q \in 1 .. n : j = N + q
      <4>1. j - N \in 1 .. n /\ j = N + (j - N)
        BY <1>2, <2>2
      <4> QED BY <4>1
    <3> QED BY <1>6, <3>1, Zenon
  <2> QED BY <2>1, <2>2, Zenon
<1>8. \A u \in psMux'.tracks : \E k \in 1 .. Len(psEnts') : IsMap(u, k)'
  <2> SUFFICES ASSUME NEW u \in tracks PROVE \E k \in 1 .. N + n : IsMap(u, k)'
    BY <1>2
  <2>1. (3 <= n /\ IsMap(u, N + 3)') \/ \E k \in 1 .. N : IsMap(u, k)'
    BY <1>4
  <2>2. \A k \in 1 .. N : k \in 1 .. N + n
    BY <1>2
  <2>3. 3 <= n => N + 3 \in 1 .. N + n
    BY <1>2
  <2>4. CASE 3 <= n /\ IsMap(u, N + 3)'
    BY <2>3, <2>4
  <2>5. CASE \E k \in 1 .. N : IsMap(u, k)'
    BY <2>2, <2>5
  <2> QED BY <2>1, <2>4, <2>5
<1> QED BY <1>7, <1>8, Zenon DEF PsMapped

\* A frame is muxed, and written after what was written before.
LEMMA MuxStep == PsInv /\ mux_frame => PsInv' /\ \A j \in 1 .. psFed : psWire'[j] = psWire[j]
<1> SUFFICES ASSUME PsInv, mux_frame PROVE PsInv' /\ \A j \in 1 .. psFed : psWire'[j] = psWire[j]
  OBVIOUS
<1> DEFINE f     == psPlan[psMuxed + 1]
           m     == mux_frame_track(f)
           quiet == f.track = "a" /\ (f.cfg \/ ~ m.aac)
           maps  == m.pending \/ (f.track = "v" /\ f.key)
           pes   == pes_packets(psMuxed + 1)
           ents  == <<pack_header>>
                      \o (IF maps THEN <<system_header, program_stream_map(m.tracks)>> ELSE << >>)
                      \o pes
           MuxState == [tracks : SUBSET PsTracks, aac : BOOLEAN, pending : BOOLEAN]
<1>0. PsBase /\ psMuxed \in Nat /\ psMux \in MuxState
  BY DEF PsInv, PsBase
<1>1. psMuxed + 1 \in 1 .. Len(psPlan) /\ f.track \in PsTracks
  <2> DEFINE R == [track : {"v", "a"}, key : BOOLEAN, cfg : BOOLEAN, nals : Seq(Nat), open : BOOLEAN]
  <2>1. psPlan \in Seq(R)
    BY <1>0, PsSizes DEF PsBase
  <2> HIDE DEF R
  <2>2. psMuxed + 1 \in 1 .. Len(psPlan)
    <3>1. Len(psPlan) \in Nat
      BY ONLY <2>1
    <3>2. psMuxed < Len(psPlan)
      BY DEF mux_frame
    <3> QED BY <1>0, <3>1, <3>2
  <2>3. f \in R
    BY <2>1, <2>2
  <2> QED BY <2>2, <2>3 DEF R, PsTracks
<1> HIDE DEF f
<1>2. /\ m \in MuxState /\ m.tracks = psMux.tracks \cup {f.track}
      /\ m.pending = (psMux.pending \/ f.track \notin psMux.tracks)
  BY <1>0, <1>1, Zenon DEF mux_frame_track
<1>3. /\ psMux' = IF quiet THEN m ELSE [m EXCEPT !.pending = FALSE]
      /\ psEnts' = IF quiet THEN psEnts ELSE psEnts \o ents
      /\ psWire' = IF quiet THEN psWire ELSE psWire \o EntityBytes(Len(psEnts), ents)
      /\ psMuxed' = psMuxed + 1
      /\ UNCHANGED <<psPlan, psFed, psHead, psPos, psHurt, psTypes, psOut>>
  BY Zenon DEF mux_frame, f
<1> HIDE DEF m
<1>4. psMuxed' \in Nat
  BY <1>0, <1>3
<1>5. CASE quiet
  <2>1. psMux' = m /\ psEnts' = psEnts /\ psWire' = psWire
    BY <1>3, <1>5
  <2>2. PsBase'
    <3>1. WireBytes' = WireBytes
      BY <2>1 DEF WireBytes
    <3> QED BY <1>0, <1>2, <1>3, <1>4, <2>1, <3>1 DEF PsBase
  <2>3. PsMapped'
    <3>1. ~ m.pending => ~ psMux.pending /\ m.tracks = psMux.tracks
      BY <1>2
    <3> QED BY <2>1, <3>1 DEF PsInv, PsMapped, IsMap
  <2>4. PsPacketsExact'
    BY <1>3, <2>1, SameOut DEF PsInv
  <2>5. \A end : Layout(end) => Layout(end)'
    BY <2>1 DEF Layout, Size
  <2>6. ASSUME psHurt' = 0 PROVE \E end, h : Lossless(end, h)'
    <3>1. PICK end, h : Lossless(end, h)
      BY <1>3, <2>6 DEF PsInv
    <3>2. Lossless(end, h)'
      BY <1>3, <2>1, <2>5, <3>1 DEF Lossless, Through, LastReturned
    <3> QED BY <3>2
  <2> QED BY <2>1, <2>2, <2>3, <2>4, <2>6 DEF PsInv
<1>6. CASE ~ quiet
  <2>1. pes \in Seq(PsEntities) /\ \A k \in 1 .. Len(pes) : pes[k].kind = "pes" /\ pes[k].track = f.track
    BY <1>0, <1>1, PesPackets DEF f
  <2> HIDE DEF pes
  <2>2. m.tracks \in SUBSET PsTracks /\ maps \in BOOLEAN
    BY <1>2
  <2>3. PICK t, tracks : t = f.track /\ tracks = m.tracks
    OBVIOUS
  <2>4. PICK X : X = ents
    BY Zenon
  <2> HIDE DEF maps
  <2>5. \/ MapThenPackets(X, t, tracks)
        \/ PacketsOf(X, t) /\ ~ maps
    <3>0. /\ MapThenPackets(<<pack_header>> \o <<system_header, program_stream_map(tracks)>> \o pes, t, tracks)
          /\ PacketsOf(<<pack_header>> \o << >> \o pes, t)
      BY <2>1, <2>2, <2>3, WrittenEntities
    <3>1. CASE maps
      <4>1. X = <<pack_header>> \o <<system_header, program_stream_map(tracks)>> \o pes
        BY <2>3, <2>4, <3>1
      <4> QED BY <3>0, <4>1
    <3>2. CASE ~ maps
      <4>1. X = <<pack_header>> \o << >> \o pes
        BY <2>4, <3>2
      <4> QED BY <3>0, <3>2, <4>1
    <3> QED BY <3>1, <3>2
  <2> HIDE DEF ents
  <2>6. psMux' = [m EXCEPT !.pending = FALSE] /\ psEnts' = psEnts \o X
        /\ psWire' = psWire \o EntityBytes(Len(psEnts), X)
    BY <1>3, <1>6, <2>4
  <2>7. psMux' \in MuxState /\ psMux'.tracks = tracks
    BY <1>2, <2>3, <2>6, Zenon
  <2>8. ~ maps => ~ psMux.pending /\ psMux.tracks = tracks
    BY <1>2, <2>3 DEF maps
  <2>9. t \in tracks
    BY <1>2, <2>3
  <2>10. PsMapped'
    BY <2>5, <2>6, <2>7, <2>8, <2>9, MuxMapped, Zenon
  <2>11. X \in Seq(PsEntities)
    BY <2>5 DEF MapThenPackets, PacketsOf
  <2> QED BY <1>3, <1>4, <2>6, <2>7, <2>10, <2>11, MuxWrites, Zenon
<1> QED BY <1>5, <1>6

\* Every step keeps the invariant.
LEMMA PsStep == PsInv /\ [PsNext]_psVars => PsInv'
<1> SUFFICES ASSUME PsInv, [PsNext]_psVars PROVE PsInv'
  OBVIOUS
<1>1. CASE UNCHANGED psVars
  <2>0. UNCHANGED <<psPlan, psMuxed, psMux, psEnts, psWire, psFed, psHead, psPos, psHurt, psTypes, psOut>>
    BY <1>1 DEF psVars
  <2>1. /\ psHead \in Nat /\ psHead <= psHead /\ psHead <= psFed
        /\ psPos \in Nat /\ psHead + psPos <= psFed
    BY DEF PsInv, PsBase
  <2>2. PsBase' /\ PsMapped' /\ \A end : Layout(end) => Layout(end)'
    BY <2>0, <2>1, HeadMoves
  <2>3. PsPacketsExact'
    BY <2>0, SameOut DEF PsInv
  <2>4. \A end, h : Lossless(end, h) => Lossless(end, h)'
    BY <2>0, <2>2 DEF Lossless, Through, LastReturned
  <2> QED BY <2>0, <2>2, <2>3, <2>4 DEF PsInv
<1> QED BY <1>1, MuxStep, PushStep, LoseStep, LeadingStep, PassStep, TakeStep, ResyncStep DEF PsNext

\* The demuxer returns what was muxed, for frames and pieces of every size.
THEOREM PsTheorem == PsSpec => []PsExact
<1>1. PsInv => PsExact
  BY DEF PsInv, PsBase, PsExact, PsBounded, Avail
<1> QED BY PsStart, PsStep, <1>1, PTL DEF PsSpec

\* parse_one_pes is not at the front of the buffer only if there is a torn start code.
PsTorn == psPos > 0 => Torn(1)

\* Four bytes that have arrived are among those that arrive later.
LEMMA StillFour ==
  ASSUME NEW h \in Nat, NEW f \in Nat, NEW g \in Nat, h + 4 <= f, f <= g
  PROVE  1 + 3 <= g - h
OBVIOUS

\* Bytes that have arrived stay what they are.
LEMMA TornKept ==
  ASSUME PsBase, Torn(1), psHead' = psHead, psFed' \in Nat, psFed <= psFed',
         \A j \in 1 .. psFed : psWire'[j] = psWire[j]
  PROVE  Torn(1)'
<1>1. /\ psHead \in Nat /\ psFed \in Nat /\ psHead + 4 <= psFed /\ Avail = psFed - psHead
      /\ Avail' = psFed' - psHead
  BY DEF PsBase, Avail, Torn, Prefix
<1>2. \A k \in 1 .. 4 : psHead + k \in 1 .. psFed
  BY <1>1
<1>3. \A k \in 1 .. 4 : At(k)' = At(k)
  BY <1>2 DEF At
<1>4. 1 \in 1 .. 4 /\ 1 + 1 \in 1 .. 4 /\ 1 + 2 \in 1 .. 4 /\ 1 + 3 \in 1 .. 4
  OBVIOUS
<1>5. 1 + 3 <= Avail'
  BY <1>1, StillFour, Zenon
<1>6. (At(1)' = At(1)) /\ (At(1 + 1)' = At(1 + 1)) /\ (At(1 + 2)' = At(1 + 2)) /\ (At(1 + 3)' = At(1 + 3))
  BY <1>3, <1>4, Zenon
<1>7. Prefix(1)'
  BY <1>5, <1>6, Zenon DEF Torn, Prefix, Zero, One
<1>8. ~ Id(1 + 3)'
  BY <1>6, Zenon DEF Torn, Id
<1> QED BY <1>7, <1>8, Zenon DEF Torn

\* A join keeps what is in front.
LEMMA JoinKeeps ==
  ASSUME NEW S, NEW a \in Seq(S), NEW T, NEW b \in Seq(T), NEW n \in Nat, n <= Len(a)
  PROVE  \A j \in 1 .. n : (a \o b)[j] = a[j]
OBVIOUS

\* Every step keeps it.
LEMMA TornStep == PsInv /\ PsTorn /\ [PsNext]_psVars => PsTorn'
<1> SUFFICES ASSUME PsInv, PsTorn, [PsNext]_psVars, psPos' > 0 PROVE Torn(1)'
  BY DEF PsTorn
<1>0. PsBase /\ psPos \in Nat /\ psFed \in Nat /\ psFed <= Len(psWire) /\ psWire \in Seq(WireBytes)
  BY DEF PsInv, PsBase
<1>1. CASE UNCHANGED psVars
  <2>1. psHead' = psHead /\ psFed' = psFed /\ psWire' = psWire /\ psPos' = psPos
    BY <1>1 DEF psVars
  <2>2. Torn(1)
    BY <2>1 DEF PsTorn
  <2> QED BY <1>0, <2>1, <2>2, TornKept
<1>2. CASE mux_frame
  <2>1. /\ psHead' = psHead /\ psFed' = psFed /\ psPos' = psPos
    BY <1>2, Zenon DEF mux_frame
  <2>2. Torn(1)
    BY <2>1 DEF PsTorn
  <2>3. \A j \in 1 .. psFed : psWire'[j] = psWire[j]
    BY <1>2, MuxStep
  <2> QED BY <1>0, <2>1, <2>2, <2>3, TornKept
<1>3. CASE ps_push
  <2>1. PICK n \in PsPieces :
          /\ psFed + n <= Len(psWire) /\ psFed' = psFed + n /\ psHead' = psHead + room(n)
          /\ psPos' = IF room(n) > 0 THEN 0 ELSE psPos
    BY <1>3 DEF ps_push
  <2>2. n \in Nat /\ MaxBuf \in Nat
    BY PsSizes
  <2>3. room(n) \in Nat
    BY <1>0, <2>2 DEF PsBase, room, Avail
  <2>4. psHead' = psHead /\ psPos' = psPos /\ psFed' \in Nat /\ psFed <= psFed' /\ psWire' = psWire
    BY <1>0, <1>3, <2>1, <2>2, <2>3 DEF PsBase, ps_push
  <2>5. Torn(1)
    BY <2>4 DEF PsTorn
  <2> QED BY <1>0, <2>4, <2>5, TornKept
<1>4. CASE ps_lose
  <2>1. PICK n \in PsPieces :
          psWire' = SubSeq(psWire, 1, psFed) \o SubSeq(psWire, psFed + n + 1, Len(psWire))
    BY <1>4, Zenon DEF ps_lose
  <2>2. psHead' = psHead /\ psFed' = psFed /\ psPos' = psPos
    BY <1>4, Zenon DEF ps_lose
  <2>3. Torn(1)
    BY <2>2 DEF PsTorn
  <2>4. \A j \in 1 .. psFed : psWire'[j] = psWire[j]
    <3> DEFINE a == SubSeq(psWire, 1, psFed)
               b == SubSeq(psWire, psFed + n + 1, Len(psWire))
    <3>1. n \in Nat /\ Len(psWire) \in Nat
      BY <1>0, PsSizes
    <3>2. a \in Seq(WireBytes) /\ Len(a) = psFed /\ \A j \in 1 .. psFed : a[j] = psWire[j]
      BY <1>0
    <3>3. b \in Seq(WireBytes)
      <4>1. \A i \in psFed + n + 1 .. Len(psWire) : psWire[i] \in WireBytes
        BY <1>0, <3>1
      <4> QED BY <1>0, <3>1, <4>1
    <3> HIDE DEF a, b
    <3>4. psFed <= Len(a)
      BY <1>0, <3>2
    <3>5. \A j \in 1 .. psFed : (a \o b)[j] = a[j]
      BY <1>0, <3>2, <3>3, <3>4, JoinKeeps
    <3>6. psWire' = a \o b
      BY <2>1 DEF a, b
    <3> QED BY <3>2, <3>5, <3>6
  <2> QED BY <1>0, <2>2, <2>3, <2>4, TornKept
<1>5. CASE skip_unknown \/ skip_header
  <2>1. psHead' = psHead /\ psFed' = psFed /\ psWire' = psWire
    BY <1>5 DEF skip_unknown, skip_header
  <2>2. Torn(1)
    <3>1. CASE psPos > 0
      BY <3>1 DEF PsTorn
    <3>2. CASE ~ (psPos > 0)
      <4>1. psPos = 0 /\ PesAt = 1
        BY <1>0, <3>2 DEF PesAt
      <4> QED BY <1>5, <3>2, <4>1 DEF skip_unknown, skip_header, CanPass
    <3> QED BY <3>1, <3>2
  <2> QED BY <1>0, <2>1, <2>2, TornKept
<1>6. CASE leading_header_len
  BY <1>6 DEF leading_header_len
<1>7. CASE parse_one_pes
  <2>1. psPos' = 0
    BY <1>7, Zenon DEF parse_one_pes, TakePes, Resync
  <2> QED BY <2>1
<1>8. CASE ps_resync
  BY <1>8 DEF ps_resync, Resync
<1> QED BY <1>1, <1>2, <1>3, <1>4, <1>5, <1>6, <1>7, <1>8 DEF PsNext

\* The search after damage drops no start code that has arrived whole, for frames,
\* pieces and losses of every size, but one directly after a torn one.
THEOREM PsResyncTheorem == PsSpec => PsSkipsNoStart
<1>1. PsInit => PsTorn
  BY DEF PsInit, PsTorn
<1>2. PsInv /\ PsTorn /\ [PsNext]_psVars
        => [MustResync => \A k \in 1 .. psHead' - psHead : StartCode(k) => k > 3 /\ Torn(k - 3)]_psVars
  <2> SUFFICES ASSUME PsInv, PsTorn, PsNext, MustResync
               PROVE  \A k \in 1 .. psHead' - psHead : StartCode(k) => k > 3 /\ Torn(k - 3)
    OBVIOUS
  <2>0. PsBase /\ psHead \in Nat /\ psPos \in Nat /\ ~ Prefix(PesAt) /\ Avail >= 1
    BY PsSizes DEF PsInv, PsBase, MustResync, Avail
  <2>1. CASE psHead' = psHead
    BY <2>0, <2>1
  <2>2. CASE ps_resync
    <3>1. ~ StartCode(1)
      <4>1. CASE psPos > 0
        BY <4>1 DEF PsTorn, Torn, StartCode
      <4>2. CASE ~ (psPos > 0)
        <5>1. PesAt = 1
          BY <2>0, <4>2 DEF PesAt
        <5> QED BY <2>0, <5>1 DEF StartCode
      <4> QED BY <4>1, <4>2
    <3> QED BY <2>0, <2>2, <3>1, ResyncSkips DEF ps_resync
  <2>3. mux_frame \/ ps_lose \/ skip_unknown \/ skip_header => psHead' = psHead
    BY Zenon DEF mux_frame, ps_lose, skip_unknown, skip_header
  <2>4. ~ ps_push
    BY DEF ps_push, Parsed
  <2>5. ~ leading_header_len /\ ~ parse_one_pes
    BY <2>0 DEF leading_header_len, parse_one_pes, CanSkip, CanTake, Headed, StartCode
  <2> QED BY <2>1, <2>2, <2>3, <2>4, <2>5 DEF PsNext
<1> QED BY <1>1, <1>2, PsStart, PsStep, TornStep, PTL DEF PsSpec, PsSkipsNoStart

=============================================================================
