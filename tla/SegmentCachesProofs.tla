------------------------ MODULE SegmentCachesProofs ------------------------
(***************************************************************************)
(* Proofs about SegmentCaches, for any viewers, sources and bounds: one    *)
(* task fills the cache, loses no frame, and playlists list its segments   *)
(* in order.                                                               *)
(***************************************************************************)
EXTENDS SegmentCaches, SequenceTheorems, WellFoundedInduction, TLAPS

\* A set of naturals that is not empty has a least element.
LEMMA LeastNatural ==
  ASSUME NEW T \in SUBSET Nat, T # {}
  PROVE  \E x \in T : \A y \in T : x <= y
<1> DEFINE R == OpToRel(<, Nat)
<1>1. IsWellFoundedOn(R, Nat)
  BY NatLessThanWellFounded, Zenon
<1> HIDE DEF R
<1>2. PICK x \in T : \A y \in T : ~ (<<y, x>> \in R)
  BY <1>1, WFMin, Zenon
<1>3. \A y \in T : <<y, x>> \in R <=> y < x
  BY DEF R, OpToRel
<1>4. \A y \in T : ~ (y < x)
  BY <1>2, <1>3, Zenon
<1>5. \A y \in T : x <= y
  BY <1>4
<1> QED BY <1>5

\* A set of numbers up to n that is not empty has a greatest element.
LEMMA GreatestOf ==
  ASSUME NEW n \in Nat, NEW T \in SUBSET (1 .. n), T # {}
  PROVE  \E x \in T : \A y \in T : y <= x
<1> DEFINE D == {n - y : y \in T}
<1>0. \A y \in T : n - y \in Nat
  OBVIOUS
<1>1. D \in SUBSET Nat /\ D # {}
  BY <1>0, Zenon
<1>2. PICK d \in D : \A e \in D : d <= e
  BY <1>1, LeastNatural, Zenon
<1>3. PICK x \in T : d = n - x
  OBVIOUS
<1>4. \A y \in T : n - x <= n - y
  BY <1>2, <1>3, Zenon
<1>5. \A y \in T : y <= x
  BY <1>4
<1> QED BY <1>5

\* An append leaves the pieces before it alone ...
LEMMA SubSeqAppendKeeps ==
  ASSUME NEW q \in Seq(Nat), NEW i \in Nat, NEW a \in Nat, NEW b \in Nat, a <= b, b <= Len(q)
  PROVE  SubSeq(Append(q, i), a + 1, b) = SubSeq(q, a + 1, b)
<1> DEFINE m == a + 1
           w == Append(q, i)
<1>0. /\ w \in Seq(Nat) /\ Len(w) = Len(q) + 1 /\ Len(q) \in Nat
      /\ \A k \in 1 .. Len(q) : w[k] = q[k] /\ q[k] \in Nat
  BY AppendProperties, LenProperties
<1>1. m \in Int /\ b \in Int /\ m <= b + 1 /\ m >= 1
  OBVIOUS
<1> HIDE DEF m, w
<1>2. \A k \in m .. b : w[k] = q[k] /\ q[k] \in Nat
  BY <1>0, <1>1
<1>3. \A k \in m .. b : w[k] \in Nat
  BY <1>2
<1>4. /\ SubSeq(q, m, b) \in Seq(Nat)
      /\ Len(SubSeq(q, m, b)) = IF m <= b THEN b - m + 1 ELSE 0
      /\ \A k \in 1 .. b - m + 1 : SubSeq(q, m, b)[k] = q[m + k - 1]
  BY <1>1, <1>2, SubSeqProperties
<1>5. /\ SubSeq(w, m, b) \in Seq(Nat)
      /\ Len(SubSeq(w, m, b)) = IF m <= b THEN b - m + 1 ELSE 0
      /\ \A k \in 1 .. b - m + 1 : SubSeq(w, m, b)[k] = w[m + k - 1]
  BY <1>1, <1>3, SubSeqProperties
<1>6. \A k \in 1 .. b - m + 1 : m + k - 1 \in m .. b
  BY <1>1
<1>7. \A k \in 1 .. b - m + 1 : SubSeq(w, m, b)[k] = SubSeq(q, m, b)[k]
  BY <1>2, <1>4, <1>5, <1>6, Zenon
<1>8. Len(SubSeq(q, m, b)) = b - m + 1
  BY <1>1, <1>4
<1> QED BY <1>4, <1>5, <1>7, <1>8, SeqEqual DEF m, w

\* ... and lengthens the last one.
LEMMA SubSeqAppendLast ==
  ASSUME NEW q \in Seq(Nat), NEW i \in Nat, NEW a \in Nat, a <= Len(q)
  PROVE  SubSeq(Append(q, i), a + 1, Len(q) + 1) = Append(SubSeq(q, a + 1, Len(q)), i)
<1>0. Append(q, i) \in Seq(Nat) /\ Len(Append(q, i)) = Len(q) + 1 /\ Len(q) \in Nat
      /\ Append(q, i)[Len(q) + 1] = i
  BY AppendProperties, LenProperties
<1>1. SubSeq(Append(q, i), a + 1, Len(q) + 1)
        = SubSeq(Append(q, i), a + 1, (Len(q) + 1) - 1) \o <<i>>
  <2>1. a + 1 \in 1 .. Len(Append(q, i)) /\ Len(q) + 1 \in a + 1 .. Len(Append(q, i))
    BY <1>0
  <2> QED BY <1>0, <2>1, SubSeqRecursiveSecond, Zenon
<1>2. (Len(q) + 1) - 1 = Len(q)
  BY <1>0
<1>3. SubSeq(Append(q, i), a + 1, Len(q)) = SubSeq(q, a + 1, Len(q))
  BY <1>0, SubSeqAppendKeeps
<1>4. SubSeq(q, a + 1, Len(q)) \in Seq(Nat)
  <2>1. \A k \in a + 1 .. Len(q) : q[k] \in Nat
    BY <1>0, ElementOfSeq
  <2> QED BY <1>0, <2>1, SubSeqProperties
<1> QED BY <1>1, <1>2, <1>3, <1>4, AppendIsConcat, Zenon

-----------------------------------------------------------------------------
(* The segment caches. *)

Kinds == {"cfg", "key", "other"}
Made == [index : Nat, cfg : Seq(Nat), frames : Seq(Nat), upto : Nat]

CutOf(made, k) == IF k = 0 THEN 0 ELSE made[k].upto

\* c is the last configuration among the first n frames received.
NewestOf(lg, got, n, c) ==
  LET cfgs == {i \in 1 .. n : lg[got[i]] = "cfg"} IN
  IF cfgs = {} THEN c = << >>
  ELSE \E i \in cfgs : c = <<got[i]>> /\ \A j \in cfgs : got[j] <= got[i]

\* What an HLS task has received is in its segments and frames, piece by piece.
Pieces(got, frames, made) ==
  /\ got \in Seq(Nat) /\ frames \in Seq(Nat) /\ made \in Seq(Made)
  /\ \A k \in 1 .. Len(made) :
       /\ CutOf(made, k - 1) <= CutOf(made, k) /\ CutOf(made, k) <= Len(got)
       /\ made[k].frames = SubSeq(got, CutOf(made, k - 1) + 1, CutOf(made, k))
  /\ frames = SubSeq(got, CutOf(made, Len(made)) + 1, Len(got))

\* It was received in the order of publication.
Ordered(lg, got) ==
  /\ \A k \in 1 .. Len(got) : got[k] \in 1 .. Len(lg)
  /\ \A j, k \in 1 .. Len(got) : j < k => got[j] < got[k]

\* Segments after the first begin where a decoder can.
Decodable(lg, frames, made) ==
  /\ \A k \in 2 .. Len(made) : made[k].frames # << >> /\ lg[made[k].frames[1]] # "other"
  /\ made # << >> /\ frames # << >> => lg[frames[1]] # "other"

\* Each carries the configuration of its time.
Configured(lg, got, made, cfg) ==
  /\ cfg \in Seq(Nat)
  /\ NewestOf(lg, got, CutOf(made, Len(made)), cfg)
  /\ \A k \in 1 .. Len(made) : NewestOf(lg, got, CutOf(made, k), made[k].cfg)

Exact(lg, got, frames, made, cfg) ==
  /\ Pieces(got, frames, made) /\ Ordered(lg, got) /\ Decodable(lg, frames, made)
  /\ Configured(lg, got, made, cfg)

\* Segments are cut among the frames received.
LEMMA CutBounds ==
  ASSUME NEW got, NEW frames, NEW made, Pieces(got, frames, made)
  PROVE  /\ \A k \in 0 .. Len(made) : CutOf(made, k) \in 0 .. Len(got)
         /\ Len(made) \in Nat /\ Len(got) \in Nat
<1>1. Len(made) \in Nat /\ Len(got) \in Nat
  BY DEF Pieces
<1>2. \A k \in 1 .. Len(made) : made[k].upto \in Nat
  <2>1. made \in Seq(Made)
    BY DEF Pieces
  <2>2. \A k \in 1 .. Len(made) : made[k] \in Made
    BY <2>1, ElementOfSeq
  <2> QED BY <2>2 DEF Made
<1>3. \A k \in 1 .. Len(made) : CutOf(made, k) <= Len(got) /\ CutOf(made, k) = made[k].upto
  BY DEF Pieces, CutOf
<1>4. CutOf(made, 0) = 0
  BY DEF CutOf
<1> QED BY <1>1, <1>2, <1>3, <1>4

\* What an HLS task has received are numbers of frames.
LEMMA ExactNumbers ==
  ASSUME NEW lg, NEW got, NEW frames, NEW made, NEW cfg, Exact(lg, got, frames, made, cfg)
  PROVE  got \in Seq(Nat) /\ frames \in Seq(Nat) /\ \A k \in 1 .. Len(got) : got[k] \in Nat
<1>1. got \in Seq(Nat) /\ frames \in Seq(Nat)
  BY DEF Exact, Pieces
<1> QED BY <1>1, ElementOfSeq

\* A frame more is received.
LEMMA ExactFrame ==
  ASSUME NEW lg \in Seq(Kinds), NEW got, NEW frames, NEW made, NEW cfg,
         Exact(lg, got, frames, made, cfg), NEW i \in 1 .. Len(lg),
         \A k \in 1 .. Len(got) : got[k] < i,
         made # << >> /\ frames = << >> => lg[i] # "other"
  PROVE  Exact(lg, Append(got, i), Append(frames, i), made, cfg)
<1> DEFINE ngot == Append(got, i)
<1>0. /\ got \in Seq(Nat) /\ frames \in Seq(Nat) /\ made \in Seq(Made) /\ i \in Nat
      /\ Len(made) \in Nat /\ Len(got) \in Nat
      /\ \A k \in 0 .. Len(made) : CutOf(made, k) \in 0 .. Len(got)
  <2>1. Pieces(got, frames, made)
    BY DEF Exact
  <2>2. got \in Seq(Nat) /\ frames \in Seq(Nat) /\ made \in Seq(Made)
    BY <2>1 DEF Pieces
  <2>3. i \in Nat
    BY LenProperties
  <2> QED BY <2>1, <2>2, <2>3, CutBounds
<1>1. /\ ngot \in Seq(Nat) /\ Len(ngot) = Len(got) + 1
      /\ \A k \in 1 .. Len(got) : ngot[k] = got[k]
      /\ ngot[Len(got) + 1] = i
  BY <1>0, AppendProperties
<1> HIDE DEF ngot
<1>2. Pieces(ngot, Append(frames, i), made)
  <2>1. Append(frames, i) \in Seq(Nat)
    BY <1>0
  <2>2. ASSUME NEW k \in 1 .. Len(made)
        PROVE  /\ CutOf(made, k - 1) <= CutOf(made, k) /\ CutOf(made, k) <= Len(ngot)
               /\ made[k].frames = SubSeq(ngot, CutOf(made, k - 1) + 1, CutOf(made, k))
    <3>1. k - 1 \in 0 .. Len(made) /\ k \in 0 .. Len(made)
      BY <1>0
    <3>2. CutOf(made, k - 1) \in Nat /\ CutOf(made, k) \in Nat
      BY <1>0, <3>1
    <3>3. /\ CutOf(made, k - 1) <= CutOf(made, k) /\ CutOf(made, k) <= Len(got)
          /\ made[k].frames = SubSeq(got, CutOf(made, k - 1) + 1, CutOf(made, k))
      BY DEF Exact, Pieces
    <3>4. SubSeq(ngot, CutOf(made, k - 1) + 1, CutOf(made, k))
            = SubSeq(got, CutOf(made, k - 1) + 1, CutOf(made, k))
      <4> DEFINE a == CutOf(made, k - 1)
                 b == CutOf(made, k)
      <4>1. a \in Nat /\ b \in Nat /\ a <= b /\ b <= Len(got)
        BY <3>2, <3>3
      <4> HIDE DEF a, b
      <4>2. SubSeq(ngot, a + 1, b) = SubSeq(got, a + 1, b)
        BY <1>0, <4>1, SubSeqAppendKeeps DEF ngot
      <4> QED BY <4>2, Zenon DEF a, b
    <3>5. CutOf(made, k) <= Len(ngot)
      <4> DEFINE b == CutOf(made, k)
      <4>1. b \in Nat /\ b <= Len(got)
        BY <3>2, <3>3
      <4> HIDE DEF b
      <4>2. b <= Len(ngot)
        BY <1>0, <1>1, <4>1
      <4> QED BY <4>2 DEF b
    <3> QED BY <3>3, <3>4, <3>5, Zenon
  <2>3. Append(frames, i) = SubSeq(ngot, CutOf(made, Len(made)) + 1, Len(ngot))
    <3>1. CutOf(made, Len(made)) \in Nat /\ CutOf(made, Len(made)) <= Len(got)
      BY <1>0
    <3>2. frames = SubSeq(got, CutOf(made, Len(made)) + 1, Len(got))
      BY DEF Exact, Pieces
    <3> DEFINE a == CutOf(made, Len(made))
    <3>3. a \in Nat /\ a <= Len(got) /\ frames = SubSeq(got, a + 1, Len(got))
      BY <3>1, <3>2
    <3> HIDE DEF a
    <3>4. SubSeq(ngot, a + 1, Len(got) + 1) = Append(SubSeq(got, a + 1, Len(got)), i)
      BY <1>0, <3>3, SubSeqAppendLast, Zenon DEF ngot
    <3>5. Append(frames, i) = SubSeq(ngot, a + 1, Len(ngot))
      BY <1>1, <3>3, <3>4, Zenon
    <3> QED BY <3>5 DEF a
  <2> QED BY <1>0, <1>1, <2>1, <2>2, <2>3, Zenon DEF Pieces
<1>3. Ordered(lg, ngot)
  <2>1. \A k \in 1 .. Len(ngot) : k \in 1 .. Len(got) \/ k = Len(got) + 1
    BY <1>0, <1>1
  <2>2. \A k \in 1 .. Len(got) : got[k] \in 1 .. Len(lg)
    BY DEF Exact, Ordered
  <2>3. \A j, k \in 1 .. Len(got) : j < k => got[j] < got[k]
    BY DEF Exact, Ordered
  <2>4. \A k \in 1 .. Len(ngot) : ngot[k] \in 1 .. Len(lg)
    BY <1>1, <2>1, <2>2, Zenon
  <2>5. \A j, k \in 1 .. Len(ngot) : j < k => ngot[j] < ngot[k]
    <3> SUFFICES ASSUME NEW j \in 1 .. Len(ngot), NEW k \in 1 .. Len(ngot), j < k
                 PROVE  ngot[j] < ngot[k]
      OBVIOUS
    <3>1. j \in 1 .. Len(got)
      BY <1>0, <1>1
    <3> QED BY <1>1, <2>1, <2>3, <3>1, Zenon
  <2> QED BY <2>4, <2>5 DEF Ordered
<1>4. Decodable(lg, Append(frames, i), made)
  <2>1. CASE frames = << >>
    <3>1. Append(frames, i)[1] = i
      BY <2>1
    <3> QED BY <2>1, <3>1 DEF Exact, Decodable
  <2>2. CASE frames # << >>
    <3>1. Append(frames, i)[1] = frames[1]
      BY <1>0, <2>2
    <3> QED BY <2>2, <3>1 DEF Exact, Decodable
  <2> QED BY <2>1, <2>2
<1>5. Configured(lg, ngot, made, cfg)
  <2>1. ASSUME NEW n \in 0 .. Len(got), NEW c, NewestOf(lg, got, n, c)
        PROVE  NewestOf(lg, ngot, n, c)
    <3>1. \A k \in 1 .. n : ngot[k] = got[k]
      BY <1>0, <1>1
    <3>2. {k \in 1 .. n : lg[ngot[k]] = "cfg"} = {k \in 1 .. n : lg[got[k]] = "cfg"}
      BY <3>1
    <3> QED BY <2>1, <3>1, <3>2, Zenon DEF NewestOf
  <2>2. \A k \in 1 .. Len(made) : k \in 0 .. Len(made)
    BY <1>0
  <2>3. Len(made) \in 0 .. Len(made)
    BY <1>0
  <2> QED BY <1>0, <2>1, <2>2, <2>3, Zenon DEF Exact, Configured
<1> QED BY <1>2, <1>3, <1>4, <1>5 DEF Exact, ngot

\* The configuration of a segment that is about to be cut.
MuxOf(lg, frames, cfg) ==
  LET c == {k \in DOMAIN frames : lg[frames[k]] = "cfg"} IN
  IF c = {} THEN cfg ELSE <<frames[Latest(c)]>>

\* A segment is cut.
LEMMA ExactPush ==
  ASSUME NEW lg \in Seq(Kinds), NEW got, NEW frames, NEW made, NEW cfg, NEW index \in Nat,
         Exact(lg, got, frames, made, cfg), frames # << >>
  PROVE  LET seg == [index |-> index, cfg |-> MuxOf(lg, frames, cfg), frames |-> frames,
                     upto |-> Len(got)]
         IN Exact(lg, got, << >>, Append(made, seg), MuxOf(lg, frames, cfg))
<1> DEFINE ncfg == MuxOf(lg, frames, cfg)
           seg == [index |-> index, cfg |-> ncfg, frames |-> frames, upto |-> Len(got)]
           nmade == Append(made, seg)
           last == CutOf(made, Len(made))
<1>0. /\ got \in Seq(Nat) /\ frames \in Seq(Nat) /\ made \in Seq(Made) /\ cfg \in Seq(Nat)
      /\ Len(made) \in Nat /\ Len(got) \in Nat /\ last \in 0 .. Len(got)
      /\ \A k \in 0 .. Len(made) : CutOf(made, k) \in 0 .. Len(got)
  <2>1. Pieces(got, frames, made) /\ cfg \in Seq(Nat)
    BY DEF Exact, Configured
  <2>2. got \in Seq(Nat) /\ frames \in Seq(Nat) /\ made \in Seq(Made)
    BY <2>1 DEF Pieces
  <2>3. /\ Len(made) \in Nat /\ Len(got) \in Nat
        /\ \A k \in 0 .. Len(made) : CutOf(made, k) \in 0 .. Len(got)
    BY <2>1, CutBounds
  <2>4. Len(made) \in 0 .. Len(made)
    BY <2>3
  <2> QED BY <2>1, <2>2, <2>3, <2>4
<1>1. frames = SubSeq(got, last + 1, Len(got))
  BY DEF Exact, Pieces
<1>2. /\ Len(frames) = Len(got) - last
      /\ \A k \in 1 .. Len(frames) : frames[k] = got[last + k]
  <2>1. last + 1 \in Int /\ Len(got) \in Int /\ \A k \in last + 1 .. Len(got) : got[k] \in Nat
    BY <1>0
  <2> HIDE DEF last
  <2>2. /\ Len(frames) = (IF last + 1 <= Len(got) THEN Len(got) - (last + 1) + 1 ELSE 0)
        /\ \A k \in 1 .. Len(got) - (last + 1) + 1 : frames[k] = got[(last + 1) + k - 1]
    BY <1>1, <2>1, SubSeqProperties
  <2>3. Len(frames) = Len(got) - last
    BY <1>0, <2>2
  <2>4. \A k \in 1 .. Len(frames) : k \in 1 .. Len(got) - (last + 1) + 1 /\ (last + 1) + k - 1 = last + k
    BY <1>0, <2>3
  <2> QED BY <2>2, <2>3, <2>4
<1>3. ncfg \in Seq(Nat) /\ NewestOf(lg, got, Len(got), ncfg)
  <2> DEFINE c == {k \in DOMAIN frames : lg[frames[k]] = "cfg"}
             old == {i \in 1 .. last : lg[got[i]] = "cfg"}
             all == {i \in 1 .. Len(got) : lg[got[i]] = "cfg"}
  <2>0. NewestOf(lg, got, last, cfg) /\ DOMAIN frames = 1 .. Len(frames) /\ Len(frames) \in Nat
    BY <1>0 DEF Exact, Configured
  <2>1. CASE c = {}
    <3>1. ncfg = cfg
      BY <2>1 DEF MuxOf
    <3>2. \A i \in last + 1 .. Len(got) : i - last \in DOMAIN frames /\ got[i] = frames[i - last]
      <4> HIDE DEF last
      <4>1. \A i \in last + 1 .. Len(got) : i - last \in 1 .. Len(frames) /\ last + (i - last) = i
        BY <1>0, <1>2
      <4> QED BY <1>2, <2>0, <4>1
    <3>3. \A i \in last + 1 .. Len(got) : lg[got[i]] # "cfg"
      BY <2>1, <3>2
    <3>4. all = old
      <4> HIDE DEF last
      <4> QED BY <1>0, <3>3
    <3> QED BY <1>0, <2>0, <3>1, <3>4, Zenon DEF NewestOf
  <2>2. CASE c # {}
    <3>1. PICK m \in c : \A k \in c : k <= m
      BY <2>0, <2>2, GreatestOf, Zenon
    <3>2. Latest(c) \in c /\ \A k \in c : k <= Latest(c)
      BY <3>1 DEF Latest
    <3>3. ncfg = <<frames[Latest(c)]>>
      BY <2>2 DEF MuxOf
    <3> DEFINE x == last + Latest(c)
    <3>4. x \in 1 .. Len(got) /\ got[x] = frames[Latest(c)] /\ x \in all
      <4>1. Latest(c) \in 1 .. Len(frames) /\ lg[frames[Latest(c)]] = "cfg"
        BY <2>0, <3>2
      <4> HIDE DEF c, last
      <4> DEFINE mx == Latest(c)
      <4> HIDE DEF mx
      <4>1a. mx \in 1 .. Len(frames)
        BY <4>1 DEF mx
      <4>2a. last + mx \in 1 .. Len(got)
        BY <1>0, <1>2, <4>1a
      <4>2. x \in 1 .. Len(got)
        BY <4>2a DEF mx
      <4> QED BY <1>2, <4>1, <4>2
    <3>5. ASSUME NEW j \in all PROVE j <= x
      <4>1. CASE j <= last
        <5> HIDE DEF c, last
        <5>1. Latest(c) \in 1 .. Len(frames)
          BY <2>0, <3>2 DEF c
        <5> QED BY <1>0, <4>1, <5>1
      <4>2. CASE ~ (j <= last)
        <5>1. j - last \in 1 .. Len(frames) /\ got[j] = frames[j - last]
          <6> HIDE DEF last
          <6>1. j - last \in 1 .. Len(frames) /\ last + (j - last) = j
            BY <1>0, <1>2, <4>2
          <6> QED BY <1>2, <6>1
        <5>2. j - last \in c
          BY <2>0, <5>1
        <5>3. j - last <= Latest(c) /\ Latest(c) \in Nat
          BY <2>0, <3>2, <5>2
        <5> HIDE DEF c, last
        <5> QED BY <1>0, <5>3
      <4> QED BY <4>1, <4>2
    <3>6. \A j \in all : got[j] <= got[x]
      <4> SUFFICES ASSUME NEW j \in all PROVE got[j] <= got[x]
        OBVIOUS
      <4>0. j <= x /\ j \in 1 .. Len(got) /\ x \in 1 .. Len(got)
        BY <3>4, <3>5
      <4> HIDE DEF x
      <4>1. j < x \/ j = x
        BY <1>0, <4>0
      <4>2. \A a, b \in 1 .. Len(got) : a < b => got[a] < got[b]
        BY DEF Exact, Ordered
      <4>3. got[j] \in Nat /\ got[x] \in Nat
        BY <1>0, <4>0, ElementOfSeq, Zenon
      <4> QED BY <4>0, <4>1, <4>2, <4>3
    <3>7. ncfg = <<got[x]>> /\ all # {}
      BY <3>3, <3>4
    <3> HIDE DEF x, ncfg
    <3>8. got[x] \in Nat
      BY <1>0, <3>4, ElementOfSeq, Zenon
    <3>9. NewestOf(lg, got, Len(got), ncfg)
      BY <3>4, <3>6, <3>7, Zenon DEF NewestOf
    <3>10. ncfg \in Seq(Nat)
      BY <3>7, <3>8
    <3> QED BY <3>9, <3>10
  <2> QED BY <2>1, <2>2
<1> HIDE DEF ncfg
<1>4. seg \in Made
  BY <1>0, <1>3 DEF Made
<1>5. /\ nmade \in Seq(Made) /\ Len(nmade) = Len(made) + 1
      /\ \A k \in 1 .. Len(made) : nmade[k] = made[k]
      /\ nmade[Len(made) + 1] = seg
  BY <1>0, <1>4, AppendProperties
<1> HIDE DEF nmade, last
<1>6. /\ \A k \in 0 .. Len(made) : CutOf(nmade, k) = CutOf(made, k)
      /\ CutOf(nmade, Len(nmade)) = Len(got)
  <2>1. \A k \in 0 .. Len(made) : k = 0 \/ k \in 1 .. Len(made)
    BY <1>0
  <2>2. \A k \in 0 .. Len(made) : CutOf(nmade, k) = CutOf(made, k)
    BY <1>5, <2>1 DEF CutOf
  <2>3. Len(nmade) # 0
    BY <1>0, <1>5
  <2>4. CutOf(nmade, Len(nmade)) = seg.upto
    BY <1>5, <2>3 DEF CutOf
  <2> QED BY <2>2, <2>4
<1>7. \A k \in 1 .. Len(nmade) : k \in 1 .. Len(made) \/ (k = Len(made) + 1 /\ k = Len(nmade))
  BY <1>0, <1>5
<1>8. Pieces(got, << >>, nmade)
  <2>1. ASSUME NEW k \in 1 .. Len(nmade)
        PROVE  /\ CutOf(nmade, k - 1) <= CutOf(nmade, k) /\ CutOf(nmade, k) <= Len(got)
               /\ nmade[k].frames = SubSeq(got, CutOf(nmade, k - 1) + 1, CutOf(nmade, k))
    <3>1. CASE k \in 1 .. Len(made)
      <4>1. k - 1 \in 0 .. Len(made) /\ k \in 0 .. Len(made)
        BY <1>0, <3>1
      <4>2. CutOf(nmade, k - 1) = CutOf(made, k - 1) /\ CutOf(nmade, k) = CutOf(made, k) /\ nmade[k] = made[k]
        BY <1>5, <1>6, <3>1, <4>1
      <4> QED BY <3>1, <4>2 DEF Exact, Pieces
    <3>2. CASE k = Len(made) + 1 /\ k = Len(nmade)
      <4>1. k - 1 = Len(made) /\ Len(made) \in 0 .. Len(made)
        BY <1>0, <3>2
      <4>2. CutOf(nmade, k - 1) = last /\ CutOf(nmade, k) = Len(got)
        BY <1>6, <3>2, <4>1 DEF last
      <4>3. nmade[k].frames = frames
        BY <1>5, <3>2
      <4>4. last <= Len(got) /\ Len(got) <= Len(got)
        BY <1>0
      <4> QED BY <1>1, <4>2, <4>3, <4>4, Zenon
    <3> QED BY <1>7, <3>1, <3>2
  <2>2. SubSeq(got, CutOf(nmade, Len(nmade)) + 1, Len(got)) = << >>
    <3>1. Len(got) + 1 \in Int /\ Len(got) \in Int /\ Len(got) < Len(got) + 1
      BY <1>0
    <3>2. SubSeq(got, Len(got) + 1, Len(got)) = << >>
      BY <3>1, SubSeqEmpty
    <3> QED BY <1>6, <3>2
  <2>3. << >> \in Seq(Nat)
    OBVIOUS
  <2> QED BY <1>0, <1>5, <2>1, <2>2, <2>3, Zenon DEF Pieces
<1>9. Decodable(lg, << >>, nmade)
  <2> SUFFICES ASSUME NEW k \in 2 .. Len(nmade)
               PROVE  nmade[k].frames # << >> /\ lg[nmade[k].frames[1]] # "other"
    BY DEF Decodable
  <2>1. CASE k \in 1 .. Len(made)
    <3>1. k \in 2 .. Len(made) /\ nmade[k] = made[k]
      BY <1>0, <1>5, <2>1
    <3> QED BY <3>1 DEF Exact, Decodable
  <2>2. CASE k = Len(made) + 1
    <3>1. made # << >> /\ nmade[k].frames = frames
      BY <1>0, <1>5, <2>2
    <3> QED BY <3>1 DEF Exact, Decodable
  <2> QED BY <1>0, <1>5, <2>1, <2>2
<1>10. Configured(lg, got, nmade, ncfg)
  <2>1. ASSUME NEW k \in 1 .. Len(nmade) PROVE NewestOf(lg, got, CutOf(nmade, k), nmade[k].cfg)
    <3>1. CASE k \in 1 .. Len(made)
      <4>1. k \in 0 .. Len(made)
        BY <1>0, <3>1
      <4> QED BY <1>5, <1>6, <3>1, <4>1, Zenon DEF Exact, Configured
    <3>2. CASE k = Len(made) + 1 /\ k = Len(nmade)
      BY <1>3, <1>5, <1>6, <3>2
    <3> QED BY <1>7, <3>1, <3>2
  <2> QED BY <1>3, <1>6, <2>1 DEF Configured
<1> QED BY <1>8, <1>9, <1>10 DEF Exact, nmade, ncfg

\* The source publishes a frame more.
LEMMA ExactLog ==
  ASSUME NEW lg \in Seq(Kinds), NEW got, NEW frames, NEW made, NEW cfg, NEW f \in Kinds,
         Exact(lg, got, frames, made, cfg)
  PROVE  Exact(Append(lg, f), got, frames, made, cfg)
<1> DEFINE nlg == Append(lg, f)
<1>0. /\ got \in Seq(Nat) /\ frames \in Seq(Nat) /\ made \in Seq(Made)
      /\ Len(made) \in Nat /\ Len(got) \in Nat
      /\ \A k \in 0 .. Len(made) : CutOf(made, k) \in 0 .. Len(got)
      /\ \A k \in 1 .. Len(got) : got[k] \in 1 .. Len(lg)
  BY CutBounds, Zenon DEF Exact, Pieces, Ordered
<1>1. Len(lg) \in Nat /\ Len(nlg) = Len(lg) + 1 /\ \A i \in 1 .. Len(lg) : nlg[i] = lg[i]
  BY AppendProperties
<1> HIDE DEF nlg
<1>2. Ordered(nlg, got)
  BY <1>0, <1>1 DEF Exact, Ordered
<1>3. ASSUME NEW a \in Nat, NEW b \in Nat, a <= b, b <= Len(got), NEW p, p = SubSeq(got, a + 1, b), p # << >>
      PROVE  p[1] \in 1 .. Len(lg)
  <2>1. a + 1 \in Int /\ b \in Int /\ \A k \in a + 1 .. b : got[k] \in Nat
    BY <1>0, <1>3
  <2>2. a < b
    BY <1>3, SubSeqEmpty
  <2>3. 1 \in 1 .. b - (a + 1) + 1 /\ a + 1 \in 1 .. Len(got) /\ (a + 1) + 1 - 1 = a + 1
    BY <1>0, <1>3, <2>2
  <2>4. p[1] = got[(a + 1) + 1 - 1]
    BY <1>3, <2>1, <2>3, SubSeqProperties
  <2> QED BY <1>0, <2>3, <2>4
<1>4. Decodable(nlg, frames, made)
  <2>1. ASSUME NEW k \in 2 .. Len(made) PROVE made[k].frames # << >> /\ nlg[made[k].frames[1]] # "other"
    <3>1. k \in 1 .. Len(made) /\ k \in 0 .. Len(made) /\ k - 1 \in 0 .. Len(made)
      BY <1>0
    <3>2. /\ CutOf(made, k - 1) <= CutOf(made, k)
          /\ made[k].frames = SubSeq(got, CutOf(made, k - 1) + 1, CutOf(made, k))
          /\ made[k].frames # << >> /\ lg[made[k].frames[1]] # "other"
      BY <3>1 DEF Exact, Pieces, Decodable
    <3>3. CutOf(made, k - 1) \in Nat /\ CutOf(made, k) \in Nat /\ CutOf(made, k) <= Len(got)
      BY <1>0, <3>1
    <3>4. made[k].frames[1] \in 1 .. Len(lg)
      BY <1>3, <3>2, <3>3, Zenon
    <3> QED BY <1>1, <3>2, <3>4, Zenon
  <2>2. ASSUME made # << >>, frames # << >> PROVE nlg[frames[1]] # "other"
    <3>1. frames = SubSeq(got, CutOf(made, Len(made)) + 1, Len(got)) /\ lg[frames[1]] # "other"
      BY <2>2 DEF Exact, Pieces, Decodable
    <3>2. CutOf(made, Len(made)) \in Nat /\ CutOf(made, Len(made)) <= Len(got)
      BY <1>0
    <3>3. frames[1] \in 1 .. Len(lg)
      <4> DEFINE a == CutOf(made, Len(made))
      <4>1. a \in Nat /\ a <= Len(got) /\ frames = SubSeq(got, a + 1, Len(got))
        BY <3>1, <3>2
      <4> HIDE DEF a
      <4>2. Len(got) \in Nat /\ Len(got) <= Len(got)
        BY <1>0
      <4> QED BY <1>3, <2>2, <4>1, <4>2, Zenon
    <3> QED BY <1>1, <3>1, <3>3, Zenon
  <2> QED BY <2>1, <2>2 DEF Decodable
<1>5. Configured(nlg, got, made, cfg)
  <2>1. ASSUME NEW n \in 0 .. Len(got), NEW c, NewestOf(lg, got, n, c)
        PROVE  NewestOf(nlg, got, n, c)
    <3>1. \A k \in 1 .. n : nlg[got[k]] = lg[got[k]]
      BY <1>0, <1>1
    <3>2. {k \in 1 .. n : nlg[got[k]] = "cfg"} = {k \in 1 .. n : lg[got[k]] = "cfg"}
      BY <3>1
    <3> QED BY <2>1, <3>2, Zenon DEF NewestOf
  <2>2. \A k \in 1 .. Len(made) : k \in 0 .. Len(made)
    BY <1>0
  <2>3. Len(made) \in 0 .. Len(made)
    BY <1>0
  <2> QED BY <1>0, <2>1, <2>2, <2>3, Zenon DEF Exact, Configured
<1> QED BY <1>2, <1>4, <1>5 DEF Exact, nlg

SegSpec == SegInit /\ [][SegNext]_segVars

TaskFields == {"gen", "pc", "pos", "got", "frames", "cfg", "index", "segs", "init", "made"}
ViewFields == {"pc", "gen", "task", "seq", "list", "n"}

IsQueue(q) == q \in Seq(Range(q))

\* The number of the first segment that is kept.
First(s) == s.index - Len(s.segs)

\* The segments kept are the last ones, in a row.
SegsOK(s) ==
  /\ s.index \in Nat /\ IsQueue(s.segs)
  /\ \A j \in 1 .. Len(s.segs) : s.segs[j].index = First(s) + j - 1

\* It is a number.
LEMMA FirstInt ==
  ASSUME NEW s, SegsOK(s)
  PROVE  First(s) \in Int
<1>1. Len(s.segs) \in Nat /\ s.index \in Nat
  BY LenProperties DEF SegsOK, IsQueue
<1> QED BY <1>1 DEF First

HlsOK(s) ==
  /\ s.pos \in 0 .. Len(log[s.gen])
  /\ Exact(log[s.gen], s.got, s.frames, s.made, s.cfg)
  /\ s.pc = "begin" => s.got = << >> /\ s.frames = << >> /\ s.cfg = << >>
  /\ IF s.pc \in {"begin", "replayed"} THEN s.made = << >> /\ s.cfg = << >>
     ELSE \A k \in 1 .. Len(s.got) : s.got[k] <= s.pos
  /\ s.pc = "loop" /\ s.made # << >> => s.frames # << >>

TaskOK(s) ==
  /\ DOMAIN s = TaskFields /\ s.gen \in 1 .. gen /\ SegsOK(s)
  /\ segKind = "hls" => HlsOK(s)

ListOK(seq, l) ==
  l # << >> => /\ seq <= l[1]
               /\ segKind = "cmaf" => seq = l[1]
               /\ \A i \in 1 .. Len(l) - 1 : l[i + 1] = l[i] + 1

ViewerOK(w) ==
  /\ DOMAIN w = ViewFields
  /\ w.pc \in {"ensure", "segment", "init"} => w.gen \in 1 .. gen
  /\ w.pc = "ensure" => w.list = << >>
  /\ w.pc \in {"count", "list"} => w.task \in 1 .. Len(segTask) /\ w.list = << >>
  /\ w.pc = "list" /\ segKind = "hls" => w.seq \in Int /\ w.seq <= First(segTask[w.task])
  /\ w.pc = "respond" => ListOK(w.seq, w.list)

SegBase ==
  /\ script \in Seq(Seq(Kinds))
  /\ gen \in 0 .. Len(script) /\ (registered => gen > 0)
  /\ log \in [1 .. Len(script) -> Seq(Kinds)]
  /\ IsQueue(segTask) /\ segEntry \in 0 .. Len(segTask)
  /\ DOMAIN viewer = Viewers

\* The inductive invariant.
SegInv ==
  /\ SegBase
  /\ \A t \in 1 .. Len(segTask) : TaskOK(segTask[t])
  /\ \A v \in Viewers : ViewerOK(viewer[v])
  /\ TaskReachable

\* A sequence of numbers after an append.
LEMMA AppendFills ==
  ASSUME NEW q \in Seq(Nat), NEW x \in Nat
  PROVE  /\ Append(q, x) # << >> /\ Len(q) \in Nat /\ Len(Append(q, x)) = Len(q) + 1
         /\ \A k \in 1 .. Len(q) : Append(q, x)[k] = q[k]
         /\ Append(q, x)[Len(q) + 1] = x
BY AppendProperties, LenProperties

\* A queue after an append ...
LEMMA QueueAppend ==
  ASSUME NEW q, NEW x, IsQueue(q)
  PROVE  /\ IsQueue(Append(q, x)) /\ Append(q, x) # << >>
         /\ Len(q) \in Nat /\ DOMAIN q = 1 .. Len(q)
         /\ Len(Append(q, x)) = Len(q) + 1
         /\ \A i \in 1 .. Len(q) : Append(q, x)[i] = q[i]
         /\ Append(q, x)[Len(q) + 1] = x
<1>1. q \in Seq(Range(q) \cup {x}) /\ x \in Range(q) \cup {x}
  BY SeqMonotonic DEF IsQueue
<1>2. Append(q, x) \in Seq(Range(Append(q, x)))
  BY <1>1, AppendProperties, SeqOfRange, Zenon
<1> QED BY <1>1, <1>2, AppendProperties, LenProperties DEF IsQueue

\* ... without its first element ...
LEMMA QueueTail ==
  ASSUME NEW q, IsQueue(q), q # << >>
  PROVE  /\ IsQueue(Tail(q)) /\ Len(q) \in Nat \ {0} /\ Len(Tail(q)) = Len(q) - 1
         /\ \A i \in 1 .. Len(Tail(q)) : Tail(q)[i] = q[i + 1]
<1>1. Tail(q) \in Seq(Range(Tail(q)))
  BY HeadTailProperties, SeqOfRange, Zenon DEF IsQueue
<1> QED BY <1>1, HeadTailProperties, EmptySeq DEF IsQueue

\* ... and with another element at a place.
LEMMA QueueExcept ==
  ASSUME NEW q, IsQueue(q), NEW t \in 1 .. Len(q), NEW x
  PROVE  /\ IsQueue([q EXCEPT ![t] = x]) /\ Len([q EXCEPT ![t] = x]) = Len(q)
         /\ \A i \in 1 .. Len(q) : [q EXCEPT ![t] = x][i] = IF i = t THEN x ELSE q[i]
<1>1. q \in Seq(Range(q) \cup {x}) /\ x \in Range(q) \cup {x}
  BY SeqMonotonic DEF IsQueue
<1>2. [q EXCEPT ![t] = x] \in Seq(Range([q EXCEPT ![t] = x]))
  BY <1>1, ExceptSeq, SeqOfRange, Zenon
<1> QED BY <1>1, <1>2, ExceptSeq DEF IsQueue

\* A segment more is kept, or takes the place of the first.
LEMMA PushKeeps ==
  ASSUME NEW s, NEW keep, DOMAIN s = TaskFields, SegsOK(s)
  PROVE  LET seg == [index |-> s.index, cfg |-> s.cfg, frames |-> s.frames, upto |-> Len(s.got)]
             r   == PushSeg(s, keep)
         IN /\ DOMAIN r = TaskFields /\ SegsOK(r) /\ First(s) <= First(r)
            /\ r.frames = << >> /\ r.made = Append(s.made, seg)
            /\ r.gen = s.gen /\ r.pc = s.pc /\ r.pos = s.pos /\ r.got = s.got /\ r.cfg = s.cfg
<1> DEFINE seg == [index |-> s.index, cfg |-> s.cfg, frames |-> s.frames, upto |-> Len(s.got)]
           r == PushSeg(s, keep)
           segs == Append(s.segs, seg)
<1>1. /\ DOMAIN r = TaskFields
      /\ r.index = s.index + 1 /\ r.frames = << >> /\ r.made = Append(s.made, seg)
      /\ r.gen = s.gen /\ r.pc = s.pc /\ r.pos = s.pos /\ r.got = s.got /\ r.cfg = s.cfg
  BY DEF PushSeg, TaskFields
<1> DEFINE n == Len(s.segs)
<1>2. /\ IsQueue(segs) /\ segs # << >> /\ n \in Nat /\ Len(segs) = n + 1
      /\ \A j \in 1 .. n : segs[j] = s.segs[j]
      /\ segs[n + 1] = seg
  <2>1. IsQueue(s.segs)
    BY DEF SegsOK
  <2> HIDE DEF seg
  <2> QED BY <2>1, QueueAppend
<1>4. s.index \in Nat /\ \A j \in 1 .. n : s.segs[j].index = s.index - n + j - 1
  BY DEF SegsOK, First
<1> DEFINE tl == Tail(segs)
           cut == Len(segs) > keep
<1>1a. r.segs = IF cut THEN tl ELSE segs
  BY DEF PushSeg, TaskFields
<1>1b. r.index = s.index + 1
  BY <1>1
<1> HIDE DEF segs, n, r, cut
<1>3. /\ IsQueue(tl) /\ Len(tl) = n
      /\ \A j \in 1 .. n : tl[j] = segs[j + 1]
  <2>1. /\ IsQueue(tl) /\ Len(tl) = Len(segs) - 1
        /\ \A j \in 1 .. Len(tl) : tl[j] = segs[j + 1]
    BY <1>2, QueueTail
  <2>2. Len(tl) = n
    BY <1>2, <2>1
  <2> QED BY <2>1, <2>2
<1> HIDE DEF tl
<1>5. \A j \in 1 .. n + 1 : segs[j].index = s.index - n + j - 1
  <2> SUFFICES ASSUME NEW j \in 1 .. n + 1 PROVE segs[j].index = s.index - n + j - 1
    OBVIOUS
  <2>1. CASE j \in 1 .. n
    BY <1>2, <1>4, <2>1
  <2>2. CASE j = n + 1
    <3>1. segs[j].index = s.index
      BY <1>2, <2>2
    <3>2. s.index = s.index - n + j - 1
      BY <1>2, <1>4, <2>2
    <3> QED BY <3>1, <3>2
  <2> QED BY <1>2, <2>1, <2>2
<1>6. CASE cut
  <2>1. r.segs = tl
    BY <1>1a, <1>6
  <2>2. First(r) = s.index + 1 - n
    <3>1. r.index = s.index + 1 /\ Len(r.segs) = n
      BY <1>1b, <1>3, <2>1
    <3> QED BY <1>2, <1>4, <3>1 DEF First
  <2>3. \A j \in 1 .. n : tl[j].index = s.index + 1 - n + j - 1
    <3> SUFFICES ASSUME NEW j \in 1 .. n PROVE tl[j].index = s.index + 1 - n + j - 1
      OBVIOUS
    <3>1. tl[j] = segs[j + 1]
      BY <1>3
    <3>2. j + 1 \in 1 .. n + 1
      BY <1>2
    <3>3. segs[j + 1].index = s.index - n + (j + 1) - 1
      BY <1>5, <3>2
    <3>4. s.index - n + (j + 1) - 1 = s.index + 1 - n + j - 1
      BY <1>2, <1>4
    <3> QED BY <3>1, <3>3, <3>4
  <2>4. SegsOK(r)
    <3>1. r.index \in Nat /\ IsQueue(r.segs) /\ Len(r.segs) = n
      BY <1>1b, <1>3, <1>4, <2>1
    <3> QED BY <2>1, <2>2, <2>3, <3>1 DEF SegsOK
  <2>5. First(s) <= First(r)
    <3>1. First(s) = s.index - n
      BY DEF First, n
    <3> QED BY <1>2, <1>4, <2>2, <3>1
  <2> QED BY <1>1, <2>4, <2>5 DEF r
<1>7. CASE ~ cut
  <2>1. r.segs = segs
    BY <1>1a, <1>7
  <2>2. First(r) = s.index - n
    <3>1. First(r) = s.index + 1 - (n + 1)
      <4>1. r.index = s.index + 1 /\ Len(r.segs) = n + 1
        BY <1>1b, <1>2, <2>1
      <4>2. n \in Nat /\ s.index \in Nat
        BY <1>2, <1>4
      <4> QED BY <4>1, <4>2 DEF First
    <3> QED BY <1>2, <1>4, <3>1
  <2>3. SegsOK(r)
    <3>1. r.index \in Nat /\ IsQueue(r.segs) /\ Len(r.segs) = n + 1
      BY <1>1b, <1>2, <1>4, <2>1
    <3> QED BY <1>5, <2>1, <2>2, <3>1 DEF SegsOK
  <2>4. First(s) <= First(r)
    <3>1. First(s) = s.index - n
      BY DEF First, n
    <3> QED BY <1>2, <1>4, <2>2, <3>1
  <2> QED BY <1>1, <2>3, <2>4 DEF r
<1> QED BY <1>6, <1>7

Running(s) == s.pc \notin {"stop_init", "ended"}

\* A step of a task.
LEMMA SegStepKeeps ==
  ASSUME SegInv, NEW t \in 1 .. Len(segTask), NEW rec,
         segTask' = [segTask EXCEPT ![t] = rec],
         TaskOK(rec), First(segTask[t]) <= First(rec),
         UNCHANGED <<segKind, gen, registered, script, log, viewer>>,
         \/ UNCHANGED segEntry /\ Running(segTask[t])
         \/ UNCHANGED segEntry /\ ~ Running(rec)
         \/ segEntry' = 0 /\ Running(segTask[t]) /\ ~ Running(rec)
  PROVE  SegInv'
<1>1. /\ IsQueue(segTask') /\ Len(segTask') = Len(segTask) /\ Len(segTask) \in Nat
      /\ \A i \in 1 .. Len(segTask) : segTask'[i] = IF i = t THEN rec ELSE segTask[i]
      /\ DOMAIN segTask = 1 .. Len(segTask) /\ DOMAIN segTask' = 1 .. Len(segTask)
  <2>1. IsQueue(segTask)
    BY DEF SegInv, SegBase
  <2> QED BY <2>1, QueueExcept, QueueAppend, Zenon
<1>2. SegBase'
  BY <1>1 DEF SegInv, SegBase
<1>3. ASSUME NEW u \in 1 .. Len(segTask') PROVE TaskOK(segTask[u])'
  <2>1. TaskOK(segTask'[u])
    BY <1>1 DEF SegInv
  <2> QED BY <2>1 DEF TaskOK, SegsOK, HlsOK
<1>4. ASSUME NEW v \in Viewers PROVE ViewerOK(viewer[v])'
  <2>1. ViewerOK(viewer[v])
    BY DEF SegInv
  <2>2. ASSUME viewer[v].pc = "list", segKind = "hls"
        PROVE  viewer[v].seq \in Int /\ viewer[v].seq <= First(segTask'[viewer[v].task])
    <3> DEFINE u == viewer[v].task
    <3>1. u \in 1 .. Len(segTask) /\ viewer[v].seq \in Int /\ viewer[v].seq <= First(segTask[u])
      BY <2>1, <2>2 DEF ViewerOK
    <3>2. CASE u # t
      BY <1>1, <3>1, <3>2
    <3>3. CASE u = t
      <4>1. segTask'[u] = rec
        BY <1>1, <3>3
      <4>2. TaskOK(segTask[t])
        BY DEF SegInv
      <4>3. First(segTask[t]) \in Int /\ First(rec) \in Int
        BY <4>2, FirstInt DEF TaskOK
      <4> QED BY <3>1, <3>3, <4>1, <4>3
    <3> QED BY <3>2, <3>3
  <2> QED BY <1>1, <2>1, <2>2 DEF ViewerOK, ListOK
<1>5. TaskReachable'
  BY <1>1 DEF SegInv, TaskReachable, Running
<1> QED BY <1>2, <1>3, <1>4, <1>5 DEF SegInv

\* A step of a viewer.
LEMMA ViewStepKeeps ==
  ASSUME SegInv, NEW v \in Viewers, NEW w, viewer' = [viewer EXCEPT ![v] = w], ViewerOK(w),
         UNCHANGED <<segKind, gen, registered, script, log, segEntry, segTask>>
  PROVE  SegInv'
<1>1. DOMAIN viewer = Viewers
  BY DEF SegInv, SegBase
<1>2. SegBase' /\ TaskReachable'
  BY <1>1, SMTT(20) DEF SegInv, SegBase, TaskReachable
<1>3. ASSUME NEW u \in 1 .. Len(segTask') PROVE TaskOK(segTask[u])'
  <2>1. TaskOK(segTask[u])
    BY <1>3, SMTT(20) DEF SegInv
  <2> QED BY <2>1 DEF TaskOK, SegsOK, HlsOK
<1>4. ASSUME NEW x \in Viewers PROVE ViewerOK(viewer[x])'
  <2>1. ViewerOK(viewer'[x])
    BY <1>1 DEF SegInv
  <2> QED BY <2>1 DEF ViewerOK, ListOK
<1> QED BY <1>2, <1>3, <1>4 DEF SegInv

\* The last index of a set of them.
LEMMA LatestOf ==
  ASSUME NEW n \in Nat, NEW T \in SUBSET (1 .. n), T # {}
  PROVE  Latest(T) \in T
BY GreatestOf, Zenon DEF Latest

\* A task reads the frames of a source that was published.
LEMMA TaskLog ==
  ASSUME SegInv, NEW t \in 1 .. Len(segTask)
  PROVE  /\ log[segTask[t].gen] \in Seq(Kinds) /\ TaskOK(segTask[t])
         /\ Len(log[segTask[t].gen]) \in Nat
<1>1. TaskOK(segTask[t]) /\ SegBase
  BY DEF SegInv
<1>2. segTask[t].gen \in 1 .. Len(script)
  BY <1>1, LenProperties DEF TaskOK, SegBase
<1>3. log[segTask[t].gen] \in Seq(Kinds)
  BY <1>1, <1>2 DEF SegBase
<1> QED BY <1>1, <1>3, LenProperties

\* A task record with the same segments.
LEMMA SameSegs ==
  ASSUME NEW s, NEW rec, TaskOK(s), DOMAIN rec = TaskFields,
         rec.gen = s.gen, rec.index = s.index, rec.segs = s.segs,
         segKind = "hls" => HlsOK(rec)
  PROVE  TaskOK(rec) /\ First(s) <= First(rec)
<1>1. First(rec) = First(s)
  BY DEF First
<1>2. SegsOK(rec)
  BY <1>1 DEF TaskOK, SegsOK
<1>3. First(s) \in Int
  BY FirstInt DEF TaskOK
<1> QED BY <1>1, <1>2, <1>3 DEF TaskOK

\* The task of HLS begins.
LEMMA HlsStarts ==
  ASSUME SegInv, NEW t \in 1 .. Len(segTask), start_hls_task(t)
  PROVE  SegInv'
<1> DEFINE s == segTask[t]
           lg == log[s.gen]
           c == LastConfig(s.gen, Len(lg))
           rec == [s EXCEPT !.pc = "replayed", !.frames = c, !.got = c]
<1>1. /\ s.pc = "begin" /\ segKind = "hls" /\ SegStep(t, rec)
  BY DEF start_hls_task
<1>2. TaskOK(s) /\ lg \in Seq(Kinds) /\ Len(lg) \in Nat
  BY TaskLog, SMTT(20)
<1>3. c \in Seq(Nat) /\ Len(c) \in {0, 1} /\ \A k \in 1 .. Len(c) : c[k] \in 1 .. Len(lg)
  <2> DEFINE T == {i \in 1 .. Len(lg) : lg[i] = "cfg"}
  <2>1. CASE T = {}
    BY <2>1 DEF LastConfig
  <2>2. CASE T # {}
    <3>1. Latest(T) \in 1 .. Len(lg)
      BY <1>2, <2>2, LatestOf, Zenon
    <3>2. c = <<Latest(T)>>
      BY <2>2 DEF LastConfig
    <3> HIDE DEF T, c
    <3> QED BY <1>2, <3>1, <3>2
  <2> QED BY <2>1, <2>2
<1> HIDE DEF c
<1>4. /\ DOMAIN rec = TaskFields /\ rec.pc = "replayed" /\ rec.frames = c /\ rec.got = c
      /\ rec.gen = s.gen /\ rec.pos = s.pos /\ rec.cfg = s.cfg /\ rec.made = s.made
      /\ rec.index = s.index /\ rec.segs = s.segs
  BY <1>2 DEF TaskOK, TaskFields
<1>5. HlsOK(s) /\ s.made = << >> /\ s.cfg = << >>
  BY <1>1, <1>2, Zenon DEF TaskOK, HlsOK
<1> HIDE DEF rec
<1>6. Exact(lg, c, c, << >>, << >>)
  <2>1. SubSeq(c, 0 + 1, Len(c)) = c
    BY <1>3, SubSeqFull
  <2>2. Pieces(c, c, << >>)
    BY <1>3, <2>1 DEF Pieces, CutOf
  <2>3. Ordered(lg, c)
    BY <1>3 DEF Ordered
  <2>4. Decodable(lg, c, << >>)
    BY DEF Decodable
  <2>5. Configured(lg, c, << >>, << >>)
    BY DEF Configured, NewestOf, CutOf
  <2> QED BY <2>2, <2>3, <2>4, <2>5 DEF Exact
<1>7. HlsOK(rec)
  BY <1>4, <1>5, <1>6 DEF HlsOK
<1>8. TaskOK(rec) /\ First(s) <= First(rec)
  BY <1>2, <1>4, <1>7, SameSegs, Zenon
<1>9. Running(s)
  BY <1>1 DEF Running
<1> QED BY <1>1, <1>8, <1>9, SegStepKeeps, Zenon DEF SegStep

\* The task of HLS subscribes, or finds that it was overrun.
LEMMA HlsMoves ==
  ASSUME SegInv, NEW t \in 1 .. Len(segTask), hls_subscribe(t) \/ seg_lagged(t)
  PROVE  SegInv'
<1> DEFINE s == segTask[t]
           lg == log[s.gen]
<1>0. TaskOK(s) /\ lg \in Seq(Kinds) /\ Len(lg) \in Nat /\ Running(s)
  BY TaskLog DEF Running, hls_subscribe, seg_lagged
<1>1. CASE hls_subscribe(t)
  <2> DEFINE rec == [s EXCEPT !.pc = "loop", !.pos = Len(lg)]
  <2>1. s.pc = "replayed" /\ SegStep(t, rec)
    BY <1>1 DEF hls_subscribe
  <2>2. /\ DOMAIN rec = TaskFields /\ rec.pc = "loop" /\ rec.pos = Len(lg)
        /\ rec.gen = s.gen /\ rec.got = s.got /\ rec.frames = s.frames /\ rec.cfg = s.cfg
        /\ rec.made = s.made /\ rec.index = s.index /\ rec.segs = s.segs
    BY <1>0 DEF TaskOK, TaskFields
  <2> HIDE DEF rec
  <2>3. segKind = "hls" => HlsOK(rec)
    <3> SUFFICES ASSUME segKind = "hls" PROVE HlsOK(rec)
      OBVIOUS
    <3>1. HlsOK(s)
      BY <1>0 DEF TaskOK
    <3>2. s.made = << >> /\ \A k \in 1 .. Len(s.got) : s.got[k] <= Len(lg)
      BY <1>0, <2>1, <3>1 DEF HlsOK, Exact, Ordered
    <3>3. Len(lg) \in 0 .. Len(lg)
      BY <1>0
    <3> QED BY <2>2, <3>1, <3>2, <3>3 DEF HlsOK
  <2>4. TaskOK(rec) /\ First(s) <= First(rec)
    BY <1>0, <2>2, <2>3, SameSegs, Zenon
  <2> QED BY <1>0, <2>1, <2>4, SegStepKeeps, Zenon DEF SegStep
<1>2. CASE seg_lagged(t)
  <2> DEFINE rec == [s EXCEPT !.pos = @ + 1]
  <2>1. s.pc = "loop" /\ s.pos + 1 < Len(lg) /\ SegStep(t, rec)
    BY <1>2 DEF seg_lagged
  <2>2. /\ DOMAIN rec = TaskFields /\ rec.pc = "loop" /\ rec.pos = s.pos + 1
        /\ rec.gen = s.gen /\ rec.got = s.got /\ rec.frames = s.frames /\ rec.cfg = s.cfg
        /\ rec.made = s.made /\ rec.index = s.index /\ rec.segs = s.segs
    BY <1>0, <2>1 DEF TaskOK, TaskFields
  <2> HIDE DEF rec
  <2>3. segKind = "hls" => HlsOK(rec)
    <3> SUFFICES ASSUME segKind = "hls" PROVE HlsOK(rec)
      OBVIOUS
    <3>1. HlsOK(s)
      BY <1>0 DEF TaskOK
    <3>2. s.pos \in 0 .. Len(lg) /\ \A k \in 1 .. Len(s.got) : s.got[k] <= s.pos
      BY <2>1, <3>1 DEF HlsOK
    <3>3. s.pos + 1 \in 0 .. Len(lg)
      BY <1>0, <2>1, <3>2
    <3>4. \A k \in 1 .. Len(s.got) : s.got[k] <= s.pos + 1
      <4>1. \A k \in 1 .. Len(s.got) : s.got[k] \in Nat
        BY <3>1, ExactNumbers, Zenon DEF HlsOK
      <4> QED BY <1>0, <3>2, <4>1
    <3> QED BY <2>1, <2>2, <3>1, <3>3, <3>4 DEF HlsOK
  <2>4. TaskOK(rec) /\ First(s) <= First(rec)
    BY <1>0, <2>2, <2>3, SameSegs, Zenon
  <2> QED BY <1>0, <2>1, <2>4, SegStepKeeps, Zenon DEF SegStep
<1> QED BY <1>1, <1>2

\* A segment of HLS is cut.
LEMMA HlsCuts ==
  ASSUME NEW s, NEW keep, DOMAIN s = TaskFields, SegsOK(s), s.frames # << >>,
         log[s.gen] \in Seq(Kinds), Exact(log[s.gen], s.got, s.frames, s.made, s.cfg)
  PROVE  LET r == PushSeg(MuxConfig(s), keep)
         IN /\ DOMAIN r = TaskFields /\ SegsOK(r) /\ First(s) <= First(r)
            /\ Exact(log[s.gen], s.got, << >>, r.made, r.cfg)
            /\ r.made # << >> /\ r.frames = << >>
            /\ r.gen = s.gen /\ r.pc = s.pc /\ r.pos = s.pos /\ r.got = s.got
<1> DEFINE lg == log[s.gen]
           m == MuxConfig(s)
           r == PushSeg(m, keep)
           cfg == MuxOf(lg, s.frames, s.cfg)
           seg == [index |-> s.index, cfg |-> cfg, frames |-> s.frames, upto |-> Len(s.got)]
<1>1. /\ DOMAIN m = TaskFields /\ m.cfg = cfg
      /\ m.gen = s.gen /\ m.pc = s.pc /\ m.pos = s.pos /\ m.got = s.got /\ m.frames = s.frames
      /\ m.index = s.index /\ m.segs = s.segs /\ m.made = s.made
  BY DEF MuxConfig, MuxOf, TaskFields
<1> HIDE DEF m, cfg
<1>2. SegsOK(m) /\ First(m) = First(s)
  BY <1>1, Zenon DEF SegsOK, First
<1>3. /\ DOMAIN r = TaskFields /\ SegsOK(r) /\ First(m) <= First(r)
      /\ r.frames = << >>
      /\ r.made = Append(m.made, [index |-> m.index, cfg |-> m.cfg, frames |-> m.frames, upto |-> Len(m.got)])
      /\ r.gen = m.gen /\ r.pc = m.pc /\ r.pos = m.pos /\ r.got = m.got /\ r.cfg = m.cfg
  BY <1>1, <1>2, PushKeeps, Zenon
<1> HIDE DEF r
<1>4. r.made = Append(s.made, seg) /\ r.cfg = cfg
  BY <1>1, <1>3
<1>5. s.index \in Nat
  BY DEF SegsOK
<1>6. Exact(lg, s.got, << >>, Append(s.made, seg), cfg)
  BY <1>5, ExactPush DEF cfg
<1>7. r.made # << >>
  <2>1. s.made \in Seq(Made) /\ Append(s.made, seg) \in Seq(Made)
    BY <1>6 DEF Exact, Pieces
  <2>2. Len(Append(s.made, seg)) # 0
    BY <2>1
  <2>3. Len(<< >>) = 0
    OBVIOUS
  <2> QED BY <1>4, <2>2, <2>3, Zenon
<1> QED BY <1>1, <1>2, <1>3, <1>4, <1>6, <1>7, Zenon DEF r, m

\* The muxer is given a frame.
LEMMA HlsReceives ==
  ASSUME SegInv, NEW t \in 1 .. Len(segTask), hls_recv(t)
  PROVE  SegInv'
<1> DEFINE s == segTask[t]
           lg == log[s.gen]
           i == s.pos + 1
           p == hls_push_frame(s, i)
           rec == [p EXCEPT !.pos = i, !.got = Append(@, i)]
<1>1. s.pc = "loop" /\ segKind = "hls" /\ i <= Len(lg) /\ SegStep(t, rec)
  BY DEF hls_recv
<1>2. TaskOK(s) /\ lg \in Seq(Kinds) /\ Len(lg) \in Nat
  BY TaskLog
<1>3. HlsOK(s) /\ SegsOK(s) /\ DOMAIN s = TaskFields
  BY <1>1, <1>2 DEF TaskOK
<1>4. /\ s.pos \in 0 .. Len(lg) /\ i \in 1 .. Len(lg)
      /\ \A k \in 1 .. Len(s.got) : s.got[k] < i
  <2>1. s.pos \in 0 .. Len(lg) /\ \A k \in 1 .. Len(s.got) : s.got[k] <= s.pos
    BY <1>1, <1>3 DEF HlsOK
  <2>2. \A k \in 1 .. Len(s.got) : s.got[k] \in Nat
    BY <1>3, ExactNumbers DEF HlsOK
  <2> QED BY <1>1, <1>2, <2>1, <2>2
<1> DEFINE cut == s.frames # << >> /\ lg[i] # "other" /\ i - s.frames[1] >= Target
           r == IF cut THEN PushSeg(MuxConfig(s), SegWindow) ELSE s
<1>5. p = [r EXCEPT !.frames = Append(@, i)]
  BY DEF hls_push_frame
<1>6. /\ DOMAIN r = TaskFields /\ SegsOK(r) /\ First(s) <= First(r)
      /\ Exact(lg, s.got, r.frames, r.made, r.cfg)
      /\ r.made # << >> /\ r.frames = << >> => lg[i] # "other"
      /\ r.gen = s.gen /\ r.pc = s.pc /\ r.pos = s.pos /\ r.got = s.got
  <2>1. CASE cut
    <3>1. Exact(lg, s.got, s.frames, s.made, s.cfg) /\ s.frames # << >> /\ lg[i] # "other"
      BY <1>3, <2>1 DEF HlsOK
    <3> HIDE DEF cut, lg, i
    <3>2. r = PushSeg(MuxConfig(s), SegWindow)
      BY <2>1
    <3> HIDE DEF r, s
    <3> QED BY <1>2, <1>3, <3>1, <3>2, HlsCuts, Zenon DEF lg
  <2>2. CASE ~ cut
    <3>1. Exact(lg, s.got, s.frames, s.made, s.cfg) /\ (s.made # << >> => s.frames # << >>)
      BY <1>1, <1>3 DEF HlsOK
    <3>2. r = s
      BY <2>2
    <3>3. First(s) \in Int
      BY <1>3, FirstInt
    <3> HIDE DEF r, s
    <3> QED BY <1>3, <3>1, <3>2, <3>3
  <2> QED BY <2>1, <2>2, Zenon
<1> HIDE DEF r
<1>7. /\ DOMAIN rec = TaskFields /\ rec.pos = i /\ rec.got = Append(s.got, i)
      /\ rec.frames = Append(r.frames, i) /\ rec.made = r.made /\ rec.cfg = r.cfg
      /\ rec.gen = s.gen /\ rec.pc = "loop" /\ rec.index = r.index /\ rec.segs = r.segs
  <2> HIDE DEF s
  <2> QED BY <1>1, <1>5, <1>6, Zenon DEF TaskFields
<1> HIDE DEF rec
<1>8. Exact(lg, Append(s.got, i), Append(r.frames, i), r.made, r.cfg)
  BY <1>2, <1>4, <1>6, ExactFrame, Zenon
<1>9. HlsOK(rec)
  <2>0. i \in Nat
    BY <1>2, <1>4
  <2>1. s.got \in Seq(Nat) /\ r.frames \in Seq(Nat) /\ i \in Nat
    <3> HIDE DEF s, i, lg
    <3> QED BY <1>6, <2>0, ExactNumbers
  <2>2. /\ Len(Append(s.got, i)) = Len(s.got) + 1 /\ Len(s.got) \in Nat
        /\ \A k \in 1 .. Len(s.got) : Append(s.got, i)[k] = s.got[k]
        /\ Append(s.got, i)[Len(s.got) + 1] = i /\ Append(r.frames, i) # << >>
    <3> HIDE DEF i, s
    <3> QED BY <2>1, AppendFills, Zenon
  <2>3. \A k \in 1 .. Len(s.got) : s.got[k] \in Nat
    BY <2>1, ElementOfSeq
  <2>4. ASSUME NEW k \in 1 .. Len(rec.got) PROVE rec.got[k] <= i
    <3> HIDE DEF i, s
    <3>1. CASE k = Len(s.got) + 1
      BY <1>7, <2>1, <2>2, <3>1
    <3>2. CASE k # Len(s.got) + 1
      <4>1. k \in 1 .. Len(s.got)
        BY <1>7, <2>2, <3>2
      <4>2. rec.got[k] = s.got[k] /\ s.got[k] \in Nat
        BY <1>7, <2>2, <2>3, <4>1
      <4> QED BY <1>4, <2>1, <4>1, <4>2
    <3> QED BY <3>1, <3>2
  <2>5. i \in 0 .. Len(lg)
    BY <1>2, <1>4
  <2> HIDE DEF i, s
  <2> QED BY <1>7, <1>8, <2>2, <2>4, <2>5 DEF HlsOK
<1>10. TaskOK(rec) /\ First(s) <= First(rec)
  <2>1. First(rec) = First(r)
    BY <1>7 DEF First
  <2>2. SegsOK(rec)
    BY <1>6, <1>7, <2>1 DEF SegsOK
  <2> QED BY <1>2, <1>6, <1>7, <1>9, <2>1, <2>2 DEF TaskOK
<1>11. Running(s)
  BY <1>1 DEF Running
<1> QED BY <1>1, <1>10, <1>11, SegStepKeeps, Zenon DEF SegStep

\* The source is closed: what the muxer has becomes the last segment.
LEMMA HlsEnds ==
  ASSUME SegInv, NEW t \in 1 .. Len(segTask), hls_closed(t)
  PROVE  SegInv'
<1> DEFINE o == segTask[t]
           s == [o EXCEPT !.pc = "stop"]
           rec == IF s.frames = << >> THEN s ELSE PushSeg(MuxConfig(s), SegWindow + 1)
           lg == log[o.gen]
<1>1. o.pc = "loop" /\ segKind = "hls" /\ SegStep(t, rec)
  BY DEF hls_closed, Drained
<1>2. TaskOK(o) /\ lg \in Seq(Kinds) /\ Len(lg) \in Nat
  BY TaskLog
<1>3. HlsOK(o) /\ SegsOK(o) /\ DOMAIN o = TaskFields
  BY <1>1, <1>2 DEF TaskOK
<1>4. /\ DOMAIN s = TaskFields /\ s.pc = "stop" /\ s.pos = o.pos
      /\ s.gen = o.gen /\ s.got = o.got /\ s.frames = o.frames /\ s.cfg = o.cfg
      /\ s.made = o.made /\ s.index = o.index /\ s.segs = o.segs
  BY <1>3 DEF TaskFields
<1> HIDE DEF s
<1>5. TaskOK(s) /\ First(o) <= First(s)
  <2>1. HlsOK(s)
    BY <1>1, <1>3, <1>4 DEF HlsOK
  <2> QED BY <1>2, <1>4, <2>1, SameSegs, Zenon
<1>6. TaskOK(rec) /\ First(o) <= First(rec)
  <2>1. CASE s.frames = << >>
    BY <1>5, <2>1
  <2>2. CASE s.frames # << >>
    <3>1. rec = PushSeg(MuxConfig(s), SegWindow + 1)
      BY <2>2
    <3>2. SegsOK(s) /\ HlsOK(s) /\ log[s.gen] \in Seq(Kinds)
      BY <1>1, <1>2, <1>4, <1>5 DEF TaskOK
    <3>3. Exact(log[s.gen], s.got, s.frames, s.made, s.cfg)
      BY <3>2, Zenon DEF HlsOK
    <3> HIDE DEF rec
    <3>4. /\ DOMAIN rec = TaskFields /\ SegsOK(rec) /\ First(s) <= First(rec)
          /\ Exact(log[s.gen], s.got, << >>, rec.made, rec.cfg)
          /\ rec.frames = << >>
          /\ rec.gen = s.gen /\ rec.pc = s.pc /\ rec.pos = s.pos /\ rec.got = s.got
      BY <1>4, <2>2, <3>1, <3>2, <3>3, HlsCuts
    <3>5. HlsOK(rec)
      BY <1>4, <3>2, <3>4, Zenon DEF HlsOK
    <3>6. First(o) \in Int /\ First(s) \in Int /\ First(rec) \in Int
      BY <1>3, <3>2, <3>4, FirstInt
    <3>7. First(o) <= First(rec)
      BY <1>5, <3>4, <3>6
    <3> QED BY <1>5, <3>4, <3>5, <3>7 DEF TaskOK
  <2> QED BY <2>1, <2>2
<1>7. Running(o)
  BY <1>1 DEF Running
<1> HIDE DEF rec
<1> QED BY <1>1, <1>6, <1>7, SegStepKeeps, Zenon DEF SegStep

\* The other caches: what their segments hold is left open.
LEMMA Fmp4Steps ==
  ASSUME SegInv, NEW t \in 1 .. Len(segTask),
         \/ fmp4_subscribe(t) \/ cmaf_config(t) \/ cmaf_gop(t) \/ dash_config(t) \/ dash_gop(t)
         \/ fmp4_recv(t) \/ fmp4_closed(t) \/ cmaf_flush(t) \/ dash_flush(t)
  PROVE  SegInv'
<1> DEFINE s == segTask[t]
<1>0. TaskOK(s) /\ segKind # "hls" /\ Running(s) /\ DOMAIN s = TaskFields
  BY TaskLog DEF TaskOK, Running, fmp4_subscribe, cmaf_config, cmaf_gop, dash_config, dash_gop, fmp4_recv,
     fmp4_closed, Drained, cmaf_flush, dash_flush
<1>1. ASSUME NEW rec, SegStep(t, rec), DOMAIN rec = TaskFields,
             rec.gen = s.gen, rec.index = s.index, rec.segs = s.segs
      PROVE  SegInv'
  <2>1. TaskOK(rec) /\ First(s) <= First(rec)
    BY <1>0, <1>1, SameSegs
  <2> QED BY <1>0, <1>1, <2>1, SegStepKeeps, Zenon DEF SegStep
<1>2. ASSUME NEW u, NEW keep, SegStep(t, PushSeg(u, keep)), DOMAIN u = TaskFields,
             u.gen = s.gen, u.index = s.index, u.segs = s.segs
      PROVE  SegInv'
  <2>1. TaskOK(u) /\ First(s) = First(u) /\ SegsOK(u)
    BY <1>0, <1>2, SameSegs DEF TaskOK, First
  <2> DEFINE r == PushSeg(u, keep)
  <2>2. DOMAIN r = TaskFields /\ SegsOK(r) /\ First(u) <= First(r) /\ r.gen = u.gen
    BY <1>2, <2>1, PushKeeps, Zenon
  <2>3. SegStep(t, r)
    BY <1>2
  <2> HIDE DEF r
  <2>4. TaskOK(r) /\ First(s) <= First(r)
    BY <1>0, <2>1, <2>2 DEF TaskOK
  <2> QED BY <1>0, <2>3, <2>4, SegStepKeeps, Zenon DEF SegStep
<1>3. CASE fmp4_subscribe(t)
  <2> DEFINE rec == [s EXCEPT !.pc = "subscribed", !.pos = Len(log[s.gen])]
  <2>1. SegStep(t, rec)
    BY <1>3 DEF fmp4_subscribe
  <2>2. DOMAIN rec = TaskFields /\ rec.gen = s.gen /\ rec.index = s.index /\ rec.segs = s.segs
    BY <1>0 DEF TaskFields
  <2> HIDE DEF rec
  <2> QED BY <1>1, <2>1, <2>2
<1>4. CASE cmaf_config(t)
  <2> DEFINE rec == [WithConfig(s) EXCEPT !.init = TRUE]
  <2>1. SegStep(t, rec)
    BY <1>4 DEF cmaf_config
  <2>2. DOMAIN rec = TaskFields /\ rec.gen = s.gen /\ rec.index = s.index /\ rec.segs = s.segs
    BY <1>0 DEF TaskFields, WithConfig
  <2> HIDE DEF rec
  <2> QED BY <1>1, <2>1, <2>2
<1>5. CASE dash_config(t)
  <2> DEFINE rec == WithConfig(s)
  <2>1. SegStep(t, rec)
    BY <1>5 DEF dash_config
  <2>2. DOMAIN rec = TaskFields /\ rec.gen = s.gen /\ rec.index = s.index /\ rec.segs = s.segs
    BY <1>0 DEF TaskFields, WithConfig
  <2> HIDE DEF rec
  <2> QED BY <1>1, <2>1, <2>2
<1>6. CASE cmaf_gop(t) \/ dash_gop(t)
  <2> DEFINE rec == WithGop(s)
  <2>1. DOMAIN rec = TaskFields /\ rec.gen = s.gen /\ rec.index = s.index /\ rec.segs = s.segs
    BY <1>0 DEF TaskFields, WithGop
  <2>2. SegStep(t, rec) \/ SegStep(t, PushSeg(rec, SegWindow))
    BY <1>6 DEF cmaf_gop, dash_gop
  <2> HIDE DEF rec
  <2> QED BY <1>1, <1>2, <2>1, <2>2
<1>7. CASE fmp4_recv(t)
  <2> DEFINE i == s.pos + 1
             rec1 == [s EXCEPT !.pos = i]
             rec2 == [s EXCEPT !.pos = i, !.frames = Append(@, i), !.got = Append(@, i)]
  <2>1. SegStep(t, rec1) \/ SegStep(t, rec2)
    BY <1>7 DEF fmp4_recv
  <2>2. DOMAIN rec1 = TaskFields /\ rec1.gen = s.gen /\ rec1.index = s.index /\ rec1.segs = s.segs
    BY <1>0 DEF TaskFields
  <2>3. DOMAIN rec2 = TaskFields /\ rec2.gen = s.gen /\ rec2.index = s.index /\ rec2.segs = s.segs
    BY <1>0 DEF TaskFields
  <2> HIDE DEF rec1, rec2
  <2> QED BY <1>1, <2>1, <2>2, <2>3
<1>8. CASE fmp4_closed(t)
  <2> DEFINE rec == [s EXCEPT !.pc = "stop"]
  <2>1. SegStep(t, rec)
    BY <1>8 DEF fmp4_closed
  <2>2. DOMAIN rec = TaskFields /\ rec.gen = s.gen /\ rec.index = s.index /\ rec.segs = s.segs
    BY <1>0 DEF TaskFields
  <2> HIDE DEF rec
  <2> QED BY <1>1, <2>1, <2>2
<1>9. CASE cmaf_flush(t) \/ dash_flush(t)
  BY <1>0, <1>2, <1>9 DEF cmaf_flush, dash_flush
<1> QED BY <1>3, <1>4, <1>5, <1>6, <1>7, <1>8, <1>9

\* A task takes its entries out.
LEMMA StopKeeps ==
  ASSUME SegInv, NEW t \in 1 .. Len(segTask), on_stop(t) \/ on_stop_init(t)
  PROVE  SegInv'
<1> DEFINE s == segTask[t]
<1>0. TaskOK(s) /\ DOMAIN s = TaskFields
  BY TaskLog DEF TaskOK
<1>1. PICK pc \in {"stop_init", "ended"} :
        /\ segTask' = [segTask EXCEPT ![t].pc = pc]
        /\ \/ segEntry' = 0 /\ s.pc = "stop"
           \/ UNCHANGED segEntry
        /\ s.pc \in {"stop", "stop_init"}
        /\ UNCHANGED <<segKind, gen, registered, script, log, viewer>>
  BY DEF on_stop, on_stop_init
<1> DEFINE rec == [s EXCEPT !.pc = pc]
<1>2. segTask' = [segTask EXCEPT ![t] = rec]
  BY <1>1
<1>3. /\ DOMAIN rec = TaskFields /\ rec.pc = pc /\ rec.pos = s.pos
      /\ rec.gen = s.gen /\ rec.got = s.got /\ rec.frames = s.frames /\ rec.cfg = s.cfg
      /\ rec.made = s.made /\ rec.index = s.index /\ rec.segs = s.segs
  BY <1>0 DEF TaskFields
<1> HIDE DEF rec
<1>4. segKind = "hls" => HlsOK(rec)
  BY <1>0, <1>1, <1>3 DEF TaskOK, HlsOK
<1>5. TaskOK(rec) /\ First(s) <= First(rec) /\ ~ Running(rec)
  BY <1>0, <1>3, <1>4, SameSegs DEF Running
<1>6. s.pc = "stop" => Running(s)
  BY DEF Running
<1> QED BY <1>1, <1>2, <1>5, <1>6, SegStepKeeps, Zenon

\* The numbers of a queue of segments.
LEMMA ListOf ==
  ASSUME NEW s, SegsOK(s)
  PROVE  /\ First(s) \in Int
         /\ s.segs # << >> => s.segs[1].index = First(s)
         /\ Indices(s.segs) # << >> =>
              /\ Indices(s.segs)[1] = First(s)
              /\ \A i \in 1 .. Len(Indices(s.segs)) - 1 : Indices(s.segs)[i + 1] = Indices(s.segs)[i] + 1
<1> DEFINE q == s.segs
           l == Indices(q)
<1>1. IsQueue(q) /\ s.index \in Nat /\ \A j \in 1 .. Len(q) : q[j].index = First(s) + j - 1
  BY DEF SegsOK
<1>2. Len(q) \in Nat /\ DOMAIN q = 1 .. Len(q) /\ (q # << >> => 1 \in 1 .. Len(q))
  BY <1>1, LenProperties, EmptySeq DEF IsQueue
<1>3. First(s) \in Int
  BY <1>1, <1>2 DEF First
<1>4. l = [j \in 1 .. Len(q) |-> First(s) + j - 1]
  BY <1>1, <1>2 DEF Indices
<1>5. l \in Seq(Int) /\ Len(l) = Len(q)
  <2> HIDE DEF l, q
  <2>1. l \in [1 .. Len(q) -> Int]
    BY <1>3, <1>4
  <2>2. l \in Seq(Int)
    BY <1>2, <2>1, SeqDef
  <2> QED BY <1>2, <2>1, <2>2, LenProperties
<1>6. l # << >> => 1 \in 1 .. Len(q)
  BY <1>2, <1>5, LenProperties, EmptySeq
<1> HIDE DEF l, q
<1>7. l # << >> => l[1] = First(s)
  BY <1>3, <1>4, <1>6
<1>8. \A i \in 1 .. Len(l) - 1 : l[i + 1] = l[i] + 1
  BY <1>2, <1>3, <1>4, <1>5
<1>9. q # << >> => q[1].index = First(s)
  BY <1>1, <1>2, <1>3
<1> QED BY <1>3, <1>7, <1>8, <1>9 DEF l, q

\* The viewers read and answer.
LEMMA ViewerMoves ==
  ASSUME SegInv, NEW v \in Viewers,
         \/ view_lookup(v) \/ playlist_count(v) \/ playlist_list(v) \/ build_cmaf_playlist(v)
         \/ handle_hls_segment(v) \/ handle_cmaf_segment(v) \/ handle_dash_segment(v)
         \/ handle_cmaf_init(v) \/ respond(v)
  PROVE  SegInv'
<1> DEFINE w == viewer[v]
<1>0. ViewerOK(w) /\ DOMAIN w = ViewFields /\ DOMAIN viewer = Viewers
  BY Zenon DEF SegInv, ViewerOK, SegBase
<1>1. ASSUME NEW g, NEW n, NEW pc, pc \in {"ensure", "segment", "init"} => g \in 1 .. gen,
             pc \in {"ensure", "segment", "init", "idle", "write_init"}
      PROVE  ViewerOK(Request(pc, g, n))
  BY <1>1 DEF ViewerOK, Request, ViewFields
<1>2. CASE view_lookup(v)
  <2>1. gen \in 1 .. gen
    BY <1>2 DEF view_lookup, SegInv, SegBase
  <2>2. PICK pc \in {"ensure", "segment", "init"} : viewer' = [viewer EXCEPT ![v] = Request(pc, gen, w.n + 1)]
    BY <1>2, Zenon DEF view_lookup
  <2>3. ViewerOK(Request(pc, gen, w.n + 1))
    BY <1>1, <2>1, Zenon
  <2> QED BY <1>2, <2>2, <2>3, ViewStepKeeps, Zenon DEF view_lookup
<1>3. CASE playlist_count(v)
  <2> DEFINE segs == segTask[w.task].segs
             s == segTask[w.task]
             rec == [w EXCEPT !.pc = IF segs = << >> THEN "respond" ELSE "list",
                              !.seq = IF segs = << >> THEN 0 ELSE segs[1].index]
  <2>1. viewer' = [viewer EXCEPT ![v] = rec]
    BY <1>0, <1>3, Zenon DEF playlist_count
  <2>2. w.task \in 1 .. Len(segTask) /\ w.list = << >>
    BY <1>0, <1>3, Zenon DEF playlist_count, ViewerOK
  <2>3. SegsOK(s)
    BY <2>2 DEF SegInv, TaskOK
  <2>4. First(s) \in Int /\ (segs # << >> => segs[1].index = First(s))
    BY <2>3, ListOf
  <2>5. /\ DOMAIN rec = ViewFields /\ rec.task = w.task /\ rec.list = w.list /\ rec.gen = w.gen
        /\ rec.pc = IF segs = << >> THEN "respond" ELSE "list"
        /\ rec.seq = IF segs = << >> THEN 0 ELSE segs[1].index
    BY <1>0 DEF ViewFields
  <2> HIDE DEF rec
  <2>6. CASE segs = << >>
    <3>1. rec.pc = "respond" /\ rec.list = << >>
      BY <2>2, <2>5, <2>6, Zenon
    <3>2. ViewerOK(rec)
      BY <2>5, <3>1, Zenon DEF ViewerOK, ListOK
    <3> QED BY <1>3, <2>1, <3>2, ViewStepKeeps, Zenon DEF playlist_count
  <2>7. CASE segs # << >>
    <3>0. segTask[rec.task] = s /\ rec.task \in 1 .. Len(segTask)
      BY <2>2, <2>5
    <3> HIDE DEF s, segs
    <3>1. rec.pc = "list" /\ rec.list = << >> /\ rec.seq = First(s)
      BY <2>2, <2>4, <2>5, <2>7
    <3>2. rec.seq \in Int /\ rec.seq <= First(segTask[rec.task]) /\ rec.task \in 1 .. Len(segTask)
      BY <2>4, <3>0, <3>1
    <3>3. ViewerOK(rec)
      BY <2>5, <3>1, <3>2 DEF ViewerOK
    <3> QED BY <1>3, <2>1, <3>3, ViewStepKeeps, Zenon DEF playlist_count
  <2> QED BY <2>6, <2>7
<1>4. CASE playlist_list(v)
  <2> DEFINE s == segTask[w.task]
             l == Indices(s.segs)
             rec == [w EXCEPT !.pc = "respond", !.list = l]
  <2>1. viewer' = [viewer EXCEPT ![v] = rec] /\ segKind = "hls"
    BY <1>0, <1>4, Zenon DEF playlist_list
  <2>2. w.task \in 1 .. Len(segTask) /\ w.seq \in Int /\ w.seq <= First(s)
    BY <1>0, <1>4, Zenon DEF playlist_list, ViewerOK
  <2>3. SegsOK(s)
    BY <2>2 DEF SegInv, TaskOK
  <2>4. DOMAIN rec = ViewFields /\ rec.pc = "respond" /\ rec.seq = w.seq /\ rec.list = l
    BY <1>0 DEF ViewFields
  <2> HIDE DEF rec
  <2>5. ListOK(w.seq, l)
    BY <2>1, <2>2, <2>3, ListOf, Zenon DEF ListOK
  <2>6. ViewerOK(rec)
    BY <2>4, <2>5, Zenon DEF ViewerOK
  <2> QED BY <1>4, <2>1, <2>6, ViewStepKeeps, Zenon DEF playlist_list
<1>5. CASE build_cmaf_playlist(v)
  <2> DEFINE s == segTask[w.task]
             l == Indices(s.segs)
             n == IF l = << >> THEN 0 ELSE l[1]
             rec == [w EXCEPT !.pc = "respond", !.list = l, !.seq = n]
  <2>1. viewer' = [viewer EXCEPT ![v] = rec]
    BY <1>0, <1>5, Zenon DEF build_cmaf_playlist
  <2>2. w.task \in 1 .. Len(segTask)
    BY <1>0, <1>5 DEF build_cmaf_playlist, ViewerOK
  <2>3. SegsOK(s)
    BY <2>2 DEF SegInv, TaskOK
  <2>4. DOMAIN rec = ViewFields /\ rec.pc = "respond" /\ rec.seq = n /\ rec.list = l
    BY <1>0 DEF ViewFields
  <2> HIDE DEF rec
  <2>5. ListOK(n, l)
    <3>1. /\ First(s) \in Int
          /\ l # << >> => l[1] = First(s) /\ \A i \in 1 .. Len(l) - 1 : l[i + 1] = l[i] + 1
      BY <2>3, ListOf, Zenon
    <3> HIDE DEF l, s
    <3> QED BY <3>1 DEF ListOK
  <2>6. ViewerOK(rec)
    BY <2>4, <2>5 DEF ViewerOK
  <2> QED BY <1>5, <2>1, <2>6, ViewStepKeeps, Zenon DEF build_cmaf_playlist
<1>6. ASSUME NEW choice, serve(v, choice) PROVE SegInv'
  <2>1. CASE viewer' = [viewer EXCEPT ![v] = Request("idle", 0, w.n)]
    BY <1>1, <1>6, <2>1, ViewStepKeeps, Zenon DEF serve
  <2>2. CASE \E i \in choice :
               viewer' = [viewer EXCEPT ![v].pc = "write", ![v].task = segEntry, ![v].list = <<i>>]
    <3>1. PICK i \in choice :
            viewer' = [viewer EXCEPT ![v].pc = "write", ![v].task = segEntry, ![v].list = <<i>>]
      BY <2>2, Zenon
    <3> DEFINE rec == [w EXCEPT !.pc = "write", !.task = segEntry, !.list = <<i>>]
    <3>2. viewer' = [viewer EXCEPT ![v] = rec]
      BY <1>0, <3>1, Zenon
    <3>3. DOMAIN rec = ViewFields /\ rec.pc = "write"
      BY <1>0 DEF ViewFields
    <3> HIDE DEF rec
    <3>4. ViewerOK(rec)
      BY <3>3 DEF ViewerOK
    <3> QED BY <1>6, <3>2, <3>4, ViewStepKeeps, Zenon DEF serve
  <2> QED BY <1>6, <2>1, <2>2 DEF serve
<1>7. CASE respond(v)
  BY <1>1, <1>7, ViewStepKeeps, Zenon DEF respond
<1>8. CASE handle_cmaf_init(v)
  <2>1. PICK pc \in {"idle", "write_init"} : viewer' = [viewer EXCEPT ![v] = Request(pc, 0, w.n)]
    BY <1>8, Zenon DEF handle_cmaf_init
  <2>2. ViewerOK(Request(pc, 0, w.n))
    BY <1>1, Zenon
  <2> QED BY <1>8, <2>1, <2>2, ViewStepKeeps, Zenon DEF handle_cmaf_init
<1> QED BY <1>2, <1>3, <1>4, <1>5, <1>6, <1>7, <1>8, Zenon DEF handle_hls_segment, handle_cmaf_segment, handle_dash_segment

\* A viewer finds the task of the stream, or starts it.
LEMMA InsertKeeps ==
  ASSUME SegInv, NEW v \in Viewers, NEW pc \in {"count", "list", "respond"}, or_insert(v, pc),
         pc = "list" => segKind # "hls"
  PROVE  SegInv'
<1> DEFINE w == viewer[v]
           new == segEntry = 0
           t == IF new THEN Len(segTask) + 1 ELSE segEntry
           rec == [w EXCEPT !.task = t, !.pc = pc]
           n == NewSegTask(w.gen)
<1>0. ViewerOK(w) /\ DOMAIN viewer = Viewers /\ w.pc = "ensure" /\ IsQueue(segTask)
  BY DEF SegInv, SegBase, or_insert
<1>1. w.gen \in 1 .. gen /\ w.list = << >> /\ DOMAIN w = ViewFields
  BY <1>0 DEF ViewerOK
<1>2. /\ segTask' = IF new THEN Append(segTask, n) ELSE segTask
      /\ segEntry' = t /\ viewer' = [viewer EXCEPT ![v] = rec]
      /\ UNCHANGED <<segKind, gen, registered, script, log>>
  BY <1>0, Zenon DEF or_insert
<1>3. /\ DOMAIN rec = ViewFields /\ rec.task = t /\ rec.pc = pc /\ rec.list = << >>
  BY <1>1 DEF ViewFields
<1>4. TaskOK(n)
  <2>1. /\ DOMAIN n = TaskFields /\ n.gen = w.gen /\ n.pc = "begin" /\ n.pos = 0
        /\ n.got = << >> /\ n.frames = << >> /\ n.cfg = << >> /\ n.index = 0 /\ n.segs = << >>
        /\ n.made = << >>
    BY DEF NewSegTask, TaskFields
  <2> HIDE DEF n
  <2>2. w.gen \in 1 .. Len(script) /\ log[w.gen] \in Seq(Kinds)
    BY <1>1, LenProperties DEF SegInv, SegBase
  <2>3. Len(log[w.gen]) \in Nat
    BY <2>2, LenProperties
  <2>4. IsQueue(n.segs) /\ Len(n.segs) = 0
    BY <2>1, EmptySeq DEF IsQueue
  <2>5. SegsOK(n)
    BY <2>1, <2>4 DEF SegsOK
  <2>6. Exact(log[w.gen], << >>, << >>, << >>, << >>)
    <3> DEFINE e == << >>
    <3>1. e \in Seq(Nat) /\ e \in Seq(Made) /\ Len(e) = 0 /\ SubSeq(e, 1, 0) = e
      BY EmptySeq, SubSeqEmpty
    <3>2. CutOf(e, 0) = 0
      BY DEF CutOf
    <3>3. Pieces(e, e, e)
      <4> HIDE DEF e
      <4> QED BY <3>1, <3>2 DEF Pieces
    <3>4. NewestOf(log[w.gen], e, 0, e)
      BY DEF NewestOf
    <3>5. Ordered(log[w.gen], e) /\ Decodable(log[w.gen], e, e) /\ Configured(log[w.gen], e, e, e)
      <4> HIDE DEF e
      <4>1. Ordered(log[w.gen], e)
        BY <3>1 DEF Ordered
      <4>2. Decodable(log[w.gen], e, e)
        BY <3>1 DEF Decodable, e
      <4>3. Configured(log[w.gen], e, e, e)
        BY <3>1, <3>2, <3>4 DEF Configured
      <4> QED BY <4>1, <4>2, <4>3
    <3> QED BY <3>3, <3>5 DEF Exact
  <2>7. HlsOK(n)
    BY <2>1, <2>3, <2>6 DEF HlsOK
  <2> QED BY <1>1, <2>1, <2>5, <2>7 DEF TaskOK
<1>5. /\ IsQueue(segTask') /\ Len(segTask') \in Nat /\ Len(segTask) \in Nat
      /\ Len(segTask) <= Len(segTask')
      /\ DOMAIN segTask = 1 .. Len(segTask) /\ DOMAIN segTask' = 1 .. Len(segTask')
      /\ \A i \in 1 .. Len(segTask) : segTask'[i] = segTask[i]
      /\ t \in 1 .. Len(segTask')
      /\ \A i \in 1 .. Len(segTask') : i \in 1 .. Len(segTask) \/ (i = t /\ segEntry = 0 /\ segTask'[i] = n)
  <2> HIDE DEF n
  <2>1. CASE new
    <3>1. segTask' = Append(segTask, n)
      BY <1>2, <2>1
    <3>2. IsQueue(segTask')
      BY <1>0, <3>1, QueueAppend
    <3>3. DOMAIN segTask' = 1 .. Len(segTask')
      BY <3>2, QueueAppend
    <3>4. /\ Len(segTask) \in Nat /\ DOMAIN segTask = 1 .. Len(segTask)
          /\ Len(segTask') = Len(segTask) + 1 /\ segTask'[Len(segTask) + 1] = n
          /\ \A i \in 1 .. Len(segTask) : segTask'[i] = segTask[i]
      BY <1>0, <3>1, QueueAppend
    <3>5. t = Len(segTask) + 1
      BY <2>1
    <3>6. \A i \in 1 .. Len(segTask') : i \in 1 .. Len(segTask) \/ i = t
      BY <3>4, <3>5
    <3>7. Len(segTask') \in Nat /\ Len(segTask) <= Len(segTask') /\ t \in 1 .. Len(segTask')
      BY <3>4, <3>5
    <3> QED BY <2>1, <3>2, <3>3, <3>4, <3>5, <3>6, <3>7
  <2>2. CASE ~ new
    <3>1. segTask' = segTask
      BY <1>2, <2>2
    <3>2. Len(segTask) \in Nat /\ DOMAIN segTask = 1 .. Len(segTask)
      BY <1>0, QueueAppend
    <3>3. segEntry \in 1 .. Len(segTask)
      BY <2>2, <3>2 DEF SegInv, SegBase
    <3> QED BY <1>0, <2>2, <3>1, <3>2, <3>3
  <2> QED BY <2>1, <2>2
<1> HIDE DEF n, rec
<1>6. SegBase'
  BY <1>2, <1>5 DEF SegInv, SegBase
<1>7. ASSUME NEW u \in 1 .. Len(segTask') PROVE TaskOK(segTask[u])'
  <2>1. TaskOK(segTask'[u])
    BY <1>4, <1>5 DEF SegInv
  <2> QED BY <1>2, <2>1, Zenon DEF TaskOK, SegsOK, HlsOK
<1>8. ASSUME NEW x \in Viewers PROVE ViewerOK(viewer[x])'
  <2>1. CASE x # v
    <3>1. viewer'[x] = viewer[x] /\ ViewerOK(viewer[x])
      BY <1>0, <1>2, <2>1 DEF SegInv
    <3> DEFINE y == viewer[x]
    <3> HIDE DEF t
    <3>2. ASSUME y.task \in 1 .. Len(segTask)
          PROVE  y.task \in 1 .. Len(segTask') /\ First(segTask'[y.task]) = First(segTask[y.task])
      <4>1. segTask'[y.task] = segTask[y.task]
        BY <1>5, <3>2, Zenon
      <4>2. \A i \in 1 .. Len(segTask) : i \in 1 .. Len(segTask')
        BY ONLY <1>5
      <4> QED BY <3>2, <4>1, <4>2, Zenon
    <3> HIDE DEF y
    <3> QED BY <1>2, <3>1, <3>2, Zenon DEF ViewerOK, ListOK, y
  <2>2. CASE x = v
    <3>1. viewer'[x] = rec
      BY <1>0, <1>2, <2>2
    <3> HIDE DEF t
    <3> QED BY <1>2, <1>3, <1>5, <3>1 DEF ViewerOK, ListOK
  <2> QED BY <2>1, <2>2
<1>9. TaskReachable'
  <2> HIDE DEF t
  <2>1. ASSUME NEW u \in DOMAIN segTask', segTask'[u].pc \notin {"stop_init", "ended"}
        PROVE  segEntry' = u
    <3>1. CASE u \in 1 .. Len(segTask)
      <4>1. segTask'[u] = segTask[u] /\ u \in DOMAIN segTask
        BY <1>5, <3>1
      <4>2. segEntry = u
        BY <2>1, <4>1 DEF SegInv, TaskReachable
      <4>3. segEntry # 0 /\ t = segEntry
        BY <1>5, <3>1, <4>2 DEF t
      <4> QED BY <1>2, <4>2, <4>3
    <3>2. CASE u = t
      BY <1>2, <3>2
    <3> QED BY <1>5, <2>1, <3>1, <3>2
  <2> QED BY <2>1 DEF TaskReachable
<1> QED BY <1>6, <1>7, <1>8, <1>9 DEF SegInv

\* The sources: a new one, a frame, the end of one.
LEMMA SourceKeeps ==
  ASSUME SegInv, seg_publish \/ seg_frame \/ seg_close
  PROVE  SegInv'
<1>0. /\ UNCHANGED <<segKind, script, segEntry, segTask, viewer>> /\ gen \in Nat /\ gen' \in Nat
      /\ gen <= gen' /\ gen' \in 0 .. Len(script) /\ (registered' => gen' > 0) /\ SegBase
  <2>1. Len(script) \in Nat /\ gen \in 0 .. Len(script) /\ (registered => gen > 0) /\ SegBase
    BY LenProperties DEF SegInv, SegBase
  <2>2. UNCHANGED <<segKind, script, segEntry, segTask, viewer>>
    BY DEF seg_publish, seg_frame, seg_close
  <2>3. CASE seg_publish
    BY <2>1, <2>2, <2>3 DEF seg_publish
  <2>4. CASE UNCHANGED gen /\ (registered' => registered)
    BY <2>1, <2>2, <2>4
  <2> QED BY <2>3, <2>4 DEF seg_frame, seg_close
<1>1. /\ log' \in [1 .. Len(script) -> Seq(Kinds)]
      /\ \A g \in 1 .. Len(script) :
           log'[g] = log[g] \/ \E f \in Kinds : log'[g] = Append(log[g], f)
  <2>1. CASE UNCHANGED log
    BY <1>0, <2>1 DEF SegBase
  <2>2. CASE seg_frame
    <3>1. gen \in 1 .. Len(script) /\ script[gen] \in Seq(Kinds) /\ log[gen] \in Seq(Kinds)
      <4>1. gen \in 1 .. Len(script)
        BY <1>0, <2>2 DEF seg_frame, SegBase
      <4> QED BY <1>0, <4>1, ElementOfSeq, Zenon DEF SegBase
    <3> DEFINE f == script[gen][Len(log[gen]) + 1]
    <3>2. f \in Kinds
      <4>1. Len(log[gen]) \in Nat /\ Len(script[gen]) \in Nat /\ Len(log[gen]) < Len(script[gen])
        BY <2>2, <3>1, LenProperties DEF seg_frame
      <4>2. Len(log[gen]) + 1 \in 1 .. Len(script[gen])
        BY <4>1
      <4> QED BY <3>1, <4>2, ElementOfSeq
    <3>3. log' = [log EXCEPT ![gen] = Append(log[gen], f)]
      BY <2>2 DEF seg_frame
    <3> HIDE DEF f
    <3>4. Append(log[gen], f) \in Seq(Kinds)
      BY <3>1, <3>2, AppendProperties
    <3> QED BY <1>0, <3>1, <3>2, <3>3, <3>4 DEF SegBase
  <2> QED BY <2>1, <2>2 DEF seg_publish, seg_frame, seg_close
<1>2. SegBase'
  BY <1>0, <1>1 DEF SegBase
<1>3. ASSUME NEW u \in 1 .. Len(segTask') PROVE TaskOK(segTask[u])'
  <2> DEFINE s == segTask[u]
  <2>0. TaskOK(s)
    BY <1>0 DEF SegInv
  <2>1. TaskOK(s) /\ s.gen \in 1 .. gen'
    BY <1>0, <2>0 DEF TaskOK
  <2>2. ASSUME segKind = "hls" PROVE HlsOK(s)'
    <3>1. HlsOK(s)
      BY <2>1, <2>2, Zenon DEF TaskOK
    <3>2. s.gen \in 1 .. Len(script)
      BY <1>0, <2>1, LenProperties, SMTT(20) DEF SegBase
    <3>3. log[s.gen] \in Seq(Kinds) /\ Len(log[s.gen]) \in Nat
      BY <1>0, <3>2, LenProperties, Zenon DEF SegBase
    <3>4. CASE log'[s.gen] = log[s.gen]
      BY <1>0, <3>1, <3>4 DEF HlsOK
    <3>5. CASE \E f \in Kinds : log'[s.gen] = Append(log[s.gen], f)
      <4>1. PICK f \in Kinds : log'[s.gen] = Append(log[s.gen], f)
        BY <3>5, Zenon
      <4>2. Exact(log'[s.gen], s.got, s.frames, s.made, s.cfg)
        <5>1. Exact(log[s.gen], s.got, s.frames, s.made, s.cfg)
          BY <3>1 DEF HlsOK
        <5> QED BY <3>3, <4>1, <5>1, ExactLog, SMTT(20)
      <4>3. Len(log'[s.gen]) = Len(log[s.gen]) + 1
        BY <3>3, <4>1, AppendProperties
      <4>4. s.pos \in 0 .. Len(log'[s.gen])
        <5>1. s.pos \in 0 .. Len(log[s.gen])
          BY <3>1 DEF HlsOK
        <5> QED BY <3>3, <4>3, <5>1
      <4> QED BY <1>0, <3>1, <4>2, <4>4, Zenon DEF HlsOK
    <3> QED BY <1>1, <3>2, <3>4, <3>5, Zenon
  <2> QED BY <1>0, <2>1, <2>2 DEF TaskOK, SegsOK, First
<1>4. ASSUME NEW v \in Viewers PROVE ViewerOK(viewer[v])'
  <2>1. ViewerOK(viewer[v])
    BY DEF SegInv
  <2>2. \A g \in 1 .. gen : g \in 1 .. gen'
    BY <1>0
  <2> QED BY <1>0, <2>1, <2>2, Zenon DEF ViewerOK, ListOK, First
<1>5. TaskReachable'
  BY <1>0 DEF SegInv, TaskReachable
<1> QED BY <1>2, <1>3, <1>4, <1>5 DEF SegInv

\* Every step of sources, viewers and tasks keeps the invariant.
LEMMA CacheStep ==
  ASSUME SegInv, [SegNext]_segVars
  PROVE  SegInv'
<1>1. CASE UNCHANGED segVars
  BY <1>1, Zenon DEF segVars, SegInv, SegBase, TaskOK, HlsOK, SegsOK, First, ViewerOK, ListOK, TaskReachable
<1>2. CASE seg_publish \/ seg_frame \/ seg_close
  BY <1>2, SourceKeeps
<1>3. ASSUME NEW v \in Viewers, view_lookup(v) \/ ViewStep(v) PROVE SegInv'
  <2>1. CASE handle_hls_playlist(v) \/ handle_cmaf_playlist(v) \/ handle_dash_init(v)
    BY <2>1, InsertKeeps DEF handle_hls_playlist, handle_cmaf_playlist, handle_dash_init
  <2> QED BY <1>3, <2>1, ViewerMoves DEF ViewStep
<1>4. DOMAIN segTask = 1 .. Len(segTask)
  BY QueueAppend, Zenon DEF SegInv, SegBase
<1>5. ASSUME NEW t \in DOMAIN segTask,
             SegTaskStep(t) \/ seg_lagged(t) \/ cmaf_flush(t) \/ dash_flush(t)
      PROVE  SegInv'
  BY <1>4, <1>5, HlsStarts, HlsMoves, HlsReceives, HlsEnds, Fmp4Steps, StopKeeps DEF SegTaskStep
<1> QED BY <1>1, <1>2, <1>3, <1>5 DEF SegNext

\* Nothing is cached at first.
LEMMA CacheStart ==
  ASSUME SegInit
  PROVE  SegInv
<1>1. script \in Seq(Seq(Kinds)) /\ Len(script) \in Nat /\ DOMAIN script = 1 .. Len(script)
  BY SegScripts, LenProperties DEF SegInit, Kinds
<1>2. log \in [1 .. Len(script) -> Seq(Kinds)]
  BY <1>1, EmptySeq DEF SegInit
<1>3. IsQueue(segTask) /\ Len(segTask) = 0 /\ DOMAIN segTask = {}
  <2>1. segTask = << >>
    BY DEF SegInit
  <2>2. IsQueue(segTask) /\ Len(segTask) = 0
    BY <2>1, EmptySeq DEF IsQueue
  <2> QED BY <2>1, <2>2
<1>4. SegBase /\ TaskReachable
  BY <1>1, <1>2, <1>3 DEF SegInit, SegBase, TaskReachable
<1>5. ASSUME NEW v \in Viewers PROVE ViewerOK(viewer[v])
  BY DEF SegInit, Request, ViewerOK, ViewFields
<1> QED BY <1>3, <1>4, <1>5 DEF SegInv

\* For any viewers, sources, window and target duration: the stream has one task
\* and the map names it, the HLS segments hold every frame received once, in order,
\* with the configuration of their time, and playlists list consecutive segments
\* from a number that is not too high.
THEOREM CacheTheorem == SegSpec => []CacheConsistent
<1>1. SegInv => CacheConsistent
  <2> SUFFICES ASSUME SegInv PROVE CacheConsistent
    OBVIOUS
  <2>1. SegmentsExact
    <3> SUFFICES ASSUME NEW t \in DOMAIN segTask, segKind = "hls"
                 PROVE
                 LET s == segTask[t] IN
                   /\ s.frames = SubSeq(s.got, Cut(s, Len(s.made)) + 1, Len(s.got))
                   /\ \A k \in DOMAIN s.made :
                        s.made[k].frames = SubSeq(s.got, Cut(s, k - 1) + 1, Cut(s, k))
                   /\ \A k \in 2 .. Len(s.made) : log[s.gen][s.made[k].frames[1]] # "other"
                   /\ \A k \in DOMAIN s.made :
                        LET cfgs == {i \in 1 .. Cut(s, k) : log[s.gen][s.got[i]] = "cfg"} IN
                        IF cfgs = {} THEN s.made[k].cfg = << >>
                        ELSE \E i \in cfgs :
                               s.made[k].cfg = <<s.got[i]>> /\ \A j \in cfgs : s.got[j] <= s.got[i]
      BY Zenon DEF SegmentsExact
    <3> DEFINE s == segTask[t]
               lg == log[s.gen]
    <3>1. t \in 1 .. Len(segTask)
      BY QueueAppend DEF SegInv, SegBase
    <3>2. Exact(lg, s.got, s.frames, s.made, s.cfg)
      BY <3>1 DEF SegInv, TaskOK, HlsOK
    <3> HIDE DEF s
    <3>3. \A k : Cut(s, k) = CutOf(s.made, k)
      BY DEF Cut, CutOf
    <3>4. DOMAIN s.made = 1 .. Len(s.made)
      BY <3>2, LenProperties DEF Exact, Pieces
    <3>5. /\ s.frames = SubSeq(s.got, Cut(s, Len(s.made)) + 1, Len(s.got))
          /\ \A k \in DOMAIN s.made :
               s.made[k].frames = SubSeq(s.got, Cut(s, k - 1) + 1, Cut(s, k))
      BY <3>2, <3>3, <3>4, Zenon DEF Exact, Pieces
    <3>6. \A k \in 2 .. Len(s.made) : lg[s.made[k].frames[1]] # "other"
      BY <3>2 DEF Exact, Decodable
    <3>7. \A k \in DOMAIN s.made : NewestOf(lg, s.got, Cut(s, k), s.made[k].cfg)
      BY <3>2, <3>3, <3>4, Zenon DEF Exact, Configured
    <3> QED BY <3>5, <3>6, <3>7, Zenon DEF NewestOf, s
  <2>2. PlaylistOrdered
    BY DEF SegInv, ViewerOK, ListOK, PlaylistOrdered
  <2> QED BY <2>1, <2>2 DEF SegInv, CacheConsistent
<1> QED BY <1>1, CacheStep, CacheStart, PTL DEF SegSpec

=============================================================================
