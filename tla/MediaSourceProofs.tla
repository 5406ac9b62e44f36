------------------------- MODULE MediaSourceProofs -------------------------
(***************************************************************************)
(* Proofs about MediaSource, for any publishers, consumers, profiles,      *)
(* channel capacity, cache size and number of frames.                      *)
(***************************************************************************)
EXTENDS MediaSource, TLAPS

----------------------------------------------------------------------------
\* The cache.

\* The first frame of the replay is the last key frame of the queue.
LEMMA StartAtKey ==
  ASSUME NEW q \in Seq(Frame), NEW i \in 1 .. Len(q),
         IsKey(q[i]), \A j \in i + 1 .. Len(q) : ~ IsKey(q[j])
  PROVE  StartIdx(q) = i
<1> DEFINE P(m) == /\ \A j \in m + 1 .. Len(q) : ~ IsKey(q[j])
                   /\ IF \E j \in 1 .. Len(q) : IsKey(q[j])
                      THEN m <= Len(q) /\ IsKey(q[m])
                      ELSE m = Len(q) + 1
<1>1. i \in 1 .. Len(q) + 1 /\ P(i)
  OBVIOUS
<1>2. \A m \in 1 .. Len(q) + 1 : P(m) => m = i
  OBVIOUS
<1> HIDE DEF P
<1>3. StartIdx(q) = CHOOSE m \in 1 .. Len(q) + 1 : P(m)
  BY DEF StartIdx, P
<1> QED BY <1>1, <1>2, <1>3

\* Without a key frame nothing of the queue is replayed.
LEMMA StartAtEnd ==
  ASSUME NEW q \in Seq(Frame), \A j \in 1 .. Len(q) : ~ IsKey(q[j])
  PROVE  StartIdx(q) = Len(q) + 1
<1> DEFINE P(m) == /\ \A j \in m + 1 .. Len(q) : ~ IsKey(q[j])
                   /\ IF \E j \in 1 .. Len(q) : IsKey(q[j])
                      THEN m <= Len(q) /\ IsKey(q[m])
                      ELSE m = Len(q) + 1
<1>1. Len(q) + 1 \in 1 .. Len(q) + 1 /\ P(Len(q) + 1)
  OBVIOUS
<1>2. \A m \in 1 .. Len(q) + 1 : P(m) => m = Len(q) + 1
  OBVIOUS
<1> HIDE DEF P
<1>3. StartIdx(q) = CHOOSE m \in 1 .. Len(q) + 1 : P(m)
  BY DEF StartIdx, P
<1> QED BY <1>1, <1>2, <1>3

\* The id of a frame is a number.
LEMMA FrameId == ASSUME NEW f \in Frame PROVE f.id \in 1 .. MaxFrames /\ f.id \in Nat
BY BoundsAssumption DEF Frame

\* The frames of a sequence, and of a suffix of a sequence.
LEMMA SeqRange ==
  ASSUME NEW q \in Seq(Frame)
  PROVE  \A f : f \in Range(q) <=> \E j \in 1 .. Len(q) : f = q[j]
BY DEF Range

\* The frames of a suffix are those from its first place on.
LEMMA SuffixRange ==
  ASSUME NEW q \in Seq(Frame), NEW i \in 1 .. Len(q) + 1
  PROVE  /\ SubSeq(q, i, Len(q)) \in Seq(Frame)
         /\ \A f : f \in Range(SubSeq(q, i, Len(q)))
                     <=> \E j \in i .. Len(q) : f = q[j]
<1> DEFINE s == SubSeq(q, i, Len(q))
<1>1. s \in Seq(Frame) /\ Len(s) = Len(q) - i + 1
      /\ \A m \in 1 .. Len(s) : s[m] = q[i + m - 1]
  OBVIOUS
<1> HIDE DEF s
<1>2. ASSUME NEW j \in i .. Len(q) PROVE q[j] \in Range(s)
  <2> DEFINE m == j - i + 1
  <2>1. Len(q) \in Nat /\ m \in 1 .. Len(s) /\ i + m - 1 = j
    BY <1>1
  <2>2. s[m] = q[j]
    BY <1>1, <2>1
  <2> QED BY <1>1, <2>1, <2>2, SeqRange
<1>3. ASSUME NEW f \in Range(s) PROVE \E j \in i .. Len(q) : f = q[j]
  <2>1. PICK m \in 1 .. Len(s) : f = s[m]
    BY <1>1, SeqRange
  <2>2. i + m - 1 \in i .. Len(q) /\ f = q[i + m - 1]
    BY <1>1, <2>1
  <2> QED BY <2>2
<1> QED BY <1>1, <1>2, <1>3 DEF s

----------------------------------------------------------------------------
\* The inductive invariant, in parts.

\* A frame's id is its place in the history of the cache; what is in hand, sent
\* or in the queue of the cache is a frame of that history.
IsCached(f) == f.id <= Len(cached) /\ f = cached[f.id]

IdsOK ==
  /\ \A i \in 1 .. Len(cached) : cached[i].id = i
  /\ \A i \in 1 .. Len(sent) : IsCached(sent[i])
  /\ \A p \in Publishers : inHand[p] = << >> \/ \E f \in Frame : inHand[p] = <<f>> /\ IsCached(f)

\* The queue of the cache: media only, in the order of caching.
QueueOK ==
  /\ \A i \in 1 .. Len(cache.frames) : IsGop(cache.frames[i]) /\ IsCached(cache.frames[i])
  /\ \A i, j \in 1 .. Len(cache.frames) :
       i < j => cache.frames[i].id < cache.frames[j].id

\* n is the place of the last key frame cached, 0 before the first; the media
\* from there on is in the queue.
LastKey(n) ==
  /\ n = 0 \/ IsKey(cached[n])
  /\ \A k \in n + 1 .. Len(cached) : ~ IsKey(cached[k])
  /\ n # 0 => \A k \in n .. Len(cached) :
                IsGop(cached[k]) => \E i \in 1 .. Len(cache.frames) : cache.frames[i] = cached[k]

CacheOK == QueueOK /\ \E n \in 0 .. Len(cached) : LastKey(n)

\* The invariant makes the replay exact.
LEMMA ExactFromCacheOK ==
  ASSUME TypeOK, IdsOK, CacheOK
  PROVE  GopIsExact /\ LatestGop(cache.frames) \in Seq(Frame)
<1> DEFINE q == cache.frames
<1>1. q \in Seq(Frame) /\ cached \in Seq(Frame)
  BY DEF TypeOK, Cache
<1>2. PICK n \in 0 .. Len(cached) : LastKey(n)
  BY DEF CacheOK
<1>3. CASE n = 0
  <2>1. \A j \in 1 .. Len(q) : ~ IsKey(q[j])
    <3> SUFFICES ASSUME NEW j \in 1 .. Len(q) PROVE ~ IsKey(q[j])
      OBVIOUS
    <3>1. q[j] \in Frame /\ IsCached(q[j])
      BY <1>1 DEF CacheOK, QueueOK
    <3>2. q[j].id \in 1 .. Len(cached)
      BY <1>1, <3>1, FrameId DEF IsCached
    <3> QED BY <1>2, <1>3, <3>1, <3>2 DEF LastKey, IsCached
  <2>2. StartIdx(q) = Len(q) + 1
    BY <1>1, <2>1, StartAtEnd
  <2>3. LatestGop(q) \in Seq(Frame) /\ \A f : f \notin Range(LatestGop(q))
    BY <1>1, <2>2, SuffixRange DEF LatestGop
  <2>4. \A f \in Range(cached) : ~ InLastGop(f, Len(cached))
    BY <1>1, <1>2, <1>3, SeqRange DEF InLastGop, LastKey, IdsOK
  <2> QED BY <2>3, <2>4 DEF GopIsExact
<1>4. CASE n # 0
  <2>1. PICK i \in 1 .. Len(q) : q[i] = cached[n]
    BY <1>1, <1>2, <1>4 DEF LastKey, IsGop, IsKey, GopKinds
  <2>2. IsKey(q[i]) /\ q[i].id = n
    BY <1>2, <1>4, <2>1 DEF LastKey, IdsOK
  <2>3. \A j \in i + 1 .. Len(q) : q[j].id > n /\ ~ IsKey(q[j])
    <3> SUFFICES ASSUME NEW j \in i + 1 .. Len(q) PROVE q[j].id > n /\ ~ IsKey(q[j])
      OBVIOUS
    <3>1. q[j] \in Frame /\ q[j].id > n
      BY <1>1, <2>2 DEF CacheOK, QueueOK
    <3>2. q[j].id \in n + 1 .. Len(cached) /\ q[j] = cached[q[j].id]
      BY <1>1, <3>1 DEF CacheOK, QueueOK, IsCached, Frame
    <3> QED BY <1>2, <3>1, <3>2 DEF LastKey
  <2>4. StartIdx(q) = i
    BY <1>1, <2>2, <2>3, StartAtKey, Zenon
  <2>5. LatestGop(q) \in Seq(Frame)
        /\ \A f : f \in Range(LatestGop(q)) <=> \E j \in i .. Len(q) : f = q[j]
    <3>1. LatestGop(q) = SubSeq(q, i, Len(q))
      BY <2>4, Zenon DEF LatestGop
    <3>2. q \in Seq(Frame) /\ i \in 1 .. Len(q) + 1
      BY <1>1
    <3> HIDE DEF q
    <3>3. /\ SubSeq(q, i, Len(q)) \in Seq(Frame)
          /\ \A f : f \in Range(SubSeq(q, i, Len(q))) <=> \E j \in i .. Len(q) : f = q[j]
      BY ONLY <3>2, SuffixRange
    <3> QED BY <3>1, <3>3, Zenon
  <2>6. ASSUME NEW j \in i .. Len(q)
        PROVE  q[j] \in Range(cached) /\ InLastGop(q[j], Len(cached))
    <3>0. j \in 1 .. Len(q) /\ q[j] \in Frame
      BY <1>1
    <3>1. IsGop(q[j]) /\ IsCached(q[j]) /\ q[j].id >= n /\ q[j].id \in 1 .. Len(cached)
      <4>1. IsGop(q[j]) /\ IsCached(q[j])
        BY <3>0 DEF CacheOK, QueueOK
      <4>2. q[j].id >= n
        <5>1. CASE j = i
          BY <2>2, <5>1
        <5>2. CASE j \in i + 1 .. Len(q)
          BY <1>1, <2>3, <3>0, <5>2, FrameId
        <5> QED BY <1>1, <5>1, <5>2
      <4> QED BY <1>1, <3>0, <4>1, <4>2, FrameId DEF IsCached
    <3>2. q[j] \in Range(cached)
      BY <1>1, <3>1, SeqRange DEF IsCached
    <3>3. n \in 1 .. q[j].id /\ IsKey(cached[n])
      BY <1>2, <1>4, <3>1 DEF LastKey
    <3>4. \A k \in q[j].id + 1 .. Len(cached) : ~ IsKey(cached[k])
      BY <1>2, <3>1 DEF LastKey
    <3> QED BY <3>1, <3>2, <3>3, <3>4 DEF InLastGop, IsCached
  <2>7. ASSUME NEW f \in Range(cached), InLastGop(f, Len(cached))
        PROVE  \E j \in i .. Len(q) : f = q[j]
    <3>1. PICK k \in 1 .. Len(cached) : f = cached[k] /\ f.id = k
      BY <1>1, SeqRange DEF IdsOK
    <3>2. k >= n
      BY <1>2, <1>4, <2>7, <3>1 DEF InLastGop, LastKey
    <3>3. PICK j \in 1 .. Len(q) : q[j] = f
      BY <1>2, <1>4, <2>7, <3>1, <3>2 DEF LastKey, InLastGop
    <3>4. j >= i
      BY <1>1, <2>2, <3>1, <3>2, <3>3 DEF CacheOK, QueueOK
    <3> QED BY <3>3, <3>4
  <2> QED BY <2>5, <2>6, <2>7 DEF GopIsExact
<1> QED BY <1>3, <1>4

\* The parts of the invariant that the consumers play no part in.
SourceInv == TypeOK /\ IdsOK /\ CacheOK

\* A new source (MediaSource::new) satisfies the invariant.
LEMMA SourceInit == Init => SourceInv
<1> SUFFICES ASSUME Init PROVE SourceInv
  OBVIOUS
<1>1. TypeOK
  BY DEF Init, TypeOK, Cache, NewCache
<1>2. IdsOK
  BY DEF Init, IdsOK
<1>3. LastKey(0) /\ QueueOK /\ 0 \in 0 .. Len(cached)
  BY DEF Init, LastKey, QueueOK, NewCache
<1> QED BY <1>1, <1>2, <1>3 DEF SourceInv, CacheOK

\* What the steps of publish_and_cache do to the histories.
LEMMA CacheStepFacts ==
  ASSUME TypeOK, NEW p \in Publishers, NEW k \in Emits[p], PublishCache(p, k)
  PROVE  \E f \in Frame :
           /\ f.id = Len(cached) + 1 /\ f.kind = k
           /\ cache' = cache_frame(cache, f)
           /\ cached' = Append(cached, f)
           /\ inHand' = [inHand EXCEPT ![p] = <<f>>]
<1> DEFINE f == [id |-> Len(cached) + 1, kind |-> k, track |-> p]
<1>1. k \in Kinds
  BY EmitsAssumption
<1>2. f \in Frame
  BY <1>1, BoundsAssumption DEF PublishCache, TypeOK, Frame
<1> QED BY <1>2, Zenon DEF PublishCache

\* The three ways in which cache_frame changes the queue.
LEMMA CacheCases ==
  ASSUME NEW c, NEW f \in Frame
  PROVE  /\ f.kind = "metadata" => cache_frame(c, f) = [c EXCEPT !.metadata = <<f>>]
         /\ f.kind = "video_config" => cache_frame(c, f) = [c EXCEPT !.video_config = <<f>>]
         /\ f.kind = "audio_config" => cache_frame(c, f) = [c EXCEPT !.audio_config = <<f>>]
         /\ f.kind = "key" => cache_frame(c, f) = [c EXCEPT !.frames = Append(PopOld(@), f)]
         /\ f.kind \in {"video", "audio"} => cache_frame(c, f) = [c EXCEPT !.frames = Append(@, f)]
         /\ f.kind \in {"metadata", "video_config", "audio_config", "key", "video", "audio"}
BY DEF cache_frame, Frame, Kinds, ConfigKinds, GopKinds

\* The four startup steps of a consumer.
LEMMA StartupCases ==
  ASSUME TypeOK, NEW r \in Readers, StartupStep(r)
  PROVE  /\ step[r] \in 1 .. Len(Plan(r)) /\ ~ ended[r]
         /\ \/ Plan(r)[step[r]] = "subscribe" /\ subscribe(r)
            \/ Plan(r)[step[r]] = "config" /\ ReadConfig(r)
            \/ Plan(r)[step[r]] = "gop" /\ ReadGop(r)
            \/ Plan(r)[step[r]] = "media" /\ ReadMedia(r)
         /\ step' = [step EXCEPT ![r] = @ + 1]
         /\ UNCHANGED <<cache, open, inHand, cached, sent, lagged, ended>>
<1>1. Plan(r) \in Seq(StartupSteps)
  BY ProfileAssumption DEF Plan, Profiles
<1>2. step[r] \in 1 .. Len(Plan(r)) /\ ~ ended[r]
  BY <1>1 DEF StartupStep, TypeOK
<1>3. Plan(r)[step[r]] \in StartupSteps
  BY <1>1, <1>2
<1> QED BY <1>2, <1>3, Zenon DEF StartupStep, StartupSteps, sourceVars

\* Every step keeps the types.
LEMMA TypeStep == SourceInv /\ [Next]_vars => TypeOK'
<1> SUFFICES ASSUME SourceInv, [Next]_vars PROVE TypeOK'
  OBVIOUS
<1>0. TypeOK
  BY DEF SourceInv
<1> USE <1>0 DEF readerVars, sourceVars
<1>1. ASSUME NEW p \in Publishers, PublishSend(p) PROVE TypeOK'
  BY <1>1 DEF PublishSend, TypeOK
<1>2. ASSUME NEW p \in Publishers, NEW k \in Emits[p], PublishCache(p, k) PROVE TypeOK'
  <2>1. PICK f \in Frame :
           /\ cache' = cache_frame(cache, f)
           /\ cached' = Append(cached, f)
           /\ inHand' = [inHand EXCEPT ![p] = <<f>>]
    BY <1>2, CacheStepFacts
  <2>2. PopOld(cache.frames) \in Seq(Frame)
    BY MaxGopAssumption DEF TypeOK, Cache, PopOld
  <2>3. cache' \in Cache
    <3>1. cache \in Cache /\ <<f>> \in Seq(Frame)
          /\ Append(PopOld(cache.frames), f) \in Seq(Frame)
          /\ Append(cache.frames, f) \in Seq(Frame)
      BY <2>2 DEF TypeOK, Cache
    <3>2. \/ cache' = [cache EXCEPT !.metadata = <<f>>]
          \/ cache' = [cache EXCEPT !.video_config = <<f>>]
          \/ cache' = [cache EXCEPT !.audio_config = <<f>>]
          \/ cache' = [cache EXCEPT !.frames = Append(PopOld(@), f)]
          \/ cache' = [cache EXCEPT !.frames = Append(@, f)]
      BY <2>1, CacheCases
    <3> QED BY <3>1, <3>2, Zenon DEF Cache
  <2> QED BY <1>2, <2>1, <2>3 DEF PublishCache, TypeOK
<1>3. CASE close
  BY <1>3, Zenon DEF close, TypeOK
<1>4. ASSUME NEW r \in Readers, StartupStep(r) PROVE TypeOK'
  <2>1. LatestGop(cache.frames) \in Seq(Frame)
    BY ExactFromCacheOK DEF SourceInv
  <2>2. get_config_frames(cache) \in Seq(Frame)
    BY DEF TypeOK, Cache, get_config_frames
  <2>3. get_latest_gop_frames(cache) \in Seq(Frame)
    BY <2>1, <2>2 DEF TypeOK, Cache, get_latest_gop_frames
  <2>5. subscribe(r) \/ ReadConfig(r) \/ ReadGop(r) \/ ReadMedia(r)
    BY <1>4, StartupCases
  <2>6. /\ sub' \in [Readers -> Nat]
        /\ next' \in [Readers -> Nat \ {0}]
        /\ snap' \in [Readers -> Nat]
        /\ got' \in [Readers -> Seq(Frame)]
    <3>1. CASE subscribe(r)
      BY <3>1 DEF TypeOK, subscribe
    <3>2. CASE ReadConfig(r)
      BY <2>2, <3>2 DEF TypeOK, ReadConfig
    <3>3. CASE ReadGop(r)
      BY <2>3, <3>3 DEF TypeOK, ReadGop
    <3>4. CASE ReadMedia(r)
      BY <2>1, <3>4 DEF TypeOK, Cache, ReadMedia
    <3> QED BY <2>5, <3>1, <3>2, <3>3, <3>4
  <2>7. step' \in [Readers -> Nat \ {0}]
        /\ UNCHANGED <<cache, open, inHand, cached, sent, lagged, ended>>
    <3>1. /\ step' = [step EXCEPT ![r] = @ + 1]
          /\ UNCHANGED <<cache, open, inHand, cached, sent, lagged, ended>>
      BY <1>4, StartupCases
    <3>2. step \in [Readers -> Nat \ {0}] /\ step[r] + 1 \in Nat \ {0}
      BY DEF TypeOK
    <3> QED BY <3>1, <3>2
  <2> QED BY <2>6, <2>7, Zenon DEF TypeOK
<1>5. ASSUME NEW r \in Readers, Receive(r) \/ Leave(r) PROVE TypeOK'
  <2>1. CASE RecvFrame(r)
    <3>1. next[r] \in 1 .. Len(sent) /\ sent[next[r]] \in Frame
      BY <2>1, BoundsAssumption DEF RecvFrame, TypeOK, Backlog
    <3>2. got' \in [Readers -> Seq(Frame)] /\ next' \in [Readers -> Nat \ {0}]
      BY <2>1, <3>1 DEF RecvFrame, TypeOK
    <3> QED BY <2>1, <3>2, Zenon DEF RecvFrame, TypeOK
  <2>2. CASE RecvLagged(r)
    <3>1. Len(sent) - ChannelCap + 1 \in Nat \ {0}
      BY <2>2, BoundsAssumption DEF RecvLagged, TypeOK, Backlog
    <3>2. (Profile[r].on_lag = "end") \in BOOLEAN
      OBVIOUS
    <3> QED BY <2>2, <3>1, <3>2 DEF RecvLagged, TypeOK
  <2>3. CASE RecvClosed(r) \/ Leave(r)
    BY <2>3, Zenon DEF RecvClosed, Leave, TypeOK
  <2> QED BY <1>5, <2>1, <2>2, <2>3 DEF Receive
<1>6. CASE UNCHANGED vars
  BY <1>6 DEF vars, TypeOK
<1> QED BY <1>1, <1>2, <1>3, <1>4, <1>5, <1>6 DEF Next, Publish, Consume

\* The history of the cache only grows.
LEMMA HistoryGrows ==
  ASSUME SourceInv, [Next]_vars
  PROVE  /\ Len(cached') >= Len(cached) /\ Len(sent') >= Len(sent)
         /\ \A i \in 1 .. Len(cached) : cached'[i] = cached[i]
         /\ \A i \in 1 .. Len(sent) : sent'[i] = sent[i]
<1>0. TypeOK
  BY DEF SourceInv
<1>1. cached' = cached \/ \E f \in Frame : cached' = Append(cached, f)
  <2>1. ASSUME NEW p \in Publishers, NEW k \in Emits[p], PublishCache(p, k)
        PROVE  \E f \in Frame : cached' = Append(cached, f)
    BY <1>0, <2>1, CacheStepFacts
  <2> QED BY <1>0, <2>1, StartupCases DEF Next, Publish, Consume, Receive, PublishSend, close,
          RecvFrame, RecvLagged, RecvClosed, Leave, sourceVars, vars
<1>2. sent' = sent \/ \E p \in Publishers : sent' = sent \o inHand[p]
  BY <1>0, StartupCases, Zenon DEF Next, Publish, Consume, Receive, PublishCache, PublishSend, close,
     RecvFrame, RecvLagged, RecvClosed, Leave, sourceVars, vars
<1>3. cached \in Seq(Frame) /\ sent \in Seq(Frame) /\ inHand \in [Publishers -> Seq(Frame)]
  BY <1>0 DEF TypeOK
<1>4. Len(cached') >= Len(cached) /\ \A i \in 1 .. Len(cached) : cached'[i] = cached[i]
  BY <1>1, <1>3
<1>5. Len(sent') >= Len(sent) /\ \A i \in 1 .. Len(sent) : sent'[i] = sent[i]
  BY <1>2, <1>3
<1> QED BY <1>4, <1>5

\* A frame of the history stays one.
LEMMA StaysCached ==
  ASSUME SourceInv, [Next]_vars, NEW f \in Frame, IsCached(f)
  PROVE  f.id <= Len(cached') /\ f = cached'[f.id]
<1>1. cached \in Seq(Frame) /\ f.id \in 1 .. Len(cached)
  BY FrameId DEF IsCached, SourceInv, TypeOK
<1>2. TypeOK'
  BY TypeStep
<1> QED BY <1>1, <1>2, HistoryGrows DEF IsCached, TypeOK

\* Every step keeps the numbering of cached, sent and held frames.
LEMMA IdsStep == SourceInv /\ [Next]_vars => IdsOK'
<1> SUFFICES ASSUME SourceInv, [Next]_vars PROVE IdsOK'
  OBVIOUS
<1>0. TypeOK /\ IdsOK /\ TypeOK'
  BY TypeStep DEF SourceInv
<1>1. ASSUME NEW p \in Publishers, NEW k \in Emits[p], PublishCache(p, k) PROVE IdsOK'
  <2>1. PICK f \in Frame :
           /\ f.id = Len(cached) + 1
           /\ cached' = Append(cached, f)
           /\ inHand' = [inHand EXCEPT ![p] = <<f>>]
    BY <1>0, <1>1, CacheStepFacts
  <2>2. sent' = sent
    BY <1>1 DEF PublishCache
  <2>3. Len(cached') = Len(cached) + 1 /\ cached'[f.id] = f
    BY <1>0, <2>1 DEF TypeOK
  <2>4. \A i \in 1 .. Len(cached') : cached'[i].id = i
    <3>1. cached \in Seq(Frame) /\ f.id = Len(cached) + 1
      BY <1>0, <2>1, <2>3 DEF TypeOK
    <3>2. \A i \in 1 .. Len(cached) : cached'[i] = cached[i] /\ cached[i].id = i
      BY <1>0, <2>1, <3>1 DEF IdsOK
    <3> QED BY <2>3, <3>1, <3>2
  <2>5. \A i \in 1 .. Len(sent) : sent[i] \in Frame /\ sent[i].id <= Len(cached')
                                  /\ sent[i] = cached'[sent[i].id]
    BY <1>0, StaysCached DEF IdsOK, TypeOK
  <2>6. ASSUME NEW o \in Publishers
        PROVE  inHand'[o] = << >> \/ \E g \in Frame : inHand'[o] = <<g>> /\ IsCached(g)'
    <3>1. CASE o = p
      BY <1>0, <2>1, <2>3, <3>1 DEF TypeOK, IsCached
    <3>2. CASE o # p
      <4>1. inHand'[o] = inHand[o]
        BY <1>0, <2>1, <3>2 DEF TypeOK
      <4>2. \A g \in Frame : IsCached(g) => IsCached(g)'
        BY StaysCached DEF IsCached
      <4> QED BY <1>0, <4>1, <4>2 DEF IdsOK
    <3> QED BY <3>1, <3>2
  <2> QED BY <2>2, <2>4, <2>5, <2>6 DEF IdsOK, IsCached
<1>2. ASSUME NEW p \in Publishers, PublishSend(p) PROVE IdsOK'
  <2>1. PICK f \in Frame : inHand[p] = <<f>> /\ IsCached(f)
    BY <1>0, <1>2 DEF PublishSend, IdsOK
  <2>2. cached' = cached /\ inHand' = [inHand EXCEPT ![p] = << >>]
        /\ sent' \in {sent, Append(sent, f)}
    BY <1>0, <1>2, <2>1 DEF PublishSend, TypeOK
  <2>3. \A i \in 1 .. Len(sent') : sent'[i].id <= Len(cached) /\ sent'[i] = cached[sent'[i].id]
    <3> SUFFICES ASSUME NEW i \in 1 .. Len(sent')
                 PROVE  sent'[i].id <= Len(cached) /\ sent'[i] = cached[sent'[i].id]
      OBVIOUS
    <3>1. (i \in 1 .. Len(sent) /\ sent'[i] = sent[i]) \/ sent'[i] = f
      <4>1. CASE sent' = sent
        BY <4>1
      <4>2. CASE sent' = Append(sent, f)
        BY <1>0, <4>2 DEF TypeOK
      <4> QED BY <2>2, <4>1, <4>2
    <3> QED BY <1>0, <2>1, <3>1 DEF IdsOK, IsCached
  <2>4. \A o \in Publishers :
          inHand'[o] = << >> \/ \E g \in Frame : inHand'[o] = <<g>> /\ IsCached(g)
    BY <1>0, <2>2 DEF IdsOK, TypeOK
  <2> QED BY <1>0, <2>2, <2>3, <2>4 DEF IdsOK, IsCached
<1>3. CASE UNCHANGED <<cached, sent, inHand>>
  BY <1>0, <1>3 DEF IdsOK, IsCached
<1> QED BY <1>0, <1>1, <1>2, <1>3, StartupCases DEF Next, Publish, Consume, Receive, close,
        RecvFrame, RecvLagged, RecvClosed, Leave, sourceVars, vars

\* cache_frame drops a prefix of the queue before a key frame.
LEMMA PopOldSuffix ==
  ASSUME NEW q \in Seq(Frame)
  PROVE  /\ PopOld(q) \in Seq(Frame)
         /\ \E d \in 0 .. Len(q) : /\ Len(PopOld(q)) = Len(q) - d
                                  /\ \A i \in 1 .. Len(q) - d : PopOld(q)[i] = q[i + d]
<1>1. CASE Len(q) < MaxGopFrames
  <2>1. PopOld(q) = q
    BY <1>1 DEF PopOld
  <2> QED BY <2>1
<1>2. CASE ~ Len(q) < MaxGopFrames
  <2> DEFINE d == Len(q) - MaxGopFrames + 1
  <2>1. d \in 0 .. Len(q) /\ Len(q) \in Nat
    BY <1>2, MaxGopAssumption
  <2>2. PopOld(q) = SubSeq(q, d + 1, Len(q))
    BY <1>2, MaxGopAssumption DEF PopOld
  <2>3. /\ PopOld(q) \in Seq(Frame) /\ Len(PopOld(q)) = Len(q) - d
        /\ \A i \in 1 .. Len(q) - d : PopOld(q)[i] = q[i + d]
    <3> HIDE DEF d
    <3> QED BY <2>1, <2>2
  <2> QED BY <2>1, <2>3
<1> QED BY <1>1, <1>2

\* A queue that takes the newest frame at its end keeps its order.
LEMMA AppendQueue ==
  ASSUME SourceInv, [Next]_vars, NEW q \in Seq(Frame), NEW f \in Frame,
         \A i \in 1 .. Len(q) : IsGop(q[i]) /\ IsCached(q[i]),
         \A i, j \in 1 .. Len(q) : i < j => q[i].id < q[j].id,
         IsGop(f), f.id = Len(cached) + 1, cached' = Append(cached, f),
         cache'.frames = Append(q, f)
  PROVE  QueueOK'
<1>0. PICK w \in Seq(Frame) : w = Append(q, f)
  <2>1. Append(q, f) \in Seq(Frame)
    OBVIOUS
  <2> QED BY <2>1, Zenon
<1>1. /\ Len(w) = Len(q) + 1 /\ w[Len(q) + 1] = f /\ Len(q) \in Nat
      /\ \A i \in 1 .. Len(q) : w[i] = q[i] /\ q[i] \in Frame
  BY <1>0
<1>2. cached \in Seq(Frame) /\ IsCached(f)'
  BY DEF SourceInv, TypeOK, IsCached
<1>3. \A i \in 1 .. Len(q) : IsCached(q[i])' /\ q[i].id < f.id
  BY <1>1, <1>2, StaysCached, FrameId DEF IsCached
<1>4. \A i \in 1 .. Len(w) : i \in 1 .. Len(q) \/ i = Len(q) + 1
  BY <1>1
<1>5. \A i \in 1 .. Len(w) : IsGop(w[i]) /\ IsCached(w[i])'
  BY <1>1, <1>2, <1>3, <1>4
<1>6. ASSUME NEW i \in 1 .. Len(w), NEW j \in 1 .. Len(w), i < j PROVE w[i].id < w[j].id
  <2>1. i \in 1 .. Len(q)
    BY <1>1, <1>6
  <2> QED BY <1>1, <1>3, <1>4, <1>6, <2>1, Zenon
<1> QED BY <1>0, <1>5, <1>6 DEF QueueOK

\* Every step keeps the queue a run of the newest media that reaches back to
\* the last key frame; only publish_and_cache touches it.
LEMMA CacheStep == SourceInv /\ [Next]_vars => CacheOK'
<1> SUFFICES ASSUME SourceInv, [Next]_vars PROVE CacheOK'
  OBVIOUS
<1>0. TypeOK /\ QueueOK /\ cache \in Cache /\ cached \in Seq(Frame)
      /\ cache.frames \in Seq(Frame)
  BY DEF SourceInv, CacheOK, TypeOK, Cache
<1>1. PICK n \in 0 .. Len(cached) : LastKey(n)
  BY DEF SourceInv, CacheOK
<1>2. ASSUME NEW p \in Publishers, NEW k \in Emits[p], PublishCache(p, k) PROVE CacheOK'
  <2>1. PICK f \in Frame :
           /\ f.id = Len(cached) + 1
           /\ cache' = cache_frame(cache, f)
           /\ cached' = Append(cached, f)
    BY <1>0, <1>2, CacheStepFacts
  <2>2. /\ Len(cached') = Len(cached) + 1 /\ cached'[Len(cached) + 1] = f
        /\ \A i \in 1 .. Len(cached) : cached'[i] = cached[i]
    BY <1>0, <2>1
  <2>3. CASE f.kind = "key"
    <3>1. cache'.frames = Append(PopOld(cache.frames), f)
      BY <1>0, <2>1, <2>3, CacheCases DEF Cache
    <3>2. PICK d \in 0 .. Len(cache.frames) :
            /\ Len(PopOld(cache.frames)) = Len(cache.frames) - d
            /\ \A i \in 1 .. Len(cache.frames) - d : PopOld(cache.frames)[i] = cache.frames[i + d]
      BY <1>0, PopOldSuffix, Zenon
    <3>3. PopOld(cache.frames) \in Seq(Frame) /\ IsGop(f) /\ IsKey(f)
      BY <1>0, <2>3, PopOldSuffix, Zenon DEF IsGop, IsKey, GopKinds
    <3>4. QueueOK'
      <4> DEFINE q == PopOld(cache.frames)
      <4>1. \A i \in 1 .. Len(q) : i + d \in 1 .. Len(cache.frames) /\ q[i] = cache.frames[i + d]
        BY <1>0, <3>2
      <4>2. \A i \in 1 .. Len(q) : IsGop(q[i]) /\ IsCached(q[i])
        BY <1>0, <4>1 DEF QueueOK
      <4>3. ASSUME NEW i \in 1 .. Len(q), NEW j \in 1 .. Len(q), i < j
            PROVE  q[i].id < q[j].id
        <5>1. i + d < j + d
          BY <3>3, <4>3
        <5> QED BY <1>0, <4>1, <5>1, Zenon DEF QueueOK
      <4> QED BY <2>1, <3>1, <3>3, <4>2, <4>3, AppendQueue, Zenon
    <3>5. PICK m \in Nat : m = Len(cached')
      BY <1>0, <2>2
    <3>6. cache'.frames[Len(cache'.frames)] = f /\ Len(cache'.frames) \in 1 .. Len(cache'.frames)
      BY <3>1, <3>3
    <3>7. LastKey(m)'
      <4>1. cached'[m] = f /\ m .. Len(cached') = {m} /\ m + 1 .. Len(cached') = {}
        BY <1>0, <2>2, <3>5
      <4> QED BY <3>3, <3>6, <4>1, Zenon DEF LastKey
    <3> QED BY <3>4, <3>5, <3>7 DEF CacheOK
  <2>4. CASE f.kind \in {"video", "audio"}
    <3>1. cache'.frames = Append(cache.frames, f)
      BY <1>0, <2>1, <2>4, CacheCases DEF Cache
    <3>2. IsGop(f) /\ ~ IsKey(f)
      BY <2>4 DEF IsGop, IsKey, GopKinds
    <3>3. QueueOK'
      BY <1>0, <2>1, <3>1, <3>2, AppendQueue, Zenon DEF QueueOK
    <3>4. /\ Len(cache'.frames) = Len(cache.frames) + 1
          /\ cache'.frames[Len(cache.frames) + 1] = f
          /\ \A i \in 1 .. Len(cache.frames) : cache'.frames[i] = cache.frames[i]
      BY <1>0, <3>1
    <3>5. ASSUME n # 0, NEW m \in n .. Len(cached'), IsGop(cached'[m])
          PROVE  \E i \in 1 .. Len(cache'.frames) : cache'.frames[i] = cached'[m]
      <4>1. CASE m = Len(cached) + 1
        BY <1>0, <2>2, <3>4, <4>1
      <4>2. CASE m \in n .. Len(cached)
        <5>1. m \in 1 .. Len(cached) /\ cached'[m] = cached[m]
          BY <1>0, <2>2, <3>5, <4>2
        <5>2. PICK i \in 1 .. Len(cache.frames) : cache.frames[i] = cached[m]
          BY <1>1, <3>5, <4>2, <5>1 DEF LastKey
        <5> QED BY <1>0, <3>4, <5>1, <5>2
      <4> QED BY <1>0, <2>2, <4>1, <4>2
    <3>6. LastKey(n)'
      BY <1>0, <1>1, <2>2, <3>2, <3>5 DEF LastKey
    <3> QED BY <1>0, <2>2, <3>3, <3>6 DEF CacheOK
  <2>5. CASE f.kind \in {"metadata", "video_config", "audio_config"}
    <3>1. cache'.frames = cache.frames
      BY <1>0, <2>1, <2>5, CacheCases DEF Cache
    <3>2. ~ IsGop(f) /\ ~ IsKey(f)
      BY <2>5 DEF IsGop, IsKey, GopKinds
    <3>3. QueueOK'
      BY <1>0, <3>1, StaysCached DEF QueueOK, IsCached
    <3>4. LastKey(n)'
      BY <1>0, <1>1, <2>2, <3>1, <3>2 DEF LastKey
    <3> QED BY <1>0, <2>2, <3>3, <3>4 DEF CacheOK
  <2> QED BY <2>3, <2>4, <2>5, CacheCases, Zenon
<1>3. CASE UNCHANGED <<cache, cached>>
  BY <1>0, <1>1, <1>3 DEF CacheOK, QueueOK, LastKey, IsCached
<1> QED BY <1>0, <1>2, <1>3, StartupCases DEF Next, Publish, Consume, Receive, PublishSend, close,
        RecvFrame, RecvLagged, RecvClosed, Leave, sourceVars, vars

\* The source's own invariant, consumers or not.
THEOREM SourceInvariant == Spec => []SourceInv
<1>1. SourceInv /\ [Next]_vars => SourceInv'
  BY TypeStep, IdsStep, CacheStep DEF SourceInv
<1> QED BY <1>1, SourceInit, PTL DEF Spec

\* What get_latest_gop_frames replays is the media cached since the last key
\* frame, for every cache size and every interleaving of publishers.
THEOREM ExactGop == Spec => []GopIsExact
<1>1. SourceInv => GopIsExact
  BY ExactFromCacheOK DEF SourceInv
<1> QED BY <1>1, SourceInvariant, PTL

----------------------------------------------------------------------------
\* Consumers that subscribe first.

\* r has read the cached GOP.
Snapped(r) == \E i \in 1 .. Len(Plan(r)) : i < step[r] /\ Plan(r)[i] \in {"gop", "media"}

\* Where r reads; what was sent before it subscribed was cached when it read the
\* cache; it has the GOP of that moment and what it took from the channel.
PlaceOK(r) == sub[r] < next[r] /\ next[r] <= Len(sent) + 1 /\ snap[r] <= Len(cached)
SnapOK(r) ==
  Snapped(r) =>
    /\ \A i \in 1 .. sub[r] : sent[i].id <= snap[r]
    /\ \A n \in 1 .. snap[r] : InLastGop(cached[n], snap[r]) => cached[n] \in Range(got[r])
TakenOK(r) ==
  ~ lagged[r] =>
    \A i \in sub[r] + 1 .. next[r] - 1 : IsGop(sent[i]) => sent[i] \in Range(got[r])

ReaderOK(r) == PlaceOK(r) /\ SnapOK(r) /\ TakenOK(r)
ReadersInv == \A r \in Readers : SubscribesFirst(r) => ReaderOK(r)

\* The invariants of the source and of its consumers leave no gap.
LEMMA NoGapFromInv == SourceInv /\ ReadersInv => NoGap
<1> SUFFICES ASSUME SourceInv, NEW r \in Readers, SubscribesFirst(r), ReaderOK(r),
                    step[r] > Len(Plan(r)), ~ lagged[r],
                    NEW i \in 1 .. next[r] - 1, IsGop(sent[i]),
                    sent[i].id > snap[r] \/ InLastGop(sent[i], snap[r])
             PROVE  sent[i] \in Range(got[r])
  BY DEF ReadersInv, NoGap, NoGapFor
<1>1. Snapped(r)
  <2>1. PICK j \in 2 .. Len(Plan(r)) : Plan(r)[j] \in {"gop", "media"}
    BY DEF SubscribesFirst
  <2>2. j \in 1 .. Len(Plan(r)) /\ j < step[r]
    BY DEF SourceInv, TypeOK
  <2> QED BY <2>1, <2>2 DEF Snapped
<1>2. /\ i \in 1 .. Len(sent) /\ sent[i] \in Frame /\ IsCached(sent[i])
      /\ snap[r] \in Nat /\ sub[r] \in Nat
  BY DEF ReaderOK, PlaceOK, SourceInv, IdsOK, TypeOK
<1>3. CASE i > sub[r]
  BY <1>2, <1>3 DEF ReaderOK, TakenOK
<1>4. CASE i \in 1 .. sub[r]
  <2>1. sent[i].id <= snap[r] /\ sent[i].id \in Nat /\ sent[i].id >= 1
    BY <1>1, <1>2, <1>4, FrameId DEF ReaderOK, SnapOK
  <2>2. sent[i].id \in 1 .. snap[r] /\ InLastGop(sent[i], snap[r])
    BY <1>2, <2>1
  <2> QED BY <1>1, <1>2, <2>2, Zenon DEF ReaderOK, SnapOK, IsCached
<1> QED BY <1>2, <1>3, <1>4

\* A consumer that has not started satisfies the invariant.
LEMMA ReadersInit == Init => ReadersInv
<1> SUFFICES ASSUME Init, NEW r \in Readers, SubscribesFirst(r) PROVE ReaderOK(r)
  BY DEF ReadersInv
<1>1. ~ Snapped(r)
  BY DEF Init, Snapped
<1> QED BY <1>1 DEF Init, ReaderOK, PlaceOK, SnapOK, TakenOK

\* What r has of the GOP it replayed stays as long as it reads no other.
LEMMA SnapStays ==
  ASSUME SourceInv, [Next]_vars, NEW r \in Readers, ReaderOK(r), Snapped(r)' => Snapped(r),
         \A f \in Range(got[r]) : f \in Range(got'[r]),
         sub'[r] = sub[r], snap'[r] = snap[r]
  PROVE  SnapOK(r)'
<1>1. /\ cached \in Seq(Frame) /\ sent \in Seq(Frame)
      /\ sub[r] \in Nat /\ snap[r] \in Nat /\ next[r] \in Nat
  BY DEF SourceInv, TypeOK
<1> SUFFICES ASSUME Snapped(r)'
             PROVE  /\ \A i \in 1 .. sub[r] : sent'[i].id <= snap[r]
                    /\ \A n \in 1 .. snap[r] :
                         InLastGop(cached[n], snap[r])' => cached'[n] \in Range(got'[r])
  BY DEF SnapOK, InLastGop
<1>2. \A i \in 1 .. sub[r] : sent'[i].id <= snap[r]
  <2>1. \A i \in 1 .. sub[r] : i \in 1 .. Len(sent)
    BY <1>1 DEF ReaderOK, PlaceOK
  <2> QED BY <2>1, HistoryGrows, Zenon DEF ReaderOK, SnapOK
<1>3. ASSUME NEW n \in 1 .. snap[r], InLastGop(cached[n], snap[r])'
      PROVE  cached'[n] \in Range(got'[r])
  <2>1. \A k \in 1 .. snap[r] : k \in 1 .. Len(cached) /\ cached'[k] = cached[k]
    <3>1. \A k \in 1 .. snap[r] : k \in 1 .. Len(cached)
      BY <1>1 DEF ReaderOK, PlaceOK
    <3>2. \A k \in 1 .. Len(cached) : cached'[k] = cached[k]
      BY HistoryGrows
    <3> QED BY <3>1, <3>2
  <2>2. cached[n] \in Frame /\ cached[n].id = n
    BY <1>1, <2>1 DEF SourceInv, IdsOK
  <2>3. InLastGop(cached[n], snap[r])
    BY <1>1, <1>3, <2>1, <2>2 DEF InLastGop
  <2> QED BY <2>1, <2>3 DEF ReaderOK, SnapOK
<1> QED BY <1>2, <1>3

\* What r took from the channel stays with it.
LEMMA TakenStays ==
  ASSUME SourceInv, [Next]_vars, NEW r \in Readers, ReaderOK(r), ~ lagged[r],
         \A f \in Range(got[r]) : f \in Range(got'[r])
  PROVE  \A i \in sub[r] + 1 .. next[r] - 1 :
           i \in 1 .. Len(sent) /\ (IsGop(sent'[i]) => sent'[i] \in Range(got'[r]))
<1>1. sent \in Seq(Frame) /\ sub[r] \in Nat /\ next[r] \in Nat
  BY DEF SourceInv, TypeOK
<1>2. \A i \in sub[r] + 1 .. next[r] - 1 : i \in 1 .. Len(sent) /\ sent'[i] = sent[i]
  BY <1>1, HistoryGrows DEF ReaderOK, PlaceOK
<1> QED BY <1>2 DEF ReaderOK, TakenOK

\* A step that leaves r's place alone and takes nothing from r.
LEMMA ReaderStays ==
  ASSUME SourceInv, [Next]_vars, NEW r \in Readers, ReaderOK(r), Snapped(r)' => Snapped(r),
         \A f \in Range(got[r]) : f \in Range(got'[r]),
         sub'[r] = sub[r], next'[r] = next[r], snap'[r] = snap[r], lagged'[r] = lagged[r]
  PROVE  ReaderOK(r)'
<1>1. TypeOK /\ TypeOK'
  BY TypeStep DEF SourceInv
<1>2. PlaceOK(r)'
  BY <1>1, HistoryGrows DEF ReaderOK, PlaceOK, TypeOK
<1>3. SnapOK(r)'
  BY SnapStays
<1>4. TakenOK(r)'
  BY TakenStays DEF TakenOK
<1> QED BY <1>2, <1>3, <1>4 DEF ReaderOK

\* The frames of two sequences joined are those of either.
LEMMA ConcatRange ==
  ASSUME NEW q \in Seq(Frame), NEW w \in Seq(Frame)
  PROVE  \A f : f \in Range(q \o w) <=> f \in Range(q) \/ f \in Range(w)
<1>1. PICK c \in Seq(Frame) : c = q \o w
  <2>1. q \o w \in Seq(Frame)
    OBVIOUS
  <2> QED BY <2>1, Zenon
<1>2. /\ Len(c) = Len(q) + Len(w) /\ Len(q) \in Nat /\ Len(w) \in Nat
      /\ \A i \in 1 .. Len(q) : c[i] = q[i]
      /\ \A i \in 1 .. Len(w) : c[Len(q) + i] = w[i]
  BY <1>1
<1>3. ASSUME NEW i \in 1 .. Len(q) PROVE q[i] \in Range(c)
  BY <1>2, SeqRange
<1>4. ASSUME NEW i \in 1 .. Len(w) PROVE w[i] \in Range(c)
  <2>1. Len(q) + i \in 1 .. Len(c)
    BY <1>2
  <2> QED BY <1>2, <2>1, SeqRange, Zenon
<1>5. ASSUME NEW i \in 1 .. Len(c) PROVE c[i] \in Range(q) \/ c[i] \in Range(w)
  <2>1. CASE i <= Len(q)
    BY <1>2, <2>1, SeqRange
  <2>2. CASE i > Len(q)
    <3>1. i - Len(q) \in 1 .. Len(w) /\ Len(q) + (i - Len(q)) = i
      BY <1>2, <2>2
    <3>2. c[i] = w[i - Len(q)]
      BY <1>2, <3>1
    <3> QED BY <3>1, <3>2, SeqRange
  <2> QED BY <1>2, <2>1, <2>2
<1>6. ASSUME NEW f \in Range(q) \cup Range(w) PROVE f \in Range(c)
  <2>1. CASE f \in Range(q)
    BY <1>3, <2>1, SeqRange
  <2>2. CASE f \in Range(w)
    BY <1>4, <2>2, SeqRange
  <2> QED BY <2>1, <2>2
<1>7. ASSUME NEW f \in Range(c) PROVE f \in Range(q) \/ f \in Range(w)
  <2>1. PICK i \in 1 .. Len(c) : f = c[i]
    BY SeqRange
  <2> QED BY <1>5, <2>1
<1> QED BY <1>1, <1>6, <1>7

\* A consumer reads the cached GOP after it subscribed.
LEMMA SnapTaken ==
  ASSUME SourceInv, [Next]_vars, NEW r \in Readers, ReaderOK(r), NEW w \in Seq(Frame),
         \A f \in Range(LatestGop(cache.frames)) : f \in Range(w),
         got' = [got EXCEPT ![r] = @ \o w], snap' = [snap EXCEPT ![r] = Len(cached)],
         UNCHANGED <<sub, next, sent, cached, lagged>>
  PROVE  ReaderOK(r)'
<1>1. /\ got \in [Readers -> Seq(Frame)] /\ snap \in [Readers -> Nat]
      /\ cached \in Seq(Frame) /\ sent \in Seq(Frame)
      /\ sub[r] \in Nat /\ next[r] \in Nat
  BY DEF SourceInv, TypeOK
<1>2. snap'[r] = Len(cached) /\ got'[r] = got[r] \o w
  BY <1>1
<1>3. \A f : f \in Range(got'[r]) <=> f \in Range(got[r]) \/ f \in Range(w)
  BY <1>1, <1>2, ConcatRange
<1>4. PlaceOK(r)'
  BY <1>1, <1>2 DEF ReaderOK, PlaceOK
<1>5. TakenOK(r)'
  BY <1>3, TakenStays DEF TakenOK
<1>6. \A i \in 1 .. sub[r] : sent[i].id <= Len(cached)
  BY <1>1 DEF ReaderOK, PlaceOK, SourceInv, IdsOK, IsCached
<1>7. ASSUME NEW n \in 1 .. Len(cached), InLastGop(cached[n], Len(cached))
      PROVE  cached[n] \in Range(got'[r])
  <2>1. cached[n] \in Range(cached)
    BY <1>1, SeqRange
  <2>2. cached[n] \in Range(LatestGop(cache.frames))
    BY <1>7, <2>1, ExactFromCacheOK DEF SourceInv, GopIsExact
  <2> QED BY <1>3, <2>2
<1>8. SnapOK(r)'
  BY <1>2, <1>6, <1>7, Zenon DEF SnapOK, InLastGop
<1> QED BY <1>4, <1>5, <1>8 DEF ReaderOK

\* The startup steps of a consumer keep its invariant.
LEMMA StartupKeeps ==
  ASSUME SourceInv, [Next]_vars, NEW r \in Readers, SubscribesFirst(r), ReaderOK(r),
         StartupStep(r)
  PROVE  ReaderOK(r)'
<1>0. TypeOK /\ TypeOK'
  BY TypeStep DEF SourceInv
<1>1. /\ step[r] \in 1 .. Len(Plan(r)) /\ step'[r] = step[r] + 1
      /\ UNCHANGED <<cached, sent, lagged>>
  <2>1. /\ step[r] \in 1 .. Len(Plan(r)) /\ step' = [step EXCEPT ![r] = @ + 1]
        /\ UNCHANGED <<cached, sent, lagged>>
    BY <1>0, StartupCases
  <2> QED BY <1>0, <2>1 DEF TypeOK
<1>2. /\ cache \in Cache /\ got \in [Readers -> Seq(Frame)] /\ sent \in Seq(Frame)
      /\ cached \in Seq(Frame) /\ LatestGop(cache.frames) \in Seq(Frame)
      /\ sub \in [Readers -> Nat] /\ next \in [Readers -> Nat \ {0}] /\ snap[r] \in Nat
  BY <1>0, ExactFromCacheOK, Zenon DEF SourceInv, TypeOK
<1>3. get_config_frames(cache) \in Seq(Frame) /\ cache.metadata \in Seq(Frame)
  BY <1>2 DEF Cache, get_config_frames
<1>4. CASE Plan(r)[step[r]] = "subscribe" /\ subscribe(r)
  <2>1. step[r] = 1
    BY <1>1, <1>4 DEF SubscribesFirst
  <2>2. ~ Snapped(r)'
    BY <1>1, <2>1 DEF Snapped, Plan, SubscribesFirst
  <2>3. sub'[r] = Len(sent) /\ next'[r] = Len(sent) + 1 /\ snap' = snap
    BY <1>2, <1>4 DEF subscribe
  <2>4. PlaceOK(r)'
    BY <1>1, <1>2, <2>3 DEF ReaderOK, PlaceOK
  <2>5. TakenOK(r)'
    BY <1>2, <2>3 DEF TakenOK
  <2> QED BY <2>2, <2>4, <2>5, Zenon DEF ReaderOK, SnapOK
<1>5. CASE Plan(r)[step[r]] = "config" /\ ReadConfig(r)
  <2>1. Snapped(r)' => Snapped(r)
    BY <1>1, <1>5 DEF Snapped, Plan
  <2>2. got'[r] = got[r] \o get_config_frames(cache)
        /\ UNCHANGED <<sub, next, snap>>
    BY <1>2, <1>5 DEF ReadConfig
  <2>3. \A f \in Range(got[r]) : f \in Range(got'[r])
    BY <1>2, <1>3, <2>2, ConcatRange
  <2> QED BY <1>1, <2>1, <2>2, <2>3, ReaderStays, Zenon
<1>6. CASE Plan(r)[step[r]] = "gop" /\ ReadGop(r)
  <2> DEFINE c == cache.metadata \o get_config_frames(cache)
  <2>1. c \in Seq(Frame) /\ get_latest_gop_frames(cache) = c \o LatestGop(cache.frames)
    BY <1>2, <1>3 DEF get_latest_gop_frames
  <2>2. get_latest_gop_frames(cache) \in Seq(Frame)
    BY <1>2, <2>1
  <2>3. \A f \in Range(LatestGop(cache.frames)) : f \in Range(get_latest_gop_frames(cache))
    BY <1>2, <2>1, ConcatRange, Zenon
  <2> QED BY <1>1, <1>6, <2>2, <2>3, SnapTaken, Zenon DEF ReadGop
<1>7. CASE Plan(r)[step[r]] = "media" /\ ReadMedia(r)
  <2> DEFINE w == cache.metadata \o LatestGop(cache.frames)
  <2>1. w \in Seq(Frame) /\ \A f \in Range(LatestGop(cache.frames)) : f \in Range(w)
    BY <1>2, <1>3, ConcatRange
  <2>2. got' = [got EXCEPT ![r] = @ \o w]
    BY <1>7 DEF ReadMedia
  <2> QED BY <1>1, <1>7, <2>1, <2>2, SnapTaken, Zenon DEF ReadMedia
<1> QED BY <1>0, <1>4, <1>5, <1>6, <1>7, StartupCases

\* Append is concatenation with one frame, which it adds.
LEMMA AppendFrame ==
  ASSUME NEW g \in Seq(Frame), NEW f \in Frame
  PROVE  /\ Append(g, f) = g \o <<f>>
         /\ <<f>> \in Seq(Frame) /\ f \in Range(<<f>>)
<1>1. Append(g, f) = g \o <<f>>
  OBVIOUS
<1>2. <<f>> \in Seq(Frame) /\ Len(<<f>>) = 1 /\ <<f>>[1] = f
  OBVIOUS
<1>3. f \in Range(<<f>>)
  BY <1>2, SeqRange
<1> QED BY <1>1, <1>2, <1>3

\* What recv returns, a frame, Lagged or Closed, keeps the invariant.
LEMMA ReceiveKeeps ==
  ASSUME SourceInv, [Next]_vars, NEW r \in Readers, ReaderOK(r),
         Receive(r) \/ Leave(r)
  PROVE  ReaderOK(r)'
<1>0. TypeOK
  BY DEF SourceInv
<1>1. /\ got \in [Readers -> Seq(Frame)] /\ sent \in Seq(Frame) /\ lagged \in [Readers -> BOOLEAN]
      /\ next \in [Readers -> Nat \ {0}] /\ sub[r] \in Nat /\ snap[r] \in Nat
  BY <1>0, Zenon DEF TypeOK
<1>2. UNCHANGED <<cached, sent, step, sub, snap>> /\ (Snapped(r)' => Snapped(r))
  BY DEF Receive, RecvFrame, RecvLagged, RecvClosed, Leave, sourceVars, Snapped, Plan
<1>3. CASE RecvFrame(r)
  <2>1. /\ next[r] \in 1 .. Len(sent) /\ sent[next[r]] \in Frame
        /\ next'[r] = next[r] + 1 /\ lagged' = lagged
    <3>1. /\ next' = [next EXCEPT ![r] = @ + 1] /\ lagged' = lagged
          /\ Backlog(r) \in 1 .. ChannelCap
      BY <1>3, Zenon DEF RecvFrame
    <3>2. next[r] \in Nat \ {0} /\ next'[r] = next[r] + 1
      BY <1>1, <3>1, Zenon
    <3>3. next[r] \in 1 .. Len(sent)
      BY <1>1, <3>1, <3>2, BoundsAssumption DEF Backlog
    <3> QED BY <1>1, <3>1, <3>2, <3>3
  <2>2. /\ got'[r] = got[r] \/ got'[r] = Append(got[r], sent[next[r]])
        /\ IsGop(sent[next[r]]) => got'[r] = Append(got[r], sent[next[r]])
    BY <1>1, <1>3, Zenon DEF RecvFrame, IsGop, IsConfig, GopKinds, ConfigKinds
  <2>3. <<sent[next[r]]>> \in Seq(Frame)
        /\ Append(got[r], sent[next[r]]) = got[r] \o <<sent[next[r]]>>
        /\ sent[next[r]] \in Range(<<sent[next[r]]>>)
    BY <1>1, <2>1, AppendFrame, Zenon
  <2>4. /\ \A f \in Range(got[r]) : f \in Range(got'[r])
        /\ IsGop(sent[next[r]]) => sent[next[r]] \in Range(got'[r])
    BY <1>1, <2>2, <2>3, ConcatRange, Zenon
  <2>5. PlaceOK(r)'
    <3>1. PlaceOK(r) /\ UNCHANGED <<sub, sent, cached, snap>>
      BY <1>2, Zenon DEF ReaderOK, sourceVars
    <3> QED BY <1>1, <2>1, <3>1 DEF PlaceOK
  <2>6. SnapOK(r)'
    BY <1>2, <2>4, SnapStays
  <2>7. TakenOK(r)'
    <3> SUFFICES ASSUME ~ lagged[r], NEW i \in sub[r] + 1 .. next[r], IsGop(sent[i])
                 PROVE  sent[i] \in Range(got'[r])
      <4>1. next'[r] - 1 = next[r] /\ sub'[r] = sub[r] /\ lagged'[r] = lagged[r]
        BY <1>1, <1>2, <2>1
      <4> QED BY <1>2, <4>1, Zenon DEF TakenOK
    <3>1. CASE i = next[r]
      BY <2>4, <3>1
    <3>2. CASE i \in sub[r] + 1 .. next[r] - 1
      BY <1>2, <2>4, <3>2, TakenStays, Zenon
    <3> QED BY <1>1, <3>1, <3>2
  <2> QED BY <2>5, <2>6, <2>7 DEF ReaderOK
<1>4. CASE RecvLagged(r)
  <2>1. next'[r] = Len(sent) - ChannelCap + 1 /\ lagged'[r] /\ got' = got
        /\ Len(sent) - next[r] + 1 > ChannelCap
    BY <1>1, <1>4 DEF RecvLagged, Backlog
  <2>2. PlaceOK(r)'
    BY <1>1, <1>2, <2>1, BoundsAssumption DEF ReaderOK, PlaceOK
  <2>3. SnapOK(r)'
    BY <1>2, <2>1, SnapStays
  <2> QED BY <2>1, <2>2, <2>3, Zenon DEF ReaderOK, TakenOK
<1>5. CASE RecvClosed(r) \/ Leave(r)
  <2>1. UNCHANGED <<got, next, lagged>>
    BY <1>5 DEF RecvClosed, Leave
  <2> QED BY <1>2, <2>1, ReaderStays
<1> QED BY <1>3, <1>4, <1>5 DEF Receive

\* A step in which r takes no part, of a publisher or of another consumer.
LEMMA Elsewhere ==
  ASSUME SourceInv, [Next]_vars, NEW r \in Readers, ~ (StartupStep(r) \/ Receive(r) \/ Leave(r))
  PROVE  /\ step'[r] = step[r] /\ sub'[r] = sub[r] /\ next'[r] = next[r]
         /\ got'[r] = got[r] /\ snap'[r] = snap[r] /\ lagged'[r] = lagged[r]
         /\ Snapped(r)' => Snapped(r)
<1>0. TypeOK
  BY DEF SourceInv
<1>1. CASE UNCHANGED <<step, sub, next, got, snap, lagged>>
  BY <1>1 DEF Snapped, Plan
<1>2. ASSUME NEW o \in Readers, o # r, StartupStep(o) \/ Receive(o) \/ Leave(o)
      PROVE  /\ step'[r] = step[r] /\ sub'[r] = sub[r] /\ next'[r] = next[r]
             /\ got'[r] = got[r] /\ snap'[r] = snap[r] /\ lagged'[r] = lagged[r]
  <2>1. CASE StartupStep(o)
    <3>1. /\ step' = [step EXCEPT ![o] = @ + 1] /\ lagged' = lagged
          /\ subscribe(o) \/ ReadConfig(o) \/ ReadGop(o) \/ ReadMedia(o)
      BY <1>0, <2>1, StartupCases
    <3>2. step'[r] = step[r] /\ lagged'[r] = lagged[r]
      BY <1>0, <1>2, <3>1 DEF TypeOK
    <3>3. /\ sub'[r] = sub[r] /\ next'[r] = next[r]
          /\ got'[r] = got[r] /\ snap'[r] = snap[r]
      BY <1>0, <1>2, <3>1, Zenon DEF subscribe, ReadConfig, ReadGop, ReadMedia, TypeOK
    <3> QED BY <3>2, <3>3
  <2>2. CASE Receive(o) \/ Leave(o)
    BY <1>0, <1>2, <2>2 DEF Receive, RecvFrame, RecvLagged, RecvClosed, Leave, TypeOK
  <2> QED BY <1>2, <2>1, <2>2
<1>3. CASE \E o \in Readers : StartupStep(o) \/ Receive(o) \/ Leave(o)
  BY <1>2, <1>3 DEF Snapped, Plan
<1> QED BY <1>1, <1>3, Zenon DEF Next, Publish, Consume, PublishCache, PublishSend, close, readerVars, vars

\* Every step, of publishers and of consumers, keeps the consumers' invariant.
LEMMA ReadersStep == SourceInv /\ ReadersInv /\ [Next]_vars => ReadersInv'
<1> SUFFICES ASSUME SourceInv, [Next]_vars, NEW r \in Readers, SubscribesFirst(r), ReaderOK(r)
             PROVE  ReaderOK(r)'
  BY DEF ReadersInv, SubscribesFirst, Plan
<1>1. CASE StartupStep(r) \/ Receive(r) \/ Leave(r)
  BY <1>1, StartupKeeps, ReceiveKeeps
<1>2. CASE ~ (StartupStep(r) \/ Receive(r) \/ Leave(r))
  BY <1>2, Elsewhere, ReaderStays
<1> QED BY <1>1, <1>2

\* FlvRecorder, the SDK, the RTP sender and every other consumer that subscribes
\* before it reads the cache miss no media frame between the replay and the live
\* frames, for any number of publishers and any interleaving of their two steps.
THEOREM GapFree == Spec => []NoGap
<1>1. SourceInv /\ ReadersInv /\ [Next]_vars => (SourceInv /\ ReadersInv)'
  BY TypeStep, IdsStep, CacheStep, ReadersStep DEF SourceInv
<1>2. SourceInv /\ ReadersInv => NoGap
  BY NoGapFromInv
<1> QED BY <1>1, <1>2, SourceInit, ReadersInit, PTL DEF Spec

\* Every value has its type, for every choice of the constants.
THEOREM TypeCorrect == Spec => []TypeOK
<1>1. SourceInv => TypeOK
  BY DEF SourceInv
<1> QED BY <1>1, SourceInvariant, PTL

=============================================================================
