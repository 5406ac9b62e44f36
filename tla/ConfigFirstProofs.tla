------------------------- MODULE ConfigFirstProofs -------------------------
(***************************************************************************)
(* Proof that the consumers of a MediaSource which forward configurations  *)
(* hand on the configuration before the frames that need it, for any       *)
(* publishers, consumers, profiles, channel capacity and cache size.       *)
(***************************************************************************)
EXTENDS MediaSourceProofs

\* Consumers that forward configurations.

\* Each publisher holds a frame of its own; until the source closes, every frame
\* cached was sent or is in hand, and a frame is sent after those that its
\* publisher cached before it.
HandOK ==
  /\ \A p \in Publishers : \A f \in Frame : inHand[p] = <<f>> => f.track = p
  /\ open => \A c \in 1 .. Len(cached) :
               \/ \E j \in 1 .. Len(sent) : sent[j] = cached[c]
               \/ inHand[cached[c].track] = <<cached[c]>>
  /\ \A i \in 1 .. Len(sent) : \A c \in 1 .. sent[i].id - 1 :
       cached[c].track = sent[i].track => \E j \in 1 .. i - 1 : sent[j] = cached[c]

\* The cache has the newest configuration, and its slots what they are for.
Newer(f, c) == f.kind = "video_config" /\ f.id >= c
SlotOK(q, k) == q = << >> \/ \E f \in Frame : q = <<f>> /\ f.kind = k /\ IsCached(f)
SlotsOK ==
  /\ SlotOK(cache.metadata, "metadata")
  /\ SlotOK(cache.video_config, "video_config")
  /\ SlotOK(cache.audio_config, "audio_config")
  /\ \A c \in 1 .. Len(cached) : cached[c].kind = "video_config" =>
       \E f \in Frame : cache.video_config = <<f>> /\ Newer(f, c)

ConfigSourceInv == SourceInv /\ HandOK /\ SlotsOK

\* Every video frame of g comes after a configuration that is new enough.
Needs(f, c) ==
  /\ f.kind \in {"key", "video"} /\ c \in 1 .. f.id - 1
  /\ cached[c].kind = "video_config" /\ cached[c].track = f.track
Led(g) ==
  \A v \in 1 .. Len(g) : \A c \in 1 .. Len(cached) : Needs(g[v], c) => \E u \in 1 .. v - 1 : Newer(g[u], c)

\* What r has is of the history, it has the newest configuration of the moment it
\* read the cache, and those it took from the channel.
HasConfig(g, c) == \E u \in 1 .. Len(g) : Newer(g[u], c)
ForwardOK(r) ==
  /\ \A v \in 1 .. Len(got[r]) : IsCached(got[r][v])
  /\ Snapped(r) => \A c \in 1 .. snap[r] : cached[c].kind = "video_config" => HasConfig(got[r], c)
  /\ ~ lagged[r] => \A i \in sub[r] + 1 .. next[r] - 1 :
                      sent[i].kind = "video_config" => HasConfig(got[r], sent[i].id)
  /\ ~ lagged[r] => Led(got[r])

ForwardInv == \A r \in Readers : ForwardsConfig(r) => ReaderOK(r) /\ ForwardOK(r)

\* A new source.
LEMMA ConfigInit == Init => HandOK /\ SlotsOK /\ ForwardInv
<1> SUFFICES ASSUME Init PROVE HandOK /\ SlotsOK /\ ForwardInv
  OBVIOUS
<1>1. HandOK
  BY DEF Init, HandOK
<1>2. SlotsOK
  BY DEF Init, SlotsOK, SlotOK, NewCache
<1>3. ASSUME NEW r \in Readers, ForwardsConfig(r) PROVE ReaderOK(r) /\ ForwardOK(r)
  <2>1. ReaderOK(r)
    BY <1>3, ReadersInit DEF ReadersInv, ForwardsConfig
  <2>2. ~ Snapped(r)
    BY DEF Init, Snapped
  <2>3. got[r] = << >> /\ sub[r] = 0 /\ next[r] = 1
    BY DEF Init
  <2> QED BY <2>1, <2>2, <2>3 DEF ForwardOK, Led
<1> QED BY <1>1, <1>2, <1>3 DEF ForwardInv

\* A frame in hand is not nothing.
LEMMA OneIsSome == \A x : <<x>> # << >>
OBVIOUS

\* The publishers keep the order of their frames.
LEMMA HandStep == ConfigSourceInv /\ [Next]_vars => HandOK'
<1> SUFFICES ASSUME ConfigSourceInv, [Next]_vars PROVE HandOK'
  OBVIOUS
<1>0. TypeOK /\ IdsOK /\ HandOK /\ TypeOK' /\ SourceInv
  BY TypeStep DEF ConfigSourceInv, SourceInv
<1>1. ASSUME NEW p \in Publishers, NEW k \in Emits[p], PublishCache(p, k) PROVE HandOK'
  <2> DEFINE f == [id |-> Len(cached) + 1, kind |-> k, track |-> p]
             n == Len(cached)
  <2>1. /\ cached' = Append(cached, f) /\ inHand' = [inHand EXCEPT ![p] = <<f>>]
        /\ UNCHANGED <<sent, open>> /\ inHand[p] = << >>
    BY <1>1 DEF PublishCache
  <2>2. /\ n \in Nat /\ Len(cached') = n + 1 /\ cached'[n + 1] = f /\ f.track = p /\ f.id = n + 1
        /\ \A i \in 1 .. n : cached'[i] = cached[i] /\ cached[i] \in Frame
    BY <1>0, <2>1 DEF TypeOK
  <2> HIDE DEF f
  <2>3. /\ inHand'[p] = <<f>> /\ \A o \in Publishers \ {p} : inHand'[o] = inHand[o]
    BY <1>0, <2>1 DEF TypeOK
  <2>4. \A o \in Publishers : \A g \in Frame : inHand'[o] = <<g>> => g.track = o
    BY <1>0, <2>2, <2>3 DEF HandOK
  <2>5. ASSUME open', NEW c \in 1 .. Len(cached')
        PROVE  \/ \E j \in 1 .. Len(sent') : sent'[j] = cached'[c]
               \/ inHand'[cached'[c].track] = <<cached'[c]>>
    <3>1. CASE c = n + 1
      BY <2>2, <2>3, <3>1
    <3>2. CASE c \in 1 .. n
      <4>1. cached[c].track \in Publishers
        BY <2>2, <3>2 DEF Frame
      <4>2. \/ \E j \in 1 .. Len(sent) : sent[j] = cached[c]
            \/ inHand[cached[c].track] = <<cached[c]>>
        BY <1>0, <2>1, <2>5, <3>2, Zenon DEF HandOK
      <4>3. inHand[cached[c].track] = <<cached[c]>> => cached[c].track # p
        BY <2>1, OneIsSome, Zenon
      <4> QED BY <2>1, <2>2, <2>3, <3>2, <4>1, <4>2, <4>3
    <3> QED BY <2>2, <2>5, <3>1, <3>2
  <2>6. ASSUME NEW i \in 1 .. Len(sent'), NEW c \in 1 .. sent'[i].id - 1,
               cached'[c].track = sent'[i].track
        PROVE  \E j \in 1 .. i - 1 : sent'[j] = cached'[c]
    <3>1. sent'[i] = sent[i] /\ i \in 1 .. Len(sent) /\ sent[i] \in Frame
      BY <1>0, <2>1 DEF TypeOK
    <3>2. sent[i].id \in Nat /\ sent[i].id <= n
      BY <1>0, <3>1, FrameId DEF IdsOK, IsCached
    <3>3. c \in 1 .. n
      BY <2>2, <3>1, <3>2, <2>6
    <3>4. c \in 1 .. sent[i].id - 1 /\ cached[c].track = sent[i].track /\ cached'[c] = cached[c]
      BY <2>2, <2>6, <3>1, <3>3
    <3>5. \E j \in 1 .. i - 1 : sent[j] = cached[c]
      BY <1>0, <3>1, <3>4, Zenon DEF HandOK
    <3> QED BY <2>1, <3>4, <3>5, Zenon
  <2> QED BY <2>4, <2>5, <2>6, Zenon DEF HandOK
<1>2. ASSUME NEW p \in Publishers, PublishSend(p) PROVE HandOK'
  <2>1. PICK f \in Frame : inHand[p] = <<f>> /\ IsCached(f)
    BY <1>0, <1>2 DEF PublishSend, IdsOK
  <2>2. /\ cached' = cached /\ inHand' = [inHand EXCEPT ![p] = << >>] /\ open' = open
        /\ sent' = IF open THEN Append(sent, f) ELSE sent
    <3>1. sent \o <<f>> = Append(sent, f)
      BY <1>0 DEF TypeOK
    <3> QED BY <1>2, <2>1, <3>1, Zenon DEF PublishSend
  <2>3. /\ inHand'[p] = << >> /\ \A o \in Publishers \ {p} : inHand'[o] = inHand[o]
    BY <1>0, <2>2 DEF TypeOK
  <2>4. \A o \in Publishers : \A g \in Frame : inHand'[o] = <<g>> => g.track = o
    <3> SUFFICES ASSUME NEW o \in Publishers, NEW g \in Frame, inHand'[o] = <<g>> PROVE g.track = o
      OBVIOUS
    <3>1. o # p
      BY <2>3, OneIsSome
    <3>2. inHand[o] = <<g>>
      BY <2>3, <3>1
    <3> QED BY <1>0, <3>2 DEF HandOK
  <2>5. f.track = p /\ f.id \in 1 .. Len(cached) /\ f = cached[f.id] /\ cached \in Seq(Frame)
    BY <1>0, <2>1, FrameId DEF HandOK, IsCached, TypeOK
  <2>6. CASE open
    <3>1. /\ Len(sent') = Len(sent) + 1 /\ sent'[Len(sent) + 1] = f /\ Len(sent) \in Nat
          /\ \A j \in 1 .. Len(sent) : sent'[j] = sent[j]
      BY <1>0, <2>2, <2>6 DEF TypeOK
    <3>2. ASSUME NEW c \in 1 .. Len(cached)
          PROVE  \/ \E j \in 1 .. Len(sent') : sent'[j] = cached[c]
                 \/ inHand'[cached[c].track] = <<cached[c]>>
      <4>1. \/ \E j \in 1 .. Len(sent) : sent[j] = cached[c]
            \/ inHand[cached[c].track] = <<cached[c]>>
        BY <1>0, <2>6, Zenon DEF HandOK
      <4>2. CASE \E j \in 1 .. Len(sent) : sent[j] = cached[c]
        BY <3>1, <4>2
      <4>3. CASE inHand[cached[c].track] = <<cached[c]>> /\ cached[c].track = p
        BY <2>1, <3>1, <4>3
      <4>4. CASE inHand[cached[c].track] = <<cached[c]>> /\ cached[c].track # p
        <5>1. cached[c].track \in Publishers
          <6>1. cached[c] \in Frame
            BY <2>5
          <6> QED BY <6>1 DEF Frame
        <5> QED BY <2>3, <4>4, <5>1
      <4> QED BY <4>1, <4>2, <4>3, <4>4
    <3>3. ASSUME NEW i \in 1 .. Len(sent'), NEW c \in 1 .. sent'[i].id - 1,
                 cached[c].track = sent'[i].track
          PROVE  \E j \in 1 .. i - 1 : sent'[j] = cached[c]
      <4>1. CASE i \in 1 .. Len(sent)
        <5>1. PICK j \in 1 .. i - 1 : sent[j] = cached[c]
          BY <1>0, <3>1, <3>3, <4>1 DEF HandOK
        <5>2. j \in 1 .. Len(sent)
          BY <3>1, <4>1
        <5> QED BY <3>1, <5>1, <5>2
      <4>2. CASE i = Len(sent) + 1
        <5>1. c \in 1 .. Len(cached) /\ c # f.id /\ cached[c].track = p
          BY <2>5, <3>1, <3>3, <4>2
        <5>2. cached[c].id = c
          BY <1>0, <5>1 DEF IdsOK
        <5>3. inHand[cached[c].track] # <<cached[c]>>
          BY <2>1, <5>1, <5>2
        <5>4. PICK j \in 1 .. Len(sent) : sent[j] = cached[c]
          BY <1>0, <2>6, <5>1, <5>3, Zenon DEF HandOK
        <5>5. j \in 1 .. i - 1
          BY <3>1, <4>2
        <5> QED BY <3>1, <5>4, <5>5
      <4> QED BY <3>1, <4>1, <4>2
    <3>4. \A c \in 1 .. Len(cached') : \/ \E j \in 1 .. Len(sent') : sent'[j] = cached'[c]
                                       \/ inHand'[cached'[c].track] = <<cached'[c]>>
      BY <2>2, <3>2
    <3>5. \A i \in 1 .. Len(sent') : \A c \in 1 .. sent'[i].id - 1 :
            cached'[c].track = sent'[i].track => \E j \in 1 .. i - 1 : sent'[j] = cached'[c]
      BY <2>2, <3>3
    <3> QED BY <2>4, <3>4, <3>5, Zenon DEF HandOK
  <2>7. CASE ~ open
    BY <1>0, <2>2, <2>4, <2>7 DEF HandOK
  <2> QED BY <2>6, <2>7
<1>3. CASE UNCHANGED <<cached, sent, inHand>> /\ (open' => open)
  BY <1>0, <1>3 DEF HandOK
<1> QED BY <1>0, <1>1, <1>2, <1>3, StartupCases DEF Next, Publish, Consume, Receive, close,
        RecvFrame, RecvLagged, RecvClosed, Leave, sourceVars, vars

\* cache_frame keeps the newest configuration.
LEMMA SlotsStep == ConfigSourceInv /\ [Next]_vars => SlotsOK'
<1> SUFFICES ASSUME ConfigSourceInv, [Next]_vars PROVE SlotsOK'
  OBVIOUS
<1>0. TypeOK /\ SlotsOK /\ TypeOK' /\ SourceInv /\ cache \in Cache /\ cached \in Seq(Frame)
  BY TypeStep, Zenon DEF ConfigSourceInv, SourceInv, TypeOK
<1>1. ASSUME NEW p \in Publishers, NEW k \in Emits[p], PublishCache(p, k) PROVE SlotsOK'
  <2>1. PICK f \in Frame :
           /\ f.id = Len(cached) + 1 /\ f.kind = k
           /\ cache' = cache_frame(cache, f)
           /\ cached' = Append(cached, f)
    BY <1>0, <1>1, CacheStepFacts
  <2>2. /\ Len(cached') = Len(cached) + 1 /\ cached'[Len(cached) + 1] = f /\ Len(cached) \in Nat
        /\ \A i \in 1 .. Len(cached) : cached'[i] = cached[i]
    BY <1>0, <2>1
  <2>3. IsCached(f)' /\ \A g \in Frame : IsCached(g) => IsCached(g)'
    <3>1. IsCached(f)'
      BY <2>1, <2>2 DEF IsCached
    <3> QED BY <1>0, <3>1, StaysCached DEF IsCached
  <2>4. /\ cache'.metadata = IF f.kind = "metadata" THEN <<f>> ELSE cache.metadata
        /\ cache'.video_config = IF f.kind = "video_config" THEN <<f>> ELSE cache.video_config
        /\ cache'.audio_config = IF f.kind = "audio_config" THEN <<f>> ELSE cache.audio_config
    BY <1>0, <2>1, CacheCases DEF Cache
  <2>5. /\ SlotOK(cache.metadata, "metadata")'
        /\ SlotOK(cache.video_config, "video_config")'
        /\ SlotOK(cache.audio_config, "audio_config")'
    BY <1>0, <2>3, <2>4 DEF SlotsOK, SlotOK
  <2>6. ASSUME NEW c \in 1 .. Len(cached'), cached'[c].kind = "video_config"
        PROVE  \E g \in Frame : cache'.video_config = <<g>> /\ Newer(g, c)
    <3>1. CASE f.kind = "video_config"
      <4>1. f.id >= c
        BY <2>1, <2>2, <2>6
      <4> QED BY <2>4, <3>1, <4>1 DEF Newer
    <3>2. CASE f.kind # "video_config"
      <4>1. c \in 1 .. Len(cached) /\ cached[c].kind = "video_config"
        BY <2>2, <2>6, <3>2
      <4> QED BY <1>0, <2>4, <3>2, <4>1 DEF SlotsOK
    <3> QED BY <3>1, <3>2
  <2> QED BY <2>5, <2>6 DEF SlotsOK
<1>2. CASE UNCHANGED <<cache, cached>>
  BY <1>0, <1>2 DEF SlotsOK, SlotOK, IsCached
<1> QED BY <1>0, <1>1, <1>2, StartupCases DEF Next, Publish, Consume, Receive, PublishSend, close,
        RecvFrame, RecvLagged, RecvClosed, Leave, sourceVars, vars

\* A sequence longer by w leads its video frames by configurations if w does, with
\* the help of what was there.
LEMMA LedOn ==
  ASSUME NEW g \in Seq(Frame), NEW w \in Seq(Frame), Led(g),
         \A v \in 1 .. Len(w) : \A c \in 1 .. Len(cached) :
           Needs(w[v], c) => HasConfig(g, c) \/ \E u \in 1 .. v - 1 : Newer(w[u], c)
  PROVE  Led(g \o w)
<1> DEFINE s == g \o w
<1>1. /\ Len(s) = Len(g) + Len(w) /\ Len(g) \in Nat /\ Len(w) \in Nat
      /\ \A i \in 1 .. Len(g) : s[i] = g[i]
      /\ \A i \in 1 .. Len(w) : s[Len(g) + i] = w[i]
  OBVIOUS
<1> HIDE DEF s
<1>2. SUFFICES ASSUME NEW v \in 1 .. Len(s), NEW c \in 1 .. Len(cached), Needs(s[v], c)
               PROVE  \E u \in 1 .. v - 1 : Newer(s[u], c)
  BY DEF Led, s
<1>3. CASE v <= Len(g)
  <2>1. v \in 1 .. Len(g) /\ s[v] = g[v]
    BY <1>1, <1>3
  <2>2. PICK u \in 1 .. v - 1 : Newer(g[u], c)
    BY <1>2, <2>1, Zenon DEF Led
  <2>3. u \in 1 .. Len(g)
    BY <1>1, <2>1
  <2>4. s[u] = g[u]
    BY <1>1, <2>3
  <2> QED BY <2>2, <2>4
<1>4. CASE v > Len(g)
  <2> DEFINE x == v - Len(g)
  <2>1. x \in 1 .. Len(w) /\ v = Len(g) + x
    BY <1>1, <1>4
  <2> HIDE DEF x
  <2>2. s[v] = w[x]
    BY <1>1, <2>1
  <2>3. CASE HasConfig(g, c)
    <3>1. PICK u \in 1 .. Len(g) : Newer(g[u], c)
      BY <2>3 DEF HasConfig
    <3>2. s[u] = g[u] /\ u \in 1 .. v - 1
      BY <1>1, <1>4, <3>1
    <3> QED BY <3>1, <3>2
  <2>4. CASE \E u \in 1 .. x - 1 : Newer(w[u], c)
    <3>1. PICK u \in 1 .. x - 1 : Newer(w[u], c)
      BY <2>4
    <3>2. u \in 1 .. Len(w) /\ Len(g) + u \in 1 .. v - 1
      BY <1>1, <2>1
    <3>3. s[Len(g) + u] = w[u]
      BY <1>1, <3>2
    <3> QED BY <3>1, <3>2, <3>3
  <2> QED BY <1>2, <2>1, <2>2, <2>3, <2>4
<1> QED BY <1>1, <1>3, <1>4

\* A configuration that r has stays with it.
LEMMA HasOn ==
  ASSUME NEW g \in Seq(Frame), NEW w \in Seq(Frame), NEW c
  PROVE  HasConfig(g \o w, c) <=> HasConfig(g, c) \/ HasConfig(w, c)
<1>1. \A h \in Seq(Frame) : HasConfig(h, c) <=> \E f \in Range(h) : Newer(f, c)
  BY SeqRange DEF HasConfig
<1>2. g \o w \in Seq(Frame)
  OBVIOUS
<1> QED BY <1>1, <1>2, ConcatRange, Zenon

\* The same of the history.
LEMMA CachedOn ==
  ASSUME NEW g \in Seq(Frame), NEW w \in Seq(Frame),
         \A v \in 1 .. Len(g) : IsCached(g[v]), \A v \in 1 .. Len(w) : IsCached(w[v])
  PROVE  \A v \in 1 .. Len(g \o w) : IsCached((g \o w)[v])
<1>1. g \o w \in Seq(Frame)
  OBVIOUS
<1>2. \A h \in Seq(Frame) : (\A v \in 1 .. Len(h) : IsCached(h[v])) <=> \A f \in Range(h) : IsCached(f)
  BY SeqRange
<1> QED BY <1>1, <1>2, ConcatRange

\* The history only grows, so what r has stays right as long as it takes nothing.
LEMMA ForwardStays ==
  ASSUME SourceInv, [Next]_vars, NEW r \in Readers, ReaderOK(r), ForwardOK(r),
         Snapped(r)' => Snapped(r), got'[r] = got[r], sub'[r] = sub[r], next'[r] = next[r],
         snap'[r] = snap[r], lagged'[r] = lagged[r]
  PROVE  ForwardOK(r)'
<1>0. /\ cached \in Seq(Frame) /\ cached' \in Seq(Frame) /\ sent \in Seq(Frame)
      /\ got[r] \in Seq(Frame) /\ sub[r] \in Nat /\ next[r] \in Nat /\ snap[r] \in Nat
  BY TypeStep DEF SourceInv, TypeOK
<1>1. /\ Len(cached) \in Nat /\ Len(cached') \in Nat /\ Len(cached) <= Len(cached')
      /\ \A i \in 1 .. Len(cached) : cached'[i] = cached[i]
      /\ \A i \in 1 .. Len(sent) : sent'[i] = sent[i]
      /\ Len(sent) \in Nat
  BY <1>0, HistoryGrows
<1>2. \A v \in 1 .. Len(got[r]) :
        got[r][v] \in Frame /\ IsCached(got[r][v])' /\ got[r][v].id \in 1 .. Len(cached)
  <2>1. \A v \in 1 .. Len(got[r]) : got[r][v] \in Frame /\ IsCached(got[r][v])
    BY <1>0 DEF ForwardOK
  <2> SUFFICES ASSUME NEW v \in 1 .. Len(got[r])
               PROVE  got[r][v] \in Frame /\ IsCached(got[r][v])' /\ got[r][v].id \in 1 .. Len(cached)
    OBVIOUS
  <2>3. got[r][v] \in Frame /\ IsCached(got[r][v])
    BY <2>1
  <2>4. got[r][v].id \in Nat \ {0}
    BY <2>3, FrameId
  <2>5. got[r][v].id \in 1 .. Len(cached) /\ cached[got[r][v].id] = got[r][v]
    BY <1>1, <2>3, <2>4 DEF IsCached
  <2> QED BY <1>1, <2>3, <2>5 DEF IsCached
<1>3. Snapped(r)' => \A c \in 1 .. snap[r] : cached'[c].kind = "video_config" => HasConfig(got[r], c)
  <2>1. \A c \in 1 .. snap[r] : cached'[c] = cached[c]
    BY <1>0, <1>1 DEF ReaderOK, PlaceOK
  <2> QED BY <2>1 DEF ForwardOK
<1>4. ~ lagged[r] => \A i \in sub[r] + 1 .. next[r] - 1 :
                       sent'[i].kind = "video_config" => HasConfig(got[r], sent'[i].id)
  <2>1. \A i \in sub[r] + 1 .. next[r] - 1 : sent'[i] = sent[i]
    BY <1>0, <1>1 DEF ReaderOK, PlaceOK
  <2> QED BY <2>1 DEF ForwardOK
<1>5. ASSUME ~ lagged[r] PROVE Led(got[r])'
  <2>1. SUFFICES ASSUME NEW v \in 1 .. Len(got[r]), NEW c \in 1 .. Len(cached'), Needs(got[r][v], c)'
                 PROVE  \E u \in 1 .. v - 1 : Newer(got[r][u], c)
    BY DEF Led, Newer, Needs
  <2>2. /\ got[r][v].kind \in {"key", "video"} /\ c \in 1 .. got[r][v].id - 1
        /\ cached'[c].kind = "video_config" /\ cached'[c].track = got[r][v].track
    BY <2>1 DEF Needs
  <2>3. c \in 1 .. Len(cached)
    BY <1>0, <1>1, <1>2, <2>2
  <2>4. Needs(got[r][v], c)
    BY <1>1, <2>2, <2>3 DEF Needs
  <2> QED BY <1>5, <2>3, <2>4, Zenon DEF ForwardOK, Led
<1> QED BY <1>2, <1>3, <1>4, <1>5 DEF ForwardOK, HasConfig, Newer

\* Concatenation is associative.
LEMMA ConcatFrames ==
  ASSUME NEW a \in Seq(Frame), NEW b \in Seq(Frame), NEW c \in Seq(Frame)
  PROVE  a \o (b \o c) = (a \o b) \o c
OBVIOUS

\* What a consumer has after it replays a snapshot, as it is put together and as
\* one row after the other.
Replayed(g, m, v, a, p) == g \o ((m \o (v \o a)) \o p)
OneByOne(g, m, v, a, p) == (((g \o m) \o v) \o a) \o p

\* Both are the same.
LEMMA ReplayedOneByOne ==
  ASSUME NEW g \in Seq(Frame), NEW m \in Seq(Frame), NEW v \in Seq(Frame), NEW a \in Seq(Frame), NEW p \in Seq(Frame)
  PROVE  Replayed(g, m, v, a, p) = OneByOne(g, m, v, a, p)
<1> DEFINE va == v \o a
           mva == m \o va
           gm == g \o m
<1>1. va \in Seq(Frame) /\ gm \in Seq(Frame)
  OBVIOUS
<1>4. gm \o va = (gm \o v) \o a
  <2> HIDE DEF gm
  <2> QED BY <1>1
<1> HIDE DEF va
<1>3. g \o mva = gm \o va
  BY <1>1
<1>5. mva \in Seq(Frame)
  BY <1>1
<1> HIDE DEF mva
<1>2. g \o (mva \o p) = (g \o mva) \o p
  BY <1>5, SMTT(20)
<1> QED BY <1>2, <1>3, <1>4, Zenon DEF mva, va, gm, Replayed, OneByOne

\* A slot of the cache is replayed.
LEMMA SlotOn ==
  ASSUME NEW g \in Seq(Frame), NEW q \in Seq(Frame), NEW k \in {"metadata", "video_config", "audio_config"},
         SlotOK(q, k), \A v \in 1 .. Len(g) : IsCached(g[v])
  PROVE  /\ \A v \in 1 .. Len(g \o q) : IsCached((g \o q)[v])
         /\ Led(g) => Led(g \o q)
<1>1. \A v \in 1 .. Len(q) : IsCached(q[v]) /\ q[v].kind = k
  <2>1. CASE q = << >>
    BY <2>1
  <2>2. CASE \E f \in Frame : q = <<f>> /\ f.kind = k /\ IsCached(f)
    BY <2>2
  <2> QED BY <2>1, <2>2 DEF SlotOK
<1>2. \A v \in 1 .. Len(q) : \A c \in 1 .. Len(cached) : ~ Needs(q[v], c)
  BY <1>1 DEF Needs
<1>3. Led(g) => Led(g \o q)
  BY <1>2, LedOn
<1> QED BY <1>1, <1>3, CachedOn

\* The startup steps of a consumer that forwards configurations.
LEMMA ForwardStarts ==
  ASSUME ConfigSourceInv, [Next]_vars, NEW r \in Readers, ForwardsConfig(r), ReaderOK(r), ForwardOK(r),
         StartupStep(r)
  PROVE  ForwardOK(r)'
<1>0. TypeOK /\ SourceInv /\ SlotsOK
  BY DEF ConfigSourceInv, SourceInv
<1>1. /\ step[r] \in 1 .. Len(Plan(r)) /\ step'[r] = step[r] + 1
      /\ UNCHANGED <<cached, sent, lagged>>
  <2>1. /\ step[r] \in 1 .. Len(Plan(r)) /\ step' = [step EXCEPT ![r] = @ + 1]
        /\ UNCHANGED <<cached, sent, lagged>>
    BY <1>0, StartupCases
  <2> QED BY <1>0, <2>1 DEF TypeOK
<1>2. /\ got \in [Readers -> Seq(Frame)] /\ sent \in Seq(Frame) /\ Len(sent) \in Nat
      /\ cached \in Seq(Frame) /\ LatestGop(cache.frames) \in Seq(Frame)
      /\ sub \in [Readers -> Nat] /\ next \in [Readers -> Nat \ {0}] /\ snap \in [Readers -> Nat]
  <2>1. LatestGop(cache.frames) \in Seq(Frame)
    BY <1>0, ExactFromCacheOK, Zenon DEF SourceInv
  <2>2. /\ got \in [Readers -> Seq(Frame)] /\ sent \in Seq(Frame) /\ cached \in Seq(Frame)
        /\ sub \in [Readers -> Nat] /\ next \in [Readers -> Nat \ {0}] /\ snap \in [Readers -> Nat]
    BY <1>0, Zenon DEF TypeOK
  <2>3. Len(sent) \in Nat
    BY ONLY <2>2
  <2> QED BY <2>1, <2>2, <2>3, Zenon
<1> DEFINE g == got[r]
           meta == cache.metadata
           vc == cache.video_config
           ac == cache.audio_config
           gop == LatestGop(cache.frames)
<1>3. g \in Seq(Frame) /\ meta \in Seq(Frame) /\ vc \in Seq(Frame) /\ ac \in Seq(Frame) /\ gop \in Seq(Frame)
  BY <1>0, <1>2 DEF TypeOK, Cache
<1>4. \A v \in 1 .. Len(g) : IsCached(g[v])
  BY DEF ForwardOK
<1>5. SlotOK(meta, "metadata") /\ SlotOK(vc, "video_config") /\ SlotOK(ac, "audio_config")
  BY <1>0, Zenon DEF SlotsOK
<1>6. ASSUME NEW h \in Seq(Frame), got'[r] = h, \A v \in 1 .. Len(h) : IsCached(h[v]),
             ~ lagged[r] => Led(h), \A c : HasConfig(g, c) => HasConfig(h, c),
             sub'[r] = sub[r], next'[r] = next[r],
             \/ snap'[r] = snap[r] /\ (Snapped(r)' => Snapped(r))
             \/ snap'[r] = Len(cached) /\ \A c \in 1 .. Len(cached) :
                                             cached[c].kind = "video_config" => HasConfig(h, c)
      PROVE  ForwardOK(r)'
  <2>1. Snapped(r)' => \A c \in 1 .. snap'[r] : cached[c].kind = "video_config" => HasConfig(h, c)
    <3>1. CASE snap'[r] = snap[r] /\ (Snapped(r)' => Snapped(r))
      BY <1>6, <3>1, Zenon DEF ForwardOK
    <3>2. CASE snap'[r] = Len(cached) /\ \A c \in 1 .. Len(cached) :
                                             cached[c].kind = "video_config" => HasConfig(h, c)
      BY <3>2, Zenon
    <3> QED BY <1>6, <3>1, <3>2, Zenon
  <2>2. ~ lagged[r] => \A i \in sub[r] + 1 .. next[r] - 1 :
                         sent[i].kind = "video_config" => HasConfig(h, sent[i].id)
    BY <1>6, Zenon DEF ForwardOK
  <2>3. (\A v \in 1 .. Len(got[r]) : IsCached(got[r][v]))'
    BY <1>1, <1>6, Zenon DEF IsCached
  <2>4. (~ lagged[r] => Led(got[r]))'
    BY <1>1, <1>6, Zenon DEF Led, Newer, Needs
  <2>5. (Snapped(r) => \A c \in 1 .. snap[r] : cached[c].kind = "video_config" => HasConfig(got[r], c))'
    BY <1>1, <1>6, <2>1, Zenon DEF HasConfig, Newer
  <2>6. (~ lagged[r] => \A i \in sub[r] + 1 .. next[r] - 1 :
                          sent[i].kind = "video_config" => HasConfig(got[r], sent[i].id))'
    BY <1>1, <1>6, <2>2, Zenon DEF HasConfig, Newer
  <2> QED BY <2>3, <2>4, <2>5, <2>6, Zenon DEF ForwardOK
<1>7. CASE Plan(r)[step[r]] = "subscribe" /\ subscribe(r)
  <2>1. step[r] = 1
    BY <1>1, <1>7 DEF ForwardsConfig, SubscribesFirst
  <2>2. ~ Snapped(r)'
    BY <1>1, <2>1 DEF Snapped, Plan, ForwardsConfig, SubscribesFirst
  <2>3. sub'[r] = Len(sent) /\ next'[r] = Len(sent) + 1 /\ snap' = snap /\ got'[r] = got[r]
    BY <1>2, <1>7 DEF subscribe
  <2>4. sub'[r] + 1 .. next'[r] - 1 = {}
    BY <1>2, <2>3
  <2>5. ~ lagged[r] => Led(got[r])
    BY DEF ForwardOK
  <2>6. (\A v \in 1 .. Len(got[r]) : IsCached(got[r][v]))'
    BY <1>1, <1>4, <2>3, Zenon DEF IsCached
  <2>7. (~ lagged[r] => Led(got[r]))'
    <3>1. lagged' = lagged /\ cached' = cached /\ got'[r] = got[r]
      BY <1>1, <2>3, Zenon
    <3> QED BY ONLY <2>5, <3>1, SMTT(20) DEF Led, Newer, Needs
  <2>8. (~ lagged[r] => \A i \in sub[r] + 1 .. next[r] - 1 :
                          sent[i].kind = "video_config" => HasConfig(got[r], sent[i].id))'
    BY <2>4, Zenon
  <2> QED BY <2>2, <2>6, <2>7, <2>8, Zenon DEF ForwardOK
<1>8. CASE Plan(r)[step[r]] = "config" /\ ReadConfig(r)
  <2>1. Snapped(r)' => Snapped(r)
    BY <1>1, <1>8 DEF Snapped, Plan
  <2> DEFINE h == (g \o vc) \o ac
  <2>2. got'[r] = h /\ UNCHANGED <<sub, next, snap>>
    <3>1. got'[r] = g \o (vc \o ac) /\ UNCHANGED <<sub, next, snap>>
      BY <1>2, <1>8, Zenon DEF ReadConfig, get_config_frames
    <3> HIDE DEF g, vc, ac
    <3> QED BY <1>3, <3>1, ConcatFrames, Zenon
  <2> HIDE DEF g, vc, ac
  <2>3. g \o vc \in Seq(Frame) /\ h \in Seq(Frame)
    BY <1>3
  <2>4. (\A v \in 1 .. Len(g \o vc) : IsCached((g \o vc)[v])) /\ (Led(g) => Led(g \o vc))
    BY <1>3, <1>4, <1>5, SlotOn
  <2>5. (\A v \in 1 .. Len(h) : IsCached(h[v])) /\ (Led(g) => Led(h))
    BY <1>3, <1>5, <2>3, <2>4, SlotOn, Zenon
  <2>6. \A c : HasConfig(g, c) => HasConfig(h, c)
    BY <1>3, <2>3, HasOn, Zenon
  <2>7. ~ lagged[r] => Led(g)
    BY DEF ForwardOK, g
  <2> HIDE DEF h
  <2> QED BY <1>6, <2>1, <2>2, <2>3, <2>5, <2>6, <2>7
<1>9. CASE Plan(r)[step[r]] = "gop" /\ ReadGop(r)
  <2> DEFINE b == ((g \o meta) \o vc) \o ac
             h == b \o gop
  <2>2. got'[r] = h /\ UNCHANGED <<sub, next>> /\ snap'[r] = Len(cached)
    <3>1. got'[r] = g \o ((meta \o (vc \o ac)) \o gop) /\ UNCHANGED <<sub, next>> /\ snap'[r] = Len(cached)
      BY <1>2, <1>9, Zenon DEF ReadGop, get_latest_gop_frames, get_config_frames
    <3> HIDE DEF g, meta, vc, ac, gop
    <3>2. g \in Seq(Frame) /\ meta \in Seq(Frame) /\ vc \in Seq(Frame) /\ ac \in Seq(Frame) /\ gop \in Seq(Frame)
      BY <1>3
    <3>3. Replayed(g, meta, vc, ac, gop) = OneByOne(g, meta, vc, ac, gop)
      BY <3>2, ReplayedOneByOne
    <3> QED BY <3>1, <3>3, Zenon DEF Replayed, OneByOne
  <2>0. \A v \in 1 .. Len(gop) : IsCached(gop[v])
    <3>1. GopIsExact /\ IdsOK
      BY <1>0, ExactFromCacheOK DEF SourceInv
    <3>2. \A f \in Range(gop) : f \in Range(cached)
      BY <3>1 DEF GopIsExact
    <3>3. \A f \in Range(cached) : IsCached(f)
      <4>1. \A i \in 1 .. Len(cached) : cached[i].id = i
        BY <3>1 DEF IdsOK
      <4>2. \A i \in 1 .. Len(cached) : IsCached(cached[i])
        BY <1>2, <4>1 DEF IsCached
      <4> QED BY <1>2, <4>2, SeqRange
    <3> HIDE DEF gop
    <3> QED BY <1>3, <3>2, <3>3, SeqRange
  <2>1. \A c \in 1 .. Len(cached) : cached[c].kind = "video_config" => HasConfig(vc, c)
    <3> SUFFICES ASSUME NEW c \in 1 .. Len(cached), cached[c].kind = "video_config" PROVE HasConfig(vc, c)
      OBVIOUS
    <3>1. PICK f \in Frame : vc = <<f>> /\ Newer(f, c)
      BY <1>0 DEF SlotsOK
    <3>2. Len(<<f>>) = 1 /\ <<f>>[1] = f
      OBVIOUS
    <3> HIDE DEF vc
    <3> QED BY <3>1, <3>2 DEF HasConfig
  <2>7. ~ lagged[r] => Led(g)
    BY DEF ForwardOK
  <2> HIDE DEF g, vc, ac, meta, gop
  <2>3. g \o meta \in Seq(Frame) /\ (g \o meta) \o vc \in Seq(Frame) /\ b \in Seq(Frame) /\ h \in Seq(Frame)
    BY <1>3
  <2>4. (\A v \in 1 .. Len(g \o meta) : IsCached((g \o meta)[v])) /\ (Led(g) => Led(g \o meta))
    BY <1>3, <1>4, <1>5, SlotOn
  <2>5. /\ \A v \in 1 .. Len((g \o meta) \o vc) : IsCached(((g \o meta) \o vc)[v])
        /\ Led(g) => Led((g \o meta) \o vc)
    BY <1>3, <1>5, <2>3, <2>4, SlotOn, Zenon
  <2>6. (\A v \in 1 .. Len(b) : IsCached(b[v])) /\ (Led(g) => Led(b))
    BY <1>3, <1>5, <2>3, <2>5, SlotOn, Zenon
  <2>8. /\ \A c : HasConfig(g, c) => HasConfig(b, c)
        /\ \A c \in 1 .. Len(cached) : cached[c].kind = "video_config" => HasConfig(b, c)
    BY <1>3, <2>1, <2>3, HasOn, Zenon
  <2> HIDE DEF b
  <2>9. \A v \in 1 .. Len(h) : IsCached(h[v])
    BY <1>3, <2>0, <2>3, <2>6, CachedOn
  <2>10. Led(b) => Led(h)
    <3>1. \A v \in 1 .. Len(gop) : \A c \in 1 .. Len(cached) : Needs(gop[v], c) => HasConfig(b, c)
      BY <2>8 DEF Needs
    <3> QED BY <1>3, <2>3, <3>1, LedOn
  <2>11. \A c : HasConfig(b, c) => HasConfig(h, c)
    BY <1>3, <2>3, HasOn
  <2> HIDE DEF h
  <2> QED BY <1>6, <2>2, <2>3, <2>6, <2>7, <2>8, <2>9, <2>10, <2>11
<1>10. Plan(r)[step[r]] # "media"
  BY <1>1 DEF ForwardsConfig
<1> QED BY <1>0, <1>7, <1>8, <1>9, <1>10, StartupCases

\* A frame comes from the channel after the configurations of its track: those sent
\* before r subscribed were cached when r read the cache, the others r took.
LEMMA ForwardReceives ==
  ASSUME ConfigSourceInv, [Next]_vars, NEW r \in Readers, ForwardsConfig(r), ReaderOK(r), ForwardOK(r),
         Receive(r) \/ Leave(r)
  PROVE  ForwardOK(r)'
<1>0. TypeOK /\ IdsOK /\ HandOK /\ SourceInv
  BY DEF ConfigSourceInv, SourceInv
<1>1. /\ got \in [Readers -> Seq(Frame)] /\ got[r] \in Seq(Frame) /\ sent \in Seq(Frame)
      /\ cached \in Seq(Frame) /\ Len(sent) \in Nat
      /\ next \in [Readers -> Nat \ {0}] /\ sub[r] \in Nat /\ snap[r] \in Nat /\ next[r] \in Nat
      /\ lagged \in [Readers -> BOOLEAN]
  BY <1>0 DEF TypeOK
<1>2. UNCHANGED <<cached, sent, step, sub, snap>> /\ (Snapped(r)' => Snapped(r))
  BY DEF Receive, RecvFrame, RecvLagged, RecvClosed, Leave, sourceVars, Snapped, Plan
<1>3. CASE RecvFrame(r)
  <2> DEFINE f == sent[next[r]]
             g == got[r]
             h == g \o <<f>>
  <2>1. /\ next[r] \in 1 .. Len(sent) /\ f \in Frame /\ IsCached(f)
        /\ next'[r] = next[r] + 1 /\ lagged' = lagged
    <3>1. next[r] \in 1 .. Len(sent)
      BY <1>1, <1>3, BoundsAssumption DEF RecvFrame, Backlog
    <3>2. f \in Frame /\ IsCached(f)
      BY <1>0, <1>1, <3>1 DEF IdsOK
    <3> QED BY <1>1, <1>3, <3>1, <3>2, Zenon DEF RecvFrame
  <2>2. got'[r] = h
    <3>1. got'[r] = Append(g, f)
      BY <1>1, <1>3, Zenon DEF RecvFrame, ForwardsConfig
    <3>2. g \in Seq(Frame) /\ f \in Frame
      BY <1>1, <2>1
    <3> HIDE DEF f, g
    <3>3. Append(g, f) = h
      BY <3>2, AppendFrame
    <3> QED BY <3>1, <3>3, Zenon
  <2>3. Snapped(r)
    <3>1. PICK j \in 2 .. Len(Plan(r)) : Plan(r)[j] \in {"gop", "media"}
      BY DEF ForwardsConfig, SubscribesFirst
    <3>2. step[r] > Len(Plan(r)) /\ step[r] \in Nat
      BY <1>0, <1>3 DEF RecvFrame, Live, TypeOK
    <3>3. j \in 1 .. Len(Plan(r)) /\ j < step[r]
      BY <3>1, <3>2
    <3> QED BY <3>1, <3>3 DEF Snapped
  <2>4. ASSUME ~ lagged[r], NEW c \in 1 .. Len(cached), Needs(f, c)
        PROVE  HasConfig(g, c)
    <3>1. cached[c].id = c /\ cached[c].kind = "video_config"
      BY <1>0, <2>4, Zenon DEF Needs, IdsOK
    <3>2. PICK j \in 1 .. next[r] - 1 : sent[j] = cached[c]
      BY <1>0, <2>1, <2>4, Zenon DEF Needs, HandOK
    <3>3. CASE j \in sub[r] + 1 .. next[r] - 1
      BY <2>4, <3>1, <3>2, <3>3, Zenon DEF ForwardOK
    <3>4. CASE j \in 1 .. sub[r]
      <4>1. c <= snap[r]
        BY <2>3, <3>1, <3>2, <3>4 DEF ReaderOK, SnapOK
      <4>2. c \in 1 .. snap[r]
        BY <1>1, <4>1
      <4> QED BY <2>3, <3>1, <4>2, Zenon DEF ForwardOK
    <3> QED BY <1>1, <3>2, <3>3, <3>4
  <2>5. <<f>> \in Seq(Frame) /\ Len(<<f>>) = 1 /\ <<f>>[1] = f /\ g \in Seq(Frame)
    BY <1>1, <2>1
  <2>6. \A v \in 1 .. Len(g) : IsCached(g[v])
    BY DEF ForwardOK
  <2>7. ~ lagged[r] => Led(g)
    BY DEF ForwardOK
  <2>8. ~ lagged[r] => \A i \in sub[r] + 1 .. next[r] - 1 :
                         sent[i].kind = "video_config" => HasConfig(g, sent[i].id)
    BY DEF ForwardOK
  <2>9. \A c \in 1 .. snap[r] : cached[c].kind = "video_config" => HasConfig(g, c)
    BY <2>3 DEF ForwardOK
  <2> HIDE DEF g
  <2>10. h \in Seq(Frame) /\ (\A v \in 1 .. Len(h) : IsCached(h[v])) /\ (~ lagged[r] => Led(h))
    <3> DEFINE w == <<f>>
    <3>1. \A v \in 1 .. Len(w) : v = 1 /\ w[v] = f
      BY <2>5
    <3>2. w \in Seq(Frame)
      BY <2>5
    <3> HIDE DEF w
    <3>3. \A v \in 1 .. Len(g \o w) : IsCached((g \o w)[v])
      BY <2>1, <2>5, <2>6, <3>1, <3>2, CachedOn
    <3>4. ~ lagged[r] => Led(g \o w)
      BY <2>4, <2>5, <2>7, <3>1, <3>2, LedOn
    <3> QED BY <2>5, <3>2, <3>3, <3>4 DEF w
  <2>11. \A c : HasConfig(g, c) \/ HasConfig(<<f>>, c) => HasConfig(h, c)
    BY <2>5, HasOn, Zenon
  <2>12. f.kind = "video_config" => HasConfig(<<f>>, f.id)
    BY <2>1, <2>5, FrameId DEF HasConfig, Newer
  <2> HIDE DEF h
  <2>13. ~ lagged[r] => \A i \in sub[r] + 1 .. next[r] :
                          sent[i].kind = "video_config" => HasConfig(h, sent[i].id)
    <3> SUFFICES ASSUME ~ lagged[r], NEW i \in sub[r] + 1 .. next[r], sent[i].kind = "video_config"
                 PROVE  HasConfig(h, sent[i].id)
      OBVIOUS
    <3>1. CASE i = next[r]
      BY <2>11, <2>12, <3>1
    <3>2. CASE i \in sub[r] + 1 .. next[r] - 1
      BY <2>8, <2>11, <3>2, Zenon
    <3> QED BY <1>1, <3>1, <3>2
  <2>14. sub'[r] = sub[r] /\ snap'[r] = snap[r] /\ next'[r] - 1 = next[r] /\ lagged'[r] = lagged[r]
    BY <1>1, <1>2, <2>1
  <2> QED BY <1>2, <2>2, <2>9, <2>10, <2>11, <2>13, <2>14, Zenon
          DEF ForwardOK, IsCached, HasConfig, Newer, Led, Needs
<1>4. CASE RecvLagged(r)
  <2>1. lagged'[r] /\ got' = got
    BY <1>1, <1>4 DEF RecvLagged
  <2> QED BY <1>2, <2>1, Zenon DEF ForwardOK, IsCached, HasConfig, Newer
<1>5. CASE RecvClosed(r) \/ Leave(r)
  <2>1. UNCHANGED <<got, next, lagged>>
    BY <1>5 DEF RecvClosed, Leave
  <2> QED BY <1>0, <1>2, <2>1, ForwardStays, Zenon
<1> QED BY <1>3, <1>4, <1>5 DEF Receive

\* Every step keeps what the consumers that forward configurations have.
LEMMA ForwardStep == ConfigSourceInv /\ ForwardInv /\ [Next]_vars => ForwardInv'
<1> SUFFICES ASSUME ConfigSourceInv, [Next]_vars, NEW r \in Readers, ForwardsConfig(r),
                    ReaderOK(r), ForwardOK(r)
             PROVE  ReaderOK(r)' /\ ForwardOK(r)'
  BY DEF ForwardInv, ForwardsConfig, SubscribesFirst, Plan
<1>0. SourceInv /\ SubscribesFirst(r)
  BY DEF ConfigSourceInv, ForwardsConfig
<1>1. CASE StartupStep(r)
  BY <1>0, <1>1, StartupKeeps, ForwardStarts
<1>2. CASE Receive(r) \/ Leave(r)
  BY <1>0, <1>2, ReceiveKeeps, ForwardReceives
<1>3. CASE ~ (StartupStep(r) \/ Receive(r) \/ Leave(r))
  BY <1>0, <1>3, Elsewhere, ReaderStays, ForwardStays
<1> QED BY <1>1, <1>2, <1>3

\* A consumer that forwards the configuration frames is given none of the video of a
\* track before a decoder configuration at least as new as the last one published
\* before it, for any publishers, consumers and interleaving of cache_frame, send,
\* subscribe and recv (flv/src/recorder.rs, sdk/src/lib.rs).
THEOREM ConfigFirstTheorem == Spec => []ConfigFirst
<1>1. Init => ConfigSourceInv /\ ForwardInv
  BY SourceInit, ConfigInit DEF ConfigSourceInv
<1>2. ConfigSourceInv /\ ForwardInv /\ [Next]_vars => ConfigSourceInv' /\ ForwardInv'
  <2>1. SourceInv /\ [Next]_vars => SourceInv'
    BY TypeStep, IdsStep, CacheStep DEF SourceInv
  <2> QED BY <2>1, HandStep, SlotsStep, ForwardStep DEF ConfigSourceInv
<1>3. ConfigSourceInv /\ ForwardInv => ConfigFirst
  <2> SUFFICES ASSUME ConfigSourceInv, NEW r \in Readers, ForwardOK(r), ~ lagged[r],
                      NEW v \in DOMAIN got[r], got[r][v].kind \in {"key", "video"},
                      NEW c \in 1 .. got[r][v].id - 1, cached[c].kind = "video_config",
                      cached[c].track = got[r][v].track
               PROVE  \E u \in 1 .. v - 1 : got[r][u].kind = "video_config" /\ got[r][u].id >= c
    BY DEF ForwardInv, ConfigFirst, ConfigFirstFor
  <2>1. got[r] \in Seq(Frame) /\ cached \in Seq(Frame) /\ Len(cached) \in Nat
    BY DEF ConfigSourceInv, SourceInv, TypeOK
  <2>2. v \in 1 .. Len(got[r]) /\ got[r][v] \in Frame /\ IsCached(got[r][v])
    BY <2>1 DEF ForwardOK
  <2>3. c \in 1 .. Len(cached) /\ Needs(got[r][v], c)
    BY <2>1, <2>2, FrameId DEF IsCached, Needs
  <2> QED BY <2>2, <2>3 DEF ForwardOK, Led, Newer
<1> QED BY <1>1, <1>2, <1>3, PTL DEF Spec

=============================================================================
