--------------------------- MODULE IngestProofs -----------------------------
(***************************************************************************)
(* Proofs about media that comes in.  HlsPull, for any upstream that lists *)
(* no bytes twice, playlist window, first sequence number and size of      *)
(* `seen`: each listed segment is demuxed once, whole and in order, with   *)
(* its own key.  RtpPorts, for any number of ports and calls.              *)
(* TranscodePipe: no frame is lost on its way through a transcode session. *)
(***************************************************************************)
EXTENDS HlsPull, RtpPorts, TranscodePipe, TLAPS

-----------------------------------------------------------------------------
(* The HLS pull client. *)

HpSpec == HpInit /\ [][HpNext]_hpVars

Segments == 1 .. SegTotal

\* What a playlist that begins with segment a says of segment i, and what `seen`
\* remembers of it.
Entry(a, i) ==
  [seg |-> i, uri |-> UpSegment(i).uri, length |-> UpSegment(i).length,
   offset |-> IF UpSegment(i).length > 0 /\ (i = a \/ UpSegment(i).explicit) THEN UpSegment(i).start ELSE -1,
   key |-> UpSegment(i).key, iv |-> UpSegment(i).iv, sequence |-> media_sequence(i)]
Entries(a) == {Entry(a, i) : i \in Segments}
SeenId(i) == <<UpSegment(i).uri, IF UpSegment(i).length > 0 THEN UpSegment(i).start ELSE 0, UpSegment(i).length>>

Listings == UNION {{p.segs[i] : i \in 1 .. Len(p.segs)} : p \in HlsPlans}
KeysListed == {s.key : s \in Listings}
IvsListed == {s.iv : s \in Listings} \cup {Absent} \cup Nat
MapsListed == {s.map : s \in Listings} \cup {Absent}
Demuxed == [seg : Nat, start : Nat, length : Nat, key : KeysListed, iv : IvsListed,
            map : MapsListed, listed : MapsListed, era : Nat]

HpTypeOK ==
  /\ hpPlan \in HlsPlans
  /\ hpUp \in [lo : Nat, hi : Nat, ended : BOOLEAN]
  /\ 1 <= hpUp.lo /\ hpUp.lo <= hpUp.hi /\ hpUp.hi <= SegTotal
  /\ hpPc \in {"open", "map", "segment", "sleep", "done", "failed"}
  /\ hpEnds \in [{UpSegment(i).uri : i \in Segments} -> Int]
  /\ hpMap \in MapsListed
  /\ hpOut \in Seq(Demuxed)
  /\ hpClears \in Nat

\* The playlist in hand lists the segments a to b; those before k are done.
Listed(a, k, b) ==
  /\ a \in Nat /\ k \in Nat /\ b \in Nat
  /\ 1 <= a /\ a <= k /\ k <= b + 1 /\ a <= b /\ a <= hpUp.lo /\ b <= hpUp.hi
  /\ DOMAIN hpList = {"segs", "all", "map", "end"}
  /\ hpList.all = a .. b
  /\ hpList.segs \in Seq(Entries(a)) /\ Len(hpList.segs) = b - k + 1
  /\ \A n \in 1 .. b - k + 1 : hpList.segs[n] = Entry(a, k + n - 1)
  /\ hpList.map \in MapsListed

\* The end of the last range of u among the segments a to k - 1, if it is known.
EndOK(u, a, k) ==
  \/ hpEnds[u] = -1
  \/ \E j \in a .. k - 1 :
       /\ UpSegment(j).uri = u /\ UpSegment(j).length > 0
       /\ hpEnds[u] = UpSegment(j).start + UpSegment(j).length
       /\ \A m \in j + 1 .. k - 1 : UpSegment(m).uri # u

\* A segment is remembered exactly when it was demuxed since `seen` was cleared,
\* and with it those that the playlist lists before it.
SeenOK(a) ==
  /\ hpPc # "failed" => \A x \in hpSeen : \E j \in 1 .. Len(hpOut) : x = SeenId(hpOut[j].seg)
  /\ \A j \in 1 .. Len(hpOut) : hpOut[j].era = hpClears => \A n \in a .. hpOut[j].seg : SeenId(n) \in hpSeen

DoneOK(a, k, b) ==
  /\ hpPc = "map" => k = a /\ \A u \in DOMAIN hpEnds : hpEnds[u] = -1
  /\ hpPc \in {"segment", "sleep"} => \A n \in a .. k - 1 : \E j \in 1 .. Len(hpOut) : hpOut[j].seg = n
  /\ hpPc = "segment" => /\ \A n \in a .. k - 1 : SeenId(n) \in hpSeen
                         /\ \A u \in DOMAIN hpEnds : EndOK(u, a, k)
                         /\ hpList.map # Absent => hpMap = hpList.map
  /\ hpPc = "sleep" => k = b + 1

OutOK == \A j \in 1 .. Len(hpOut) : hpOut[j].seg \in Segments /\ hpOut[j].era <= hpClears

\* No playlist yet, or one that is being worked through.
Unlisted == hpList = NoList /\ hpPc \in {"open", "done", "failed"} /\ hpSeen = {} /\ hpOut = << >>
Working(a, k, b) == Listed(a, k, b) /\ SeenOK(a) /\ DoneOK(a, k, b)

HpInv ==
  /\ HpTypeOK /\ OutOK /\ HlsOnce /\ HlsSegmentExact
  /\ Unlisted \/ \E a, k, b \in Nat : Working(a, k, b)

\* The larger of two numbers.
LEMMA MaxOfTwo == ASSUME NEW x \in Int, NEW y \in Int
                  PROVE  Max({x, y}) \in {x, y} /\ Max({x, y}) >= x /\ Max({x, y}) >= y
<1>1. \E m \in {x, y} : \A n \in {x, y} : m >= n
  BY x >= y \/ y >= x
<1> QED BY <1>1 DEF Max

\* The segments of a plan.
LEMMA PlanFacts ==
  ASSUME hpPlan \in HlsPlans
  PROVE  /\ SegTotal \in Nat /\ SegTotal >= 1
         /\ \A i \in Segments : /\ UpSegment(i).start \in Nat /\ UpSegment(i).length \in Nat
                                /\ UpSegment(i) \in Listings
         /\ \A i, j \in Segments : SeenId(i) = SeenId(j) => i = j
         /\ \A i, j \in Segments :
              \/ i >= j \/ UpSegment(i).uri # UpSegment(j).uri
              \/ UpSegment(j).explicit \/ UpSegment(i).length = 0 \/ UpSegment(j).length = 0
              \/ \E m \in i + 1 .. j - 1 : UpSegment(m).uri = UpSegment(j).uri
              \/ UpSegment(j).start = UpSegment(i).start + UpSegment(i).length
<1>1. SegTotal \in Nat /\ SegTotal >= 1
  BY HlsUpstreams DEF SegTotal
<1>2. \A i \in Segments : UpSegment(i).start \in Nat /\ UpSegment(i).length \in Nat
  BY HlsUpstreams DEF SegTotal, Segments, UpSegment
<1>3. \A i \in Segments : UpSegment(i) \in Listings
  BY DEF SegTotal, Segments, UpSegment, Listings
<1>4. \A i, j \in Segments : i < j => SeenId(i) # SeenId(j)
  <2> SUFFICES ASSUME NEW i \in Segments, NEW j \in Segments, i < j PROVE SeenId(i) # SeenId(j)
    OBVIOUS
  <2>1. \/ UpSegment(i).uri # UpSegment(j).uri \/ UpSegment(i).length # UpSegment(j).length
        \/ (UpSegment(i).length > 0 /\ UpSegment(i).start # UpSegment(j).start)
    BY HlsUpstreams DEF SegTotal, Segments, UpSegment
  <2> QED BY <2>1 DEF SeenId
<1>5. \A i, j \in Segments : SeenId(i) = SeenId(j) => i = j
  BY <1>1, <1>4 DEF Segments
<1>6. \A i, j \in Segments :
        \/ i >= j \/ UpSegment(i).uri # UpSegment(j).uri
        \/ UpSegment(j).explicit \/ UpSegment(i).length = 0 \/ UpSegment(j).length = 0
        \/ \E m \in i + 1 .. j - 1 : UpSegment(m).uri = UpSegment(j).uri
        \/ UpSegment(j).start = UpSegment(i).start + UpSegment(i).length
  BY <1>1, HlsUpstreams DEF SegTotal, Segments, UpSegment
<1> QED BY <1>1, <1>2, <1>3, <1>5, <1>6

\* The fields of what was demuxed.
LEMMA OutTyped ==
  ASSUME HpTypeOK
  PROVE  \A j \in 1 .. Len(hpOut) : /\ hpOut[j] \in Demuxed /\ hpOut[j].seg \in Nat
                                    /\ hpOut[j].start \in Nat /\ hpOut[j].era \in Nat
<1>1. \A j \in 1 .. Len(hpOut) : hpOut[j] \in Demuxed
  BY DEF HpTypeOK
<1>2. \A o \in Demuxed : o.seg \in Nat /\ o.start \in Nat /\ o.era \in Nat
  BY DEF Demuxed
<1> QED BY <1>1, <1>2

\* Nothing is listed at first.
LEMMA HpStart == HpInit => HpInv
<1> SUFFICES ASSUME HpInit PROVE HpInv
  OBVIOUS
<1>0. hpPlan \in HlsPlans /\ SegTotal \in Nat /\ SegTotal >= 1
  BY PlanFacts DEF HpInit
<1>1. hpEnds \in [{UpSegment(i).uri : i \in Segments} -> Int]
  BY DEF HpInit, Segments, SegTotal, UpSegment
<1>2. hpUp = [lo |-> 1, hi |-> 1, ended |-> FALSE] /\ hpOut = << >> /\ hpPc = "open" /\ hpClears = 0
      /\ hpMap = Absent
  BY DEF HpInit
<1>3. HpTypeOK
  BY <1>0, <1>1, <1>2 DEF HpTypeOK, MapsListed
<1>4. OutOK /\ HlsOnce /\ HlsSegmentExact
  BY <1>2 DEF OutOK, HlsOnce, HlsSegmentExact
<1>5. Unlisted
  BY DEF HpInit, Unlisted
<1> QED BY <1>3, <1>4, <1>5 DEF HpInv

\* The invariant is kept by a step that leaves the output and the plan alone, if it
\* keeps what is said of the playlist.
LEMMA SameOutput ==
  ASSUME HpInv, UNCHANGED <<hpPlan, hpOut>>, hpClears' \in Nat, hpClears' >= hpClears,
         hpUp' \in [lo : Nat, hi : Nat, ended : BOOLEAN],
         1 <= hpUp'.lo, hpUp'.lo <= hpUp'.hi, hpUp'.hi <= SegTotal,
         hpPc' \in {"open", "map", "segment", "sleep", "done", "failed"},
         hpEnds' \in [{UpSegment(i).uri : i \in Segments} -> Int], hpMap' \in MapsListed,
         Unlisted' \/ \E a, k, b \in Nat : Working(a, k, b)'
  PROVE  HpInv'
<1>1. HpTypeOK'
  BY DEF HpInv, HpTypeOK, SegTotal, Segments, UpSegment
<1>2. OutOK'
  <2>1. hpClears \in Nat /\ hpOut \in Seq(Demuxed) /\ \A j \in 1 .. Len(hpOut) : hpOut[j].era \in Nat
    BY OutTyped DEF HpInv, HpTypeOK
  <2> QED BY <2>1 DEF HpInv, OutOK, Segments, SegTotal
<1>3. HlsOnce' /\ HlsSegmentExact'
  BY DEF HpInv, HlsOnce, HlsSegmentExact, UpSegment
<1> QED BY <1>1, <1>2, <1>3 DEF HpInv

\* A step that changes at most the upstream, the flag and where the task is.
LEMMA SameWork ==
  ASSUME HpInv, UNCHANGED <<hpPlan, hpList, hpEnds, hpSeen, hpMap, hpOut, hpClears>>,
         hpUp' \in [lo : Nat, hi : Nat, ended : BOOLEAN],
         hpUp.lo <= hpUp'.lo, hpUp'.lo <= hpUp'.hi, hpUp.hi <= hpUp'.hi, hpUp'.hi <= SegTotal,
         hpPc' = hpPc \/ hpPc' \in {"open", "done", "failed"}, hpPc = "failed" => hpPc' = "failed"
  PROVE  HpInv'
<1>0. HpTypeOK
  BY DEF HpInv
<1>1. Unlisted => Unlisted'
  BY DEF Unlisted
<1>2. ASSUME NEW a \in Nat, NEW k \in Nat, NEW b \in Nat, Working(a, k, b) PROVE Working(a, k, b)'
  <2>1. Listed(a, k, b)'
    <3>1. \A i : Entry(a, i)' = Entry(a, i)
      BY DEF Entry, UpSegment, media_sequence
    <3>2. Entries(a)' = Entries(a)
      BY <3>1 DEF Entries, Segments, SegTotal
    <3> QED BY <1>0, <1>2, <3>1, <3>2 DEF Working, Listed, HpTypeOK
  <2>2. SeenOK(a)'
    BY <1>2, Zenon DEF Working, SeenOK, SeenId, UpSegment
  <2>3. DoneOK(a, k, b)'
    <3>1. \A u : EndOK(u, a, k) => EndOK(u, a, k)'
      BY Zenon DEF EndOK, UpSegment
    <3>2. \A n : SeenId(n)' = SeenId(n)
      BY Zenon DEF SeenId, UpSegment
    <3>3. DoneOK(a, k, b)
      BY <1>2, Zenon DEF Working
    <3> QED BY <3>1, <3>2, <3>3 DEF DoneOK
  <2> QED BY <2>1, <2>2, <2>3 DEF Working
<1>3. Unlisted' \/ \E a, k, b \in Nat : Working(a, k, b)'
  BY <1>1, <1>2 DEF HpInv
<1> QED BY <1>0, <1>3, SameOutput DEF HpTypeOK

\* A sequence given by its entries.
LEMMA EntriesOf ==
  ASSUME NEW S, NEW n \in Nat, NEW s \in [1 .. n -> S]
  PROVE  s \in Seq(S) /\ Len(s) = n
OBVIOUS

\* A new playlist.
LEMMA PlaylistStep == HpInv /\ open_playlist => HpInv'
<1> SUFFICES ASSUME HpInv, open_playlist PROVE HpInv'
  OBVIOUS
<1>0. HpTypeOK
  BY DEF HpInv
<1>1. CASE UNCHANGED <<hpList, hpEnds>> /\ (hpPc' = hpPc \/ hpPc' = "done")
  BY <1>0, <1>1, SameWork DEF open_playlist, HpTypeOK
<1>2. CASE /\ hpList' = playlist_entries /\ hpEnds' = [u \in DOMAIN hpEnds |-> -1]
           /\ hpPc' = "map"
  <2>0. UNCHANGED <<hpPlan, hpUp, hpSeen, hpMap, hpOut, hpClears>>
    BY DEF open_playlist
  <2>a. PICK a \in Nat, b \in Nat : a = hpUp.lo /\ b = hpUp.hi
    BY <1>0 DEF HpTypeOK
  <2>1. a = hpUp.lo /\ b = hpUp.hi /\ 1 <= a /\ a <= b /\ b \in Segments /\ SegTotal \in Nat
    BY <1>0, <2>a, PlanFacts DEF HpTypeOK, Segments
  <2>2. Listed(a, a, b)'
    <3>1. /\ hpList'.segs = [n \in 1 .. b - a + 1 |-> Entry(a, a + n - 1)]
          /\ DOMAIN hpList' = {"segs", "all", "map", "end"}
          /\ hpList'.all = a .. b /\ hpList'.map = UpSegment(b).map
      BY <1>2, <2>1 DEF playlist_entries, segment_entry, Entry
    <3>2. UpSegment(b).map \in MapsListed
      BY <1>0, <2>1, PlanFacts DEF MapsListed, HpTypeOK
    <3>3. \A i : Entry(a, i)' = Entry(a, i)
      BY <2>0 DEF Entry, UpSegment, media_sequence
    <3>4. Entries(a)' = Entries(a)
      BY <2>0, <3>3 DEF Entries, Segments, SegTotal
    <3>5. /\ b - a + 1 \in Nat
          /\ hpList'.segs \in [1 .. b - a + 1 -> Entries(a)]
          /\ \A n \in 1 .. b - a + 1 : hpList'.segs[n] = Entry(a, a + n - 1)
      BY <2>1, <3>1 DEF Entries, Segments
    <3>6. hpList'.segs \in Seq(Entries(a)) /\ Len(hpList'.segs) = b - a + 1
      BY <3>5, EntriesOf
    <3>7. hpList'.segs \in Seq(Entries(a)')
      BY <3>4, <3>6
    <3>8. \A n \in 1 .. b - a + 1 : hpList'.segs[n] = Entry(a, a + n - 1)'
      BY <3>3, <3>5
    <3> QED BY <2>0, <2>1, <3>1, <3>2, <3>6, <3>7, <3>8 DEF Listed
  <2>3. SeenOK(a)'
    <3>1. CASE Unlisted
      BY <2>0, <3>1 DEF Unlisted, SeenOK
    <3>2. ASSUME NEW o \in Nat, NEW k \in Nat, NEW p \in Nat, Working(o, k, p) PROVE SeenOK(a)'
      <4>1. o <= a /\ hpPc # "failed"
        BY <2>1, <3>2 DEF Working, Listed, open_playlist
      <4>2. \A j \in 1 .. Len(hpOut) : hpOut[j].seg \in Nat
        BY <1>0, OutTyped
      <4>3. \A j \in 1 .. Len(hpOut) : hpOut[j].era = hpClears => \A n \in a .. hpOut[j].seg : SeenId(n) \in hpSeen
        BY <2>1, <3>2, <4>1, <4>2 DEF Working, SeenOK
      <4> QED BY <2>0, <3>2, <4>1, <4>3, Zenon DEF Working, SeenOK, SeenId, UpSegment
    <3> QED BY <3>1, <3>2 DEF HpInv
  <2>4. DoneOK(a, a, b)'
    BY <1>0, <1>2, <2>0 DEF DoneOK, HpTypeOK
  <2>5. \E o, k, p \in Nat : Working(o, k, p)'
    BY <2>0, <2>1, <2>2, <2>3, <2>4 DEF Working
  <2>6. hpEnds' \in [{UpSegment(i).uri : i \in Segments} -> Int]
    BY <1>0, <1>2 DEF HpTypeOK
  <2> QED BY <1>0, <1>2, <2>0, <2>5, <2>6, SameOutput DEF HpTypeOK
<1> QED BY <1>1, <1>2 DEF open_playlist

\* One segment of the list: its bytes start where the plan says.
LEMMA StartExact ==
  ASSUME HpTypeOK, hpPc = "segment", NEW a \in Nat, NEW k \in Nat, NEW b \in Nat, Working(a, k, b),
         k <= b, NEW start, start = (IF Entry(a, k).length > 0 THEN start_of_range(Entry(a, k)) ELSE 0),
         start >= 0
  PROVE  /\ start = (IF UpSegment(k).length > 0 THEN UpSegment(k).start ELSE 0)
         /\ dedup_key(Entry(a, k), start) = SeenId(k)
<1>1. /\ k \in Segments /\ a \in Segments /\ 1 <= a /\ a <= k /\ SegTotal \in Nat
      /\ \A j \in a .. k : j \in Segments
  BY PlanFacts DEF Working, Listed, HpTypeOK, Segments
<1>2. /\ UpSegment(k).start \in Nat /\ UpSegment(k).length \in Nat /\ UpSegment(k).uri \in DOMAIN hpEnds
      /\ hpEnds[UpSegment(k).uri] \in Int
  BY <1>1, PlanFacts DEF HpTypeOK
<1>3. start = IF UpSegment(k).length > 0 THEN UpSegment(k).start ELSE 0
  <2>1. CASE UpSegment(k).length = 0
    BY <2>1 DEF Entry
  <2>2. CASE UpSegment(k).length > 0 /\ (k = a \/ UpSegment(k).explicit)
    BY <1>2, <2>2 DEF Entry, start_of_range
  <2>3. CASE UpSegment(k).length > 0 /\ ~ (k = a \/ UpSegment(k).explicit)
    <3>1. start = hpEnds[UpSegment(k).uri]
      BY <2>3 DEF Entry, start_of_range
    <3>2. EndOK(UpSegment(k).uri, a, k)
      BY <1>2 DEF Working, DoneOK
    <3>3. PICK j \in a .. k - 1 :
            /\ UpSegment(j).uri = UpSegment(k).uri /\ UpSegment(j).length > 0
            /\ start = UpSegment(j).start + UpSegment(j).length
            /\ \A m \in j + 1 .. k - 1 : UpSegment(m).uri # UpSegment(k).uri
      BY <3>1, <3>2 DEF EndOK
    <3>4. j \in Segments /\ j < k /\ UpSegment(j).length \in Nat
      BY <1>1, PlanFacts DEF HpTypeOK
    <3>5. \/ j >= k \/ UpSegment(j).uri # UpSegment(k).uri
          \/ UpSegment(k).explicit \/ UpSegment(j).length = 0 \/ UpSegment(k).length = 0
          \/ \E m \in j + 1 .. k - 1 : UpSegment(m).uri = UpSegment(k).uri
          \/ UpSegment(k).start = UpSegment(j).start + UpSegment(j).length
      BY <1>1, <3>4, PlanFacts, Zenon DEF HpTypeOK
    <3>6. UpSegment(k).start = UpSegment(j).start + UpSegment(j).length
      BY <1>1, <2>3, <3>3, <3>4, <3>5
    <3> QED BY <2>3, <3>3, <3>6
  <2> QED BY <1>2, <2>1, <2>2, <2>3
<1> QED BY <1>3 DEF dedup_key, Entry, SeenId

\* The list without its first segment.
LEMMA ListRest ==
  ASSUME NEW a \in Nat, NEW k \in Nat, NEW b \in Nat, Listed(a, k, b), hpList.segs # << >>,
         hpList' = [hpList EXCEPT !.segs = Tail(@)], UNCHANGED <<hpPlan, hpUp>>
  PROVE  Listed(a, k + 1, b)' /\ hpList'.map = hpList.map
<1>1. \A i : Entry(a, i)' = Entry(a, i)
  BY DEF Entry, UpSegment, media_sequence
<1> DEFINE s == hpList.segs
           E == Entries(a)
<1>2. /\ s \in Seq(E) /\ Len(s) = b - k + 1 /\ s # << >>
      /\ \A n \in 1 .. b - k + 1 : s[n] = Entry(a, k + n - 1)
  BY DEF Listed
<1>3. /\ hpList'.segs = Tail(s) /\ hpList'.all = hpList.all /\ hpList'.map = hpList.map
      /\ DOMAIN hpList' = DOMAIN hpList
  BY DEF Listed
<1>4. E' = E
  BY <1>1 DEF Entries, Segments, SegTotal
<1> HIDE DEF s, E
<1>5. /\ k <= b /\ Tail(s) \in Seq(E) /\ Len(Tail(s)) = b - k
      /\ \A n \in 1 .. b - k : Tail(s)[n] = s[n + 1]
  <2>1. k <= b
    BY <1>2
  <2>2. Len(Tail(s)) = Len(s) - 1 /\ Tail(s) \in Seq(E) /\ \A n \in 1 .. Len(Tail(s)) : Tail(s)[n] = s[n + 1]
    BY <1>2
  <2> QED BY <1>2, <2>1, <2>2
<1>6. \A n \in 1 .. b - k : Tail(s)[n] = Entry(a, (k + 1) + n - 1)
  BY <1>2, <1>5
<1>7. b - (k + 1) + 1 = b - k /\ k + 1 \in Nat /\ a <= k /\ k + 1 <= b + 1
  BY <1>5 DEF Listed
<1>8. hpList'.segs \in Seq(E') /\ Len(hpList'.segs) = b - (k + 1) + 1
  BY <1>3, <1>4, <1>5, <1>7, Zenon
<1>9. \A n \in 1 .. b - (k + 1) + 1 : hpList'.segs[n] = Entry(a, (k + 1) + n - 1)'
  BY <1>1, <1>3, <1>6, <1>7, Zenon
<1> QED BY <1>3, <1>7, <1>8, <1>9 DEF Listed, E

\* What is demuxed of segment k, in the output and in the order of its era.
LEMMA DemuxExact ==
  ASSUME HpInv, hpPc = "segment", NEW a \in Nat, NEW k \in Nat, NEW b \in Nat, Working(a, k, b), k <= b,
         SeenId(k) \notin hpSeen,
         NEW start, start = (IF UpSegment(k).length > 0 THEN UpSegment(k).start ELSE 0),
         hpOut' = Append(hpOut, [seg |-> k, start |-> start, length |-> UpSegment(k).length,
                                 key |-> UpSegment(k).key, iv |-> decrypt_iv(Entry(a, k)), map |-> hpMap,
                                 listed |-> hpList.map, era |-> hpClears]),
         UNCHANGED <<hpPlan, hpClears>>
  PROVE  /\ hpOut' \in Seq(Demuxed) /\ Len(hpOut') = Len(hpOut) + 1
         /\ \A j \in 1 .. Len(hpOut) : hpOut'[j] = hpOut[j]
         /\ hpOut'[Len(hpOut) + 1].seg = k /\ hpOut'[Len(hpOut) + 1].era = hpClears
         /\ OutOK' /\ HlsOnce' /\ HlsSegmentExact'
<1>0. HpTypeOK /\ Listed(a, k, b)
  BY DEF HpInv, Working
<1>1. k \in Segments /\ 1 <= a /\ a <= k /\ SegTotal \in Nat
  BY <1>0, PlanFacts DEF Listed, HpTypeOK, Segments
<1>2. /\ UpSegment(k).start \in Nat /\ UpSegment(k).length \in Nat /\ UpSegment(k) \in Listings
      /\ start \in Nat
  BY <1>0, <1>1, PlanFacts DEF HpTypeOK
<1> DEFINE iv == decrypt_iv(Entry(a, k))
           o == [seg |-> k, start |-> start, length |-> UpSegment(k).length, key |-> UpSegment(k).key,
                 iv |-> iv, map |-> hpMap, listed |-> hpList.map, era |-> hpClears]
<1>3. /\ iv = IF UpSegment(k).key = Absent THEN Absent
              ELSE IF UpSegment(k).iv # Absent THEN UpSegment(k).iv ELSE FirstSequence + (k - 1)
      /\ iv \in IvsListed
  <2>1. iv = IF UpSegment(k).key = Absent THEN Absent
             ELSE IF UpSegment(k).iv # Absent THEN UpSegment(k).iv ELSE FirstSequence + (k - 1)
    BY DEF decrypt_iv, Entry, media_sequence
  <2>2. FirstSequence + (k - 1) \in Nat
    BY <1>1, HlsUpstreams DEF Segments
  <2> HIDE DEF iv
  <2> QED BY <1>2, <2>1, <2>2 DEF IvsListed
<1> HIDE DEF iv
<1>4. o \in Demuxed
  <2>1. UpSegment(k).key \in KeysListed /\ hpMap \in MapsListed /\ hpList.map \in MapsListed /\ hpClears \in Nat
    BY <1>0, <1>2, Zenon DEF KeysListed, HpTypeOK, Listed
  <2> QED BY <1>2, <1>3, <2>1 DEF Demuxed
<1>5. /\ hpOut \in Seq(Demuxed) /\ hpOut' = Append(hpOut, o)
  BY <1>0 DEF HpTypeOK, iv
<1>o. /\ o.seg = k /\ o.start = start /\ o.length = UpSegment(k).length /\ o.key = UpSegment(k).key
      /\ o.iv = iv /\ o.map = hpMap /\ o.listed = hpList.map /\ o.era = hpClears
  OBVIOUS
<1> HIDE DEF o
<1>6. /\ hpOut' \in Seq(Demuxed) /\ Len(hpOut') = Len(hpOut) + 1 /\ Len(hpOut) \in Nat
      /\ \A j \in 1 .. Len(hpOut) : hpOut'[j] = hpOut[j]
      /\ hpOut'[Len(hpOut) + 1] = o
  BY <1>4, <1>5
<1>7. \A j \in 1 .. Len(hpOut') : j \in 1 .. Len(hpOut) \/ (j = Len(hpOut) + 1 /\ hpOut'[j] = o)
  BY <1>6
<1>8. OutOK'
  <2>1. Segments' = Segments
    BY DEF Segments, SegTotal
  <2>2. \A j \in 1 .. Len(hpOut) : hpOut[j].seg \in Segments /\ hpOut[j].era <= hpClears
    BY DEF HpInv, OutOK
  <2>3. hpClears <= hpClears
    BY <1>0 DEF HpTypeOK
  <2> QED BY <1>1, <1>6, <1>7, <1>o, <2>1, <2>2, <2>3 DEF OutOK
<1>9. HlsOnce'
  <2>1. \A j \in 1 .. Len(hpOut) : hpOut[j].era = hpClears => hpOut[j].seg < k
    <3> SUFFICES ASSUME NEW j \in 1 .. Len(hpOut), hpOut[j].era = hpClears, hpOut[j].seg >= k PROVE FALSE
      BY <1>0, OutTyped
    <3>1. k \in a .. hpOut[j].seg
      BY <1>0, <1>1, OutTyped
    <3> QED BY <3>1 DEF Working, SeenOK
  <2>2. \A i, j \in 1 .. Len(hpOut) : i < j /\ hpOut[i].era = hpOut[j].era => hpOut[i].seg < hpOut[j].seg
    BY DEF HpInv, HlsOnce
  <2> SUFFICES ASSUME NEW i \in 1 .. Len(hpOut'), NEW j \in 1 .. Len(hpOut'), i < j,
                      hpOut'[i].era = hpOut'[j].era
               PROVE  hpOut'[i].seg < hpOut'[j].seg
    BY DEF HlsOnce
  <2>3. i \in 1 .. Len(hpOut)
    BY <1>6
  <2> QED BY <1>6, <1>7, <1>o, <2>1, <2>2, <2>3
<1>10. HlsSegmentExact'
  <2>1. \A j \in 1 .. Len(hpOut) : HlsRight(hpOut[j], UpSegment(hpOut[j].seg))
    BY Zenon DEF HpInv, HlsSegmentExact
  <2>2. HlsRight(o, UpSegment(k))
    <3>1. hpList.map # Absent => hpMap = hpList.map
      BY DEF Working, DoneOK
    <3>2. FirstSequence + (k - 1) = FirstSequence + k - 1
      BY HlsUpstreams
    <3> QED BY <1>3, <1>o, <3>1, <3>2, Zenon DEF HlsRight
  <2> SUFFICES ASSUME NEW j \in 1 .. Len(hpOut')
               PROVE  HlsRight(hpOut'[j], UpSegment(hpOut'[j].seg))
    BY DEF HlsSegmentExact, UpSegment
  <2>3. CASE j \in 1 .. Len(hpOut)
    BY <1>6, <2>1, <2>3, Zenon
  <2>4. CASE hpOut'[j] = o
    BY <1>o, <2>2, <2>4, Zenon
  <2> QED BY <1>7, <2>3, <2>4
<1> QED BY <1>6, <1>8, <1>9, <1>10, <1>o

\* One segment of the playlist is done.
LEMMA SegmentStep == HpInv /\ next_segment => HpInv'
<1> SUFFICES ASSUME HpInv, next_segment PROVE HpInv'
  OBVIOUS
<1>0. HpTypeOK /\ hpPc = "segment" /\ hpList.segs # << >>
      /\ UNCHANGED <<hpPlan, hpUp, hpMaster, hpMap, hpClears, hpStopped>>
  BY DEF HpInv, next_segment
<1>1. PICK a \in Nat, k \in Nat, b \in Nat : Working(a, k, b)
  BY <1>0 DEF HpInv, Unlisted
<1> DEFINE e == Entry(a, k)
           start == IF e.length > 0 THEN start_of_range(e) ELSE 0
           id == dedup_key(e, start)
<1>2. Listed(a, k, b) /\ k <= b /\ Head(hpList.segs) = e
  <2>1. Listed(a, k, b)
    BY <1>1 DEF Working
  <2>2. hpList.segs \in Seq(Entries(a)) /\ Len(hpList.segs) = b - k + 1
    BY <2>1 DEF Listed
  <2>3. k <= b /\ Head(hpList.segs) = hpList.segs[1]
    BY <1>0, <2>2
  <2>4. 1 \in 1 .. b - k + 1 /\ k + 1 - 1 = k
    BY <2>3
  <2> QED BY <2>1, <2>3, <2>4 DEF Listed
<1>3. /\ k \in Segments /\ 1 <= a /\ a <= k /\ SegTotal \in Nat /\ \A n \in a .. k : n \in Segments
      /\ UpSegment(k).start \in Nat /\ UpSegment(k).length \in Nat
  <2>1. k \in Segments /\ 1 <= a /\ a <= k /\ SegTotal \in Nat /\ \A n \in a .. k : n \in Segments
    BY <1>0, <1>2, PlanFacts DEF Listed, HpTypeOK, Segments
  <2> QED BY <1>0, <2>1, PlanFacts DEF HpTypeOK
<1>e. e.seg = k /\ e.uri = UpSegment(k).uri /\ e.length = UpSegment(k).length /\ e.key = UpSegment(k).key
  BY DEF Entry
<1>s. /\ \A i : SeenId(i)' = SeenId(i)
      /\ Segments' = Segments
      /\ {UpSegment(i).uri : i \in Segments}' = {UpSegment(i).uri : i \in Segments}
  BY <1>0 DEF SeenId, UpSegment, Segments, SegTotal
<1>4. CASE start < 0
  <2>1. hpPc' = "failed" /\ UNCHANGED <<hpList, hpEnds, hpSeen, hpOut>>
    BY <1>2, <1>4 DEF next_segment, hp_fail
  <2> QED BY <1>0, <2>1, SameWork DEF HpTypeOK
<1>5. CASE ~ (start < 0)
  <2>1. start = (IF UpSegment(k).length > 0 THEN UpSegment(k).start ELSE 0) /\ id = SeenId(k) /\ start \in Nat
    <3>1. start \in Int
      <4>1. hpEnds[UpSegment(k).uri] \in Int
        BY <1>0, <1>3 DEF HpTypeOK
      <4> QED BY <1>3, <4>1 DEF start_of_range, Entry
    <3>2. start >= 0
      BY <1>5, <3>1
    <3> HIDE DEF start
    <3>3. start = IF e.length > 0 THEN start_of_range(e) ELSE 0
      BY DEF start
    <3> QED BY <1>0, <1>1, <1>2, <1>3, <3>2, <3>3, StartExact
  <2>2. /\ hpEnds' = [hpEnds EXCEPT ![UpSegment(k).uri] = range_ends(e, start)]
        /\ hpSeen' = hpSeen \cup {SeenId(k)}
        /\ UNCHANGED hpPc /\ hpList' = [hpList EXCEPT !.segs = Tail(@)]
        /\ \/ SeenId(k) \in hpSeen /\ hpOut' = hpOut
           \/ /\ SeenId(k) \notin hpSeen
              /\ hpOut' = Append(hpOut, [seg |-> k, start |-> start, length |-> UpSegment(k).length,
                                 key |-> UpSegment(k).key, iv |-> decrypt_iv(e), map |-> hpMap,
                                 listed |-> hpList.map, era |-> hpClears])
    BY <1>2, <1>5, <1>e, <2>1 DEF next_segment, hp_fail
  <2> HIDE DEF start, id
  <2>3. /\ hpEnds' \in [{UpSegment(i).uri : i \in Segments} -> Int]
        /\ \A u \in DOMAIN hpEnds : EndOK(u, a, k + 1)'
    <3>1. range_ends(e, start) = IF UpSegment(k).length > 0 THEN UpSegment(k).start + UpSegment(k).length ELSE -1
      BY <1>e, <2>1 DEF range_ends
    <3>2. hpEnds \in [{UpSegment(i).uri : i \in Segments} -> Int]
      BY <1>0 DEF HpTypeOK
    <3>3. hpEnds' \in [{UpSegment(i).uri : i \in Segments} -> Int]
      BY <1>3, <2>2, <3>1, <3>2
    <3>4. \A u \in DOMAIN hpEnds : EndOK(u, a, k)
      BY <1>0, <1>1 DEF Working, DoneOK
    <3>5. ASSUME NEW u \in DOMAIN hpEnds PROVE EndOK(u, a, k + 1)'
      <4>1. CASE u = UpSegment(k).uri /\ UpSegment(k).length = 0
        <5>1. hpEnds'[u] = -1
          BY <2>2, <3>1, <4>1
        <5> QED BY <5>1 DEF EndOK
      <4>2. CASE u = UpSegment(k).uri /\ UpSegment(k).length > 0
        <5>1. hpEnds'[u] = UpSegment(k).start + UpSegment(k).length
          BY <2>2, <3>1, <4>2
        <5>2. k \in a .. (k + 1) - 1 /\ k + 1 .. (k + 1) - 1 = {}
          BY <1>3
        <5> QED BY <1>0, <4>2, <5>1, <5>2 DEF EndOK, UpSegment
      <4>3. CASE u # UpSegment(k).uri
        <5>1. hpEnds'[u] = hpEnds[u]
          BY <2>2, <4>3
        <5>2. \A j \in a .. k - 1 : j \in a .. (k + 1) - 1 /\ \A m \in j + 1 .. (k + 1) - 1 : m = k \/ m \in j + 1 .. k - 1
          OBVIOUS
        <5> QED BY <1>0, <3>4, <4>3, <5>1, <5>2 DEF EndOK, UpSegment
      <4> QED BY <1>3, <4>1, <4>2, <4>3
    <3> QED BY <3>3, <3>5
  <2>4. Listed(a, k + 1, b)' /\ hpList'.map = hpList.map /\ k + 1 \in Nat
    BY <1>0, <1>2, <2>2, ListRest
  <2>5. /\ hpOut' \in Seq(Demuxed) /\ Len(hpOut) \in Nat /\ Len(hpOut') \in Nat /\ Len(hpOut) <= Len(hpOut')
        /\ \A j \in 1 .. Len(hpOut) : hpOut'[j] = hpOut[j]
        /\ \E j \in 1 .. Len(hpOut') : hpOut'[j].seg = k
        /\ \A j \in 1 .. Len(hpOut') : j \in 1 .. Len(hpOut) \/ hpOut'[j].seg = k
        /\ OutOK' /\ HlsOnce' /\ HlsSegmentExact'
    <3>1. hpOut \in Seq(Demuxed) /\ Len(hpOut) \in Nat
      BY <1>0 DEF HpTypeOK
    <3>2. CASE SeenId(k) \in hpSeen /\ hpOut' = hpOut
      <4>1. PICK j \in 1 .. Len(hpOut) : SeenId(k) = SeenId(hpOut[j].seg)
        BY <1>0, <1>1, <3>2 DEF Working, SeenOK
      <4>2. hpOut[j].seg \in Segments
        BY DEF HpInv, OutOK
      <4>3. hpOut[j].seg = k
        BY <1>0, <1>3, <4>1, <4>2, PlanFacts, Zenon DEF HpTypeOK
      <4>4. OutOK' /\ HlsOnce' /\ HlsSegmentExact'
        BY <1>0, <1>s, <3>2 DEF HpInv, OutOK, HlsOnce, HlsSegmentExact, UpSegment
      <4> QED BY <3>1, <3>2, <4>3, <4>4
    <3>3. CASE /\ SeenId(k) \notin hpSeen
               /\ hpOut' = Append(hpOut, [seg |-> k, start |-> start, length |-> UpSegment(k).length,
                               key |-> UpSegment(k).key, iv |-> decrypt_iv(e), map |-> hpMap,
                               listed |-> hpList.map, era |-> hpClears])
      <4>1. /\ hpOut' \in Seq(Demuxed) /\ Len(hpOut') = Len(hpOut) + 1
            /\ \A j \in 1 .. Len(hpOut) : hpOut'[j] = hpOut[j]
            /\ hpOut'[Len(hpOut) + 1].seg = k
            /\ OutOK' /\ HlsOnce' /\ HlsSegmentExact'
        BY <1>0, <1>1, <1>2, <2>1, <3>3, DemuxExact
      <4> QED BY ONLY <3>1, <4>1, SMTT(20)
    <3> QED BY <2>2, <1>0, <3>2, <3>3
  <2>6. \A n \in a .. k : SeenId(n) \in hpSeen'
    <3>1. \A n \in a .. k - 1 : SeenId(n) \in hpSeen
      BY <1>0, <1>1 DEF Working, DoneOK
    <3> QED BY <1>3, <2>2, <3>1
  <2>7. SeenOK(a)'
    <3>1. \A x \in hpSeen' : \E j \in 1 .. Len(hpOut') : x = SeenId(hpOut'[j].seg)
      <4>1. \A x \in hpSeen : \E j \in 1 .. Len(hpOut) : x = SeenId(hpOut[j].seg)
        BY <1>0, <1>1 DEF Working, SeenOK
      <4>2. \A x \in hpSeen : \E j \in 1 .. Len(hpOut') : x = SeenId(hpOut'[j].seg)
        BY <2>5, <4>1
      <4> QED BY <2>2, <2>5, <4>2
    <3>2. \A j \in 1 .. Len(hpOut') : hpOut'[j].era = hpClears => \A n \in a .. hpOut'[j].seg : SeenId(n) \in hpSeen'
      <4>1. \A j \in 1 .. Len(hpOut) : hpOut[j].era = hpClears => \A n \in a .. hpOut[j].seg : SeenId(n) \in hpSeen
        BY <1>1 DEF Working, SeenOK
      <4> QED BY <2>2, <2>5, <2>6, <4>1
    <3> QED BY <1>0, <1>s, <3>1, <3>2 DEF SeenOK
  <2>8. DoneOK(a, k + 1, b)'
    <3>1. \A n \in a .. k - 1 : \E j \in 1 .. Len(hpOut) : hpOut[j].seg = n
      BY <1>0, <1>1 DEF Working, DoneOK
    <3>2. \A n \in a .. (k + 1) - 1 : \E j \in 1 .. Len(hpOut') : hpOut'[j].seg = n
      <4>1. \A n \in a .. (k + 1) - 1 : n = k \/ n \in a .. k - 1
        BY <1>3
      <4>2. \A n \in a .. k - 1 : \E j \in 1 .. Len(hpOut') : hpOut'[j].seg = n
        <5>1. 1 .. Len(hpOut) \subseteq 1 .. Len(hpOut')
          BY <2>5
        <5> QED BY <2>5, <3>1, <5>1, Zenon
      <4>3. \E j \in 1 .. Len(hpOut') : hpOut'[j].seg = k
        BY <2>5
      <4> QED BY <4>1, <4>2, <4>3, Zenon
    <3>3. (k + 1) - 1 = k
      BY SMTT(20)
    <3>4. hpList'.map # Absent => hpMap' = hpList'.map
      BY <1>0, <1>1, <2>4 DEF Working, DoneOK
    <3>5. DOMAIN hpEnds' = DOMAIN hpEnds /\ hpPc' = "segment"
      BY <1>0, <2>2
    <3> QED BY <1>s, <2>3, <2>6, <3>2, <3>3, <3>4, <3>5 DEF DoneOK
  <2>9. HpTypeOK'
    BY <1>0, <1>s, <2>3, <2>2, <2>5, Zenon DEF HpTypeOK, SegTotal
  <2>10. Working(a, k + 1, b)'
    BY <2>4, <2>7, <2>8 DEF Working
  <2> QED BY <2>4, <2>5, <2>9, <2>10 DEF HpInv
<1> QED BY <1>4, <1>5

\* The other steps of the pull.
LEMMA HpStep == HpInv /\ [HpNext]_hpVars => HpInv'
<1> SUFFICES ASSUME HpInv, [HpNext]_hpVars PROVE HpInv'
  OBVIOUS
<1>0. HpTypeOK
  BY DEF HpInv
<1>1. CASE upstream_append
  <2>0. /\ hpUp.lo \in Nat /\ hpUp.hi \in Nat /\ hpUp.lo <= hpUp.hi /\ PlaylistWindow \in Nat /\ PlaylistWindow >= 1
        /\ SegTotal \in Nat /\ 1 <= hpUp.lo
    BY <1>0, HlsUpstreams, PlanFacts DEF HpTypeOK
  <2> DEFINE c == hpUp.hi + 2 - PlaylistWindow
             m == Max({hpUp.lo, c})
  <2>1. m \in {hpUp.lo, c} /\ m >= hpUp.lo
    <3>1. c \in Int /\ hpUp.lo \in Int
      BY <2>0
    <3>2. \A x, y \in Int : Max({x, y}) \in {x, y} /\ Max({x, y}) >= x
      BY MaxOfTwo
    <3> HIDE DEF c
    <3> QED BY <3>1, <3>2, Zenon
  <2>2. hpUp' = [hpUp EXCEPT !.hi = hpUp.hi + 1, !.lo = m] /\ hpUp.hi < SegTotal
    BY <1>1 DEF upstream_append
  <2> HIDE DEF m
  <2>3. m \in Nat /\ hpUp.lo <= m /\ m <= hpUp.hi + 1
    BY <2>0, <2>1
  <2>4. hpUp' \in [lo : Nat, hi : Nat, ended : BOOLEAN] /\ hpUp'.lo = m /\ hpUp'.hi = hpUp.hi + 1
    <3>1. hpUp.hi + 1 \in Nat /\ hpUp \in [lo : Nat, hi : Nat, ended : BOOLEAN]
      BY <1>0, <2>0 DEF HpTypeOK
    <3> QED BY <2>2, <2>3, <3>1, Zenon
  <2>5. hpUp.hi <= hpUp'.hi /\ hpUp'.hi <= SegTotal
    BY <2>0, <2>2, <2>4
  <2> QED BY <1>1, <2>3, <2>4, <2>5, SameWork, Zenon DEF upstream_append
<1>2. CASE upstream_end
  <2>1. /\ hpUp' \in [lo : Nat, hi : Nat, ended : BOOLEAN] /\ hpUp'.lo = hpUp.lo /\ hpUp'.hi = hpUp.hi
    BY <1>0, <1>2, Zenon DEF upstream_end, HpTypeOK
  <2> QED BY <1>0, <1>2, <2>1, SameWork DEF upstream_end, HpTypeOK
<1>3. CASE stop_request \/ hp_wake \/ fetch_fails \/ UNCHANGED hpVars
  <2>1. /\ UNCHANGED <<hpPlan, hpUp, hpList, hpEnds, hpSeen, hpMap, hpOut, hpClears>>
        /\ hpPc' = hpPc \/ hpPc' \in {"open", "done", "failed"}
        /\ hpPc = "failed" => hpPc' = "failed"
    BY <1>3 DEF stop_request, hp_wake, fetch_fails, hp_fail, hpVars
  <2>2. /\ hpUp \in [lo : Nat, hi : Nat, ended : BOOLEAN]
        /\ hpUp.lo <= hpUp.lo /\ hpUp.lo <= hpUp.hi /\ hpUp.hi <= hpUp.hi /\ hpUp.hi <= SegTotal
    BY <1>0 DEF HpTypeOK
  <2> QED BY <2>1, <2>2, SameWork, Zenon
<1>4. CASE load_map
  <2>0. /\ UNCHANGED <<hpPlan, hpUp, hpList, hpEnds, hpSeen, hpOut, hpClears>>
        /\ hpPc = "map" /\ hpPc' = "segment" /\ hpMap' \in {hpMap, hpList.map}
        /\ hpList.map # Absent => hpMap' = hpList.map
    BY <1>4 DEF load_map, needs_map
  <2>1. PICK a \in Nat, k \in Nat, b \in Nat : Working(a, k, b)
    BY <2>0, Zenon DEF HpInv, Unlisted
  <2>2. Listed(a, k, b)'
    <3>1. \A i : Entry(a, i)' = Entry(a, i)
      BY <2>0 DEF Entry, UpSegment, media_sequence
    <3>2. Entries(a)' = Entries(a)
      BY <2>0, <3>1, Zenon DEF Entries, Segments, SegTotal
    <3> QED BY <2>0, <2>1, <3>1, <3>2, Zenon DEF Working, Listed
  <2>3. SeenOK(a)'
    BY <2>0, <2>1, Zenon DEF Working, SeenOK, SeenId, UpSegment
  <2>4. DoneOK(a, k, b)'
    <3>1. a .. k - 1 = {}
      <4>1. k = a /\ a \in Nat
        BY <2>0, <2>1, Zenon DEF Working, DoneOK, Listed
      <4> QED BY ONLY <4>1
    <3> QED BY <2>0, <2>1, <3>1, Zenon DEF Working, DoneOK, EndOK
  <2>5. hpMap' \in MapsListed
    BY <1>0, <2>0, <2>1 DEF Working, Listed, HpTypeOK
  <2>6. Working(a, k, b)'
    BY <2>2, <2>3, <2>4 DEF Working
  <2>7. hpClears \in Nat /\ hpClears >= hpClears
    <3>1. hpClears \in Nat
      BY <1>0, Zenon DEF HpTypeOK
    <3> QED BY ONLY <3>1
  <2> QED BY <1>0, <2>0, <2>5, <2>6, <2>7, SameOutput, Zenon DEF HpTypeOK
<1>5. CASE list_done
  <2>0. /\ UNCHANGED <<hpPlan, hpUp, hpList, hpEnds, hpMap, hpOut>>
        /\ hpPc = "segment" /\ hpPc' \in {"done", "sleep"} /\ hpList.segs = << >>
        /\ \/ hpSeen' = {} /\ hpClears' = hpClears + 1
           \/ UNCHANGED <<hpSeen, hpClears>>
    BY <1>5, Zenon DEF list_done
  <2>1. PICK a \in Nat, k \in Nat, b \in Nat : Working(a, k, b)
    BY <2>0, Zenon DEF HpInv, Unlisted
  <2>2. Listed(a, k, b)' /\ k = b + 1
    <3>1. \A i : Entry(a, i)' = Entry(a, i)
      BY <2>0, Zenon DEF Entry, UpSegment, media_sequence
    <3>2. Entries(a)' = Entries(a)
      BY <2>0, <3>1, Zenon DEF Entries, Segments, SegTotal
    <3>3. k = b + 1
      BY <2>0, <2>1 DEF Working, Listed
    <3> QED BY <2>0, <2>1, <3>1, <3>2, <3>3, Zenon DEF Working, Listed
  <2>3. SeenOK(a)'
    <3>1. CASE UNCHANGED <<hpSeen, hpClears>>
      BY <2>0, <2>1, <3>1, Zenon DEF Working, SeenOK, SeenId, UpSegment
    <3>2. CASE hpSeen' = {} /\ hpClears' = hpClears + 1
      <4>1. \A j \in 1 .. Len(hpOut) : hpOut[j].era # hpClears + 1
        BY <1>0, OutTyped DEF HpInv, OutOK, HpTypeOK
      <4> QED BY <2>0, <3>2, <4>1, Zenon DEF SeenOK
    <3> QED BY <2>0, <3>1, <3>2, Zenon
  <2>4. DoneOK(a, k, b)'
    BY <2>0, <2>1, <2>2 DEF Working, DoneOK
  <2>5. Working(a, k, b)'
    BY <2>2, <2>3, <2>4, Zenon DEF Working
  <2>6. hpClears' \in Nat /\ hpClears' >= hpClears
    BY <1>0, <2>0 DEF HpTypeOK
  <2> QED BY <1>0, <2>0, <2>5, <2>6, SameOutput, Zenon DEF HpTypeOK
<1> QED BY <1>1, <1>2, <1>3, <1>4, <1>5, PlaylistStep, SegmentStep DEF HpNext

\* Every listed segment is demuxed, once between two clearings of `seen`, in order,
\* from its own bytes, with its own key and IV and the init segment of its playlist,
\* for every upstream that lists no bytes twice, however its window moves between two
\* polls and whatever request fails (pull_hls of http/src/pull_client.rs).
THEOREM HlsTheorem == HpSpec => []HlsExact
<1>1. HpInv => HlsExact
  <2> SUFFICES ASSUME HpInv PROVE HlsNoneSkipped
    BY DEF HpInv, HlsExact
  <2>1. SUFFICES ASSUME hpPc = "sleep" PROVE hpList.all \subseteq {hpOut[i].seg : i \in 1 .. Len(hpOut)}
    BY DEF HlsNoneSkipped
  <2>2. PICK a \in Nat, k \in Nat, b \in Nat : Working(a, k, b)
    BY <2>1, Zenon DEF HpInv, Unlisted
  <2>3. hpList.all = a .. b /\ k = b + 1 /\ \A n \in a .. k - 1 : \E j \in 1 .. Len(hpOut) : hpOut[j].seg = n
    BY <2>1, <2>2, Zenon DEF Working, Listed, DoneOK
  <2>4. b = k - 1
    BY <2>3
  <2> QED BY <2>3, <2>4
<1> QED BY <1>1, HpStart, HpStep, PTL DEF HpSpec

-----------------------------------------------------------------------------
(* The ports on which RTP is received. *)

PortsSpec == PortsInit /\ [][PortsNext]_portVars

Ports == 0 .. PortSpace - 1

TaskStates == {"none", "start", "recv", "accept", "connect", "stream", "length", "packet", "ended"}

PortsTypeOK ==
  /\ opens \in OpenPlans
  /\ nextPort \in Ports
  /\ inner \in [Ports -> Receivers \cup {0}]
  /\ callPc \in [Receivers -> {"idle", "binding", "open", "failed"}]
  /\ portOf \in [Receivers -> Ports \cup {-1}]
  /\ taskPc \in [Receivers -> TaskStates]
  /\ shutdown \in [Receivers -> BOOLEAN]
  /\ ingested \in [Receivers -> Nat]

\* A call settles on a port before it binds, and has a task only afterwards.
CallOrder ==
  \A r \in Receivers :
    /\ callPc[r] = "idle" => portOf[r] = -1 /\ taskPc[r] = "none"
    /\ callPc[r] = "binding" \/ taskPc[r] # "none" => portOf[r] \in Ports

\* After a packet that came too late the task can only find out that it is closed.
TooLateIsLast ==
  \A r \in Receivers :
    ingested[r] = 0 \/ (ingested[r] = 1 /\ shutdown[r] /\ taskPc[r] \in {"start", "stream", "ended"})

\* The inductive invariant.
PortsInv == PortsTypeOK /\ CallOrder /\ UdpReceiverListed /\ TooLateIsLast

\* A step of a receiver's task that takes no packet.
LEMMA TaskStepKeeps ==
  ASSUME PortsInv, NEW r \in Receivers, NEW pc \in TaskStates \ {"none"}, GoTask(r, pc),
         taskPc[r] # "none", ingested[r] = 0 \/ pc \in {"start", "stream", "ended"},
         UNCHANGED <<opens, nextPort, inner, callPc, portOf, shutdown, ingested>>
  PROVE  PortsInv'
<1> USE DEF PortsInv, PortsTypeOK, GoTask
<1>1. PortsTypeOK'
  OBVIOUS
<1>2. CallOrder'
  BY DEF CallOrder
<1>3. UdpReceiverListed'
  BY DEF UdpReceiverListed, Mode
<1>4. TooLateIsLast'
  BY DEF TooLateIsLast
<1> QED BY <1>1, <1>2, <1>3, <1>4

\* A step of a receiver's task that takes one.
LEMMA IngestKeeps ==
  ASSUME PortsInv, NEW r \in Receivers, NEW pc \in {"start", "stream"}, GoTask(r, pc),
         taskPc[r] \in {"recv", "packet"}, Ingest(r),
         UNCHANGED <<opens, nextPort, inner, callPc, portOf, shutdown>>
  PROVE  PortsInv'
<1> USE DEF PortsInv, PortsTypeOK, GoTask, Ingest, TaskStates
<1>1. ingested[r] = 0
  BY DEF TooLateIsLast
<1>2. PortsTypeOK'
  BY <1>1
<1>3. CallOrder'
  BY DEF CallOrder
<1>4. UdpReceiverListed'
  BY DEF UdpReceiverListed, Mode
<1>5. TooLateIsLast'
  BY <1>1 DEF TooLateIsLast
<1> QED BY <1>2, <1>3, <1>4, <1>5

\* Every step of calls, tasks and closes keeps the invariant.
LEMMA PortsStep == PortsInv /\ [PortsNext]_portVars => PortsInv'
<1> SUFFICES ASSUME PortsInv, [PortsNext]_portVars PROVE PortsInv'
  OBVIOUS
<1> USE DEF PortsInv, PortsTypeOK
<1>0. /\ PortSpace \in Nat /\ PortSpace > 1 /\ DOMAIN inner = Ports
      /\ \A d \in Int : d % PortSpace \in Ports
      /\ \A r \in Receivers : opens[r].port \in Ports
  <2>1. PortSpace \in Nat /\ PortSpace > 1 /\ DOMAIN inner = Ports
    BY PortNumbers
  <2>2. \A d \in Int : d % PortSpace \in Ports
    BY <2>1 DEF Ports
  <2>3. \A r \in Receivers : opens[r].port \in Ports
    BY PortNumbers DEF Ports
  <2> QED BY <2>1, <2>2, <2>3
<1>1. ASSUME NEW r \in Receivers, open_with_mode(r) PROVE PortsInv'
  <2> DEFINE free == {p \in 1 .. PortSpace - 1 : inner[p] = 0}
  <2>1. /\ nextPort' \in Ports
        /\ \E p \in Ports : portOf' = [portOf EXCEPT ![r] = p]
        /\ \E c \in {"binding", "failed"} : callPc' = [callPc EXCEPT ![r] = c]
    <3>1. CASE opens[r].port = 0
      <4>1. PICK p \in free : /\ nextPort' = (p + 1) % PortSpace
                              /\ portOf' = [portOf EXCEPT ![r] = p]
                              /\ callPc' = [callPc EXCEPT ![r] = "binding"]
        BY <1>1, <3>1 DEF open_with_mode, alloc_port
      <4>2. p + 1 \in Int /\ p \in Ports
        BY <4>1, PortNumbers DEF Ports
      <4> HIDE DEF free
      <4> QED BY <4>1, <4>2, <1>0, Zenon
    <3>2. CASE opens[r].port # 0
      BY <1>1, <3>2, <1>0, Zenon DEF open_with_mode
    <3> QED BY <3>1, <3>2
  <2>2. callPc[r] = "idle" /\ taskPc[r] = "none" /\ portOf[r] = -1
    BY <1>1, Zenon DEF CallOrder, open_with_mode
  <2>0. UNCHANGED <<opens, inner, taskPc, shutdown, target, targetSent, ingested>>
    BY <1>1 DEF open_with_mode
  <2>3. PortsTypeOK'
    BY <2>0, <2>1
  <2> USE <1>1 DEF open_with_mode
  <2>4. CallOrder'
    BY <2>1, <2>2, Zenon DEF CallOrder
  <2>5. UdpReceiverListed'
    <3>1. \A q \in Receivers \ {r} : portOf'[q] = portOf[q]
      BY <2>1, Zenon
    <3>2. -1 \notin Ports
      BY <1>0 DEF Ports
    <3>3. \A q \in Receivers : taskPc[q] # "none" => portOf[q] # -1 /\ q # r
      BY <2>2, <3>2 DEF CallOrder
    <3>4. SUFFICES ASSUME NEW q \in Receivers, Mode(q) = "udp", taskPc[q] # "none", ~ shutdown[q],
                          \A o \in Receivers \ {q} : portOf'[o] = portOf'[q] => Mode(o) = "udp"
                   PROVE  inner[portOf'[q]] = q
      BY Zenon DEF UdpReceiverListed, Mode
    <3>5. q # r /\ portOf'[q] = portOf[q] /\ portOf[q] # -1
      BY <3>1, <3>3, <3>4, Zenon
    <3>6. \A o \in Receivers \ {q} : portOf[o] = portOf[q] => Mode(o) = "udp"
      BY <2>2, <3>1, <3>4, <3>5, Zenon
    <3> QED BY <3>4, <3>5, <3>6, Zenon DEF UdpReceiverListed
  <2>6. TooLateIsLast'
    BY Zenon DEF TooLateIsLast
  <2> QED BY <2>3, <2>4, <2>5, <2>6, Zenon
<1>2. ASSUME NEW r \in Receivers, open_bind(r) PROVE PortsInv'
  <2> USE <1>2 DEF open_bind
  <2>1. CASE CanBind(r) /\ GoTask(r, "start") /\ inner' = [inner EXCEPT ![portOf[r]] = r]
             /\ callPc' = [callPc EXCEPT ![r] = "open"]
    <3> USE <2>1 DEF GoTask
    <3>1. portOf[r] \in Ports
      BY DEF CallOrder
    <3>2. PortsTypeOK'
      BY <3>1 DEF TaskStates
    <3>3. CallOrder'
      BY <3>1 DEF CallOrder
    <3>4. UdpReceiverListed'
      <4> SUFFICES ASSUME NEW q \in Receivers,
                          Mode(q) = "udp", taskPc'[q] # "none", ~ shutdown[q],
                          \A x \in Receivers \ {q} : portOf[x] = portOf[q] => Mode(x) = "udp"
                   PROVE  inner'[portOf[q]] = q
        BY DEF UdpReceiverListed, Mode
      <4>1. CASE q = r
        BY <4>1, <3>1
      <4>2. CASE q # r
        <5>1. inner[portOf[q]] = q /\ taskPc[q] # "none"
          BY <4>2 DEF UdpReceiverListed
        <5>2. HoldsSocket(q)
          BY <5>1, Zenon DEF HoldsSocket
        <5>3. portOf[q] # portOf[r]
          BY <4>2, <5>2 DEF CanBind
        <5> QED BY <5>1, <5>3, <3>1
      <4> QED BY <4>1, <4>2, Zenon
    <3>5. TooLateIsLast'
      BY Zenon DEF TooLateIsLast
    <3> QED BY <3>2, <3>3, <3>4, <3>5, Zenon
  <2>2. CASE callPc' = [callPc EXCEPT ![r] = "failed"] /\ UNCHANGED <<inner, taskPc>>
    <3>1. PortsTypeOK' /\ CallOrder' /\ TooLateIsLast'
      BY <2>2 DEF CallOrder, TooLateIsLast
    <3>2. UdpReceiverListed'
      BY <2>2, Zenon DEF UdpReceiverListed, Mode
    <3> QED BY <3>1, <3>2, Zenon
  <2> QED BY <2>1, <2>2
<1>3. ASSUME NEW p \in DOMAIN inner, close_port(p) PROVE PortsInv'
  <2> USE <1>3, <1>0 DEF close_port
  <2>1. inner[p] \in Receivers
    BY Zenon
  <2>2. PortsTypeOK' /\ CallOrder'
    BY <2>1, Zenon DEF CallOrder
  <2>3. UdpReceiverListed'
    BY <2>1, Zenon DEF UdpReceiverListed, Mode, CallOrder
  <2>4. TooLateIsLast'
    BY <2>1 DEF TooLateIsLast
  <2> QED BY <2>2, <2>3, <2>4, Zenon
<1>4. ASSUME NEW r \in Receivers, connect_stream(r) \/ set_tcp_active_target(r) PROVE PortsInv'
  <2>1. UNCHANGED <<opens, nextPort, inner, callPc, portOf, taskPc, shutdown, ingested>>
    BY <1>4 DEF connect_stream, set_tcp_active_target
  <2>2. PortsTypeOK'
    BY <2>1
  <2>3. CallOrder' /\ TooLateIsLast'
    BY <2>1, Zenon DEF CallOrder, TooLateIsLast
  <2>4. UdpReceiverListed'
    BY <2>1 DEF UdpReceiverListed, Mode
  <2> QED BY <2>2, <2>3, <2>4
<1>5. ASSUME NEW r \in Receivers, run(r) PROVE PortsInv'
  <2>1. ingested[r] = 0 \/ shutdown[r]
    BY DEF TooLateIsLast
  <2>2. PICK pc \in TaskStates \ {"none"} : GoTask(r, pc) /\ (shutdown[r] => pc = "ended")
    BY <1>5 DEF run, shutdown_seen, TaskStates
  <2> QED BY <1>5, <2>1, <2>2, TaskStepKeeps, Zenon DEF run
<1>6. ASSUME NEW r \in Receivers, run_udp(r) PROVE PortsInv'
  BY <1>6, TaskStepKeeps, IngestKeeps, Zenon DEF run_udp, TaskStates
<1>7. ASSUME NEW r \in Receivers, run_tcp_passive(r) \/ run_tcp_active(r) PROVE PortsInv'
  BY <1>7, TaskStepKeeps, Zenon DEF run_tcp_passive, run_tcp_active, TaskStates
<1>8. ASSUME NEW r \in Receivers, read_tcp_stream(r) PROVE PortsInv'
  BY <1>8, TaskStepKeeps, Zenon DEF read_tcp_stream, shutdown_seen, TaskStates, TooLateIsLast
<1>9. ASSUME NEW r \in Receivers, read_length(r) PROVE PortsInv'
  BY <1>9, TaskStepKeeps DEF read_length, TaskStates, TooLateIsLast
<1>10. ASSUME NEW r \in Receivers, read_packet(r) PROVE PortsInv'
  BY <1>10, TaskStepKeeps, IngestKeeps, Zenon DEF read_packet, TaskStates
<1>11. CASE UNCHANGED portVars
  BY <1>11, Zenon DEF portVars, CallOrder, UdpReceiverListed, Mode, TooLateIsLast
<1> QED BY <1>1, <1>2, <1>3, <1>4, <1>5, <1>6, <1>7, <1>8, <1>9, <1>10, <1>11, Zenon DEF PortsNext, TimedStep

\* No port is open at first.
LEMMA PortsStart == PortsInit => PortsInv
<1> SUFFICES ASSUME PortsInit PROVE PortsInv
  OBVIOUS
<1>1. PortsTypeOK
  BY PortNumbers DEF PortsInit, PortsTypeOK, Ports, TaskStates
<1> QED BY <1>1 DEF PortsInit, PortsInv, CallOrder, UdpReceiverListed, TooLateIsLast

\* An open UDP receiver can always be closed, and a closed receiver takes at most
\* the packet it was waiting for: for any number of ports and of calls.
THEOREM ReceiversTheorem == PortsSpec => []ReceiversAccounted
<1>1. PortsInv => ReceiversAccounted
  BY DEF PortsInv, TooLateIsLast, ReceiversAccounted, ClosedStopsPublishing
<1> QED BY <1>1, PortsStart, PortsStep, PTL DEF PortsSpec

-----------------------------------------------------------------------------
(* The pipe of a transcode session. *)

TpSpec == TpInit /\ [][TpNext]_tpVars

Frames == Nat \ {0}

TpTypeOK ==
  /\ tpNext \in Frames
  /\ tpPc \in {"replay", "select", "feed", "ended"}
  /\ tpHeld \in Nat /\ tpBuf \in Nat
  /\ tpWriter \in Nat \cup {-1} /\ tpFf \in Nat \cup {-1} /\ tpReader \in Nat \cup {-1}
  /\ tpStdin \in Seq(Frames) /\ tpPipeIn \in Seq(Frames) /\ tpPipeOut \in Seq(Frames)
  /\ tpOut \in Seq(Frames) /\ tpDest \in Seq(Frames)

\* The session holds a frame only while it feeds; while ffmpeg lives, so do the
\* tasks at its pipes; the end of the session kills ffmpeg.
TpAlive ==
  /\ tpPc = "select" => tpHeld = 0
  /\ tpFf # -1 => tpWriter # -1 /\ tpReader # -1
  /\ tpPc = "ended" => tpFf = -1

\* The inductive invariant.
TpInv == TpTypeOK /\ TpAlive /\ TpConserved

\* One frame is a sequence of frames.
LEMMA OneSeq ==
  /\ \A x \in Nat \cup {-1} : One(x) \in Seq(Frames)
  /\ One(0) = <<>>
  /\ \A x \in Frames : One(x) = <<x>>
<1>1. One(0) = <<>>
  BY DEF One
<1>2. \A x \in Frames : One(x) = <<x>> /\ One(x) \in Seq(Frames)
  <2> SUFFICES ASSUME NEW x \in Frames PROVE One(x) = <<x>> /\ One(x) \in Seq(Frames)
    OBVIOUS
  <2>1. x > 0
    BY DEF Frames
  <2>2. <<x>> \in Seq(Frames)
    OBVIOUS
  <2> QED BY <2>1, <2>2 DEF One
<1>3. One(-1) = <<>>
  BY DEF One
<1>4. <<>> \in Seq(Frames)
  OBVIOUS
<1>5. \A x \in Nat \cup {-1} : x \in Frames \/ x = 0 \/ x = -1
  BY DEF Frames
<1> QED BY <1>1, <1>2, <1>3, <1>4, <1>5, Zenon

\* Rows of frames, put one after the other.
LEMMA JoinFrames ==
  /\ \A a \in Seq(Frames) : a \o << >> = a
  /\ \A a, b, c \in Seq(Frames) : (a \o b) \o c = a \o (b \o c)
OBVIOUS

\* The head of a queue becomes what the next task holds.
LEMMA ShiftHead ==
  ASSUME NEW A \in Seq(Frames), NEW q \in Seq(Frames), q # <<>>
  PROVE  /\ Head(q) \in Frames /\ Tail(q) \in Seq(Frames)
         /\ A \o One(Head(q)) \o Tail(q) = A \o One(0) \o q
<1>1. Head(q) \in Frames /\ Tail(q) \in Seq(Frames) /\ q = <<Head(q)>> \o Tail(q)
  OBVIOUS
<1>2. One(Head(q)) = <<Head(q)>> /\ One(0) = <<>>
  BY <1>1, OneSeq
<1>3. A \o <<>> = A
  BY JoinFrames
<1>4. <<Head(q)>> \in Seq(Frames)
  BY <1>1
<1>5. A \o <<Head(q)>> \o Tail(q) = A \o (<<Head(q)>> \o Tail(q))
  BY <1>1, <1>4, JoinFrames
<1> QED BY <1>1, <1>2, <1>3, <1>5, Zenon

\* What a task holds becomes the end of the next queue.
LEMMA ShiftTail ==
  ASSUME NEW A \in Seq(Frames), NEW q \in Seq(Frames), NEW x \in Frames
  PROVE  /\ Append(q, x) \in Seq(Frames)
         /\ A \o Append(q, x) \o One(0) = A \o q \o One(x)
<1>1. One(x) = <<x>> /\ One(0) = <<>> /\ <<x>> \in Seq(Frames)
  BY OneSeq
<1>2. Append(q, x) = q \o <<x>> /\ Append(q, x) \in Seq(Frames)
  OBVIOUS
<1>3. A \o Append(q, x) \in Seq(Frames)
  BY <1>2
<1>4. A \o Append(q, x) \o <<>> = A \o Append(q, x)
  BY <1>3, JoinFrames
<1>5. A \o q \o <<x>> = A \o (q \o <<x>>)
  BY <1>1, JoinFrames
<1> QED BY <1>1, <1>2, <1>4, <1>5, Zenon

\* The next frame of the source goes to the end of the row.
LEMMA NextFrame ==
  ASSUME NEW A \in Seq(Frames), NEW n \in Frames, A \o One(0) = [i \in 1 .. n - 1 |-> i]
  PROVE  A \o One(n) = [i \in 1 .. (n + 1) - 1 |-> i]
<1>1. One(n) = <<n>> /\ One(0) = <<>>
  BY OneSeq
<1>2. A = [i \in 1 .. n - 1 |-> i]
  BY <1>1, JoinFrames, Zenon
<1>3. Len(A) = n - 1
  BY <1>2 DEF Frames
<1>4. A \o <<n>> = [i \in 1 .. n |-> IF i <= n - 1 THEN A[i] ELSE n]
  BY <1>3 DEF Frames
<1>5. [i \in 1 .. n |-> IF i <= n - 1 THEN A[i] ELSE n] = [i \in 1 .. n |-> i]
  BY <1>2 DEF Frames
<1>6. (n + 1) - 1 = n
  BY DEF Frames
<1> QED BY <1>1, <1>4, <1>5, <1>6, Zenon

\* The row of frames, cut at the places where the pumps stand.
Row1 == tpDest \o One(tpBuf) \o tpOut
Row2 == Row1 \o One(tpReader) \o tpPipeOut
Row3 == Row2 \o One(tpFf) \o tpPipeIn
Row4 == Row3 \o One(tpWriter) \o tpStdin

\* The rows together hold what the pipe has taken.
LEMMA Rows ==
  ASSUME TpTypeOK
  PROVE  /\ tpDest \o One(tpBuf) \in Seq(Frames)
         /\ Row1 \in Seq(Frames) /\ Row1 \o One(tpReader) \in Seq(Frames)
         /\ Row2 \in Seq(Frames) /\ Row2 \o One(tpFf) \in Seq(Frames)
         /\ Row3 \in Seq(Frames) /\ Row3 \o One(tpWriter) \in Seq(Frames)
         /\ Row4 \in Seq(Frames)
<1>1. /\ One(tpBuf) \in Seq(Frames) /\ One(tpReader) \in Seq(Frames)
      /\ One(tpFf) \in Seq(Frames) /\ One(tpWriter) \in Seq(Frames)
  BY OneSeq, Zenon DEF TpTypeOK
<1>2. tpDest \o One(tpBuf) \in Seq(Frames) /\ Row1 \in Seq(Frames)
  BY <1>1 DEF TpTypeOK, Row1
<1>3. Row1 \o One(tpReader) \in Seq(Frames) /\ Row2 \in Seq(Frames)
  BY <1>1, <1>2 DEF TpTypeOK, Row2
<1>4. Row2 \o One(tpFf) \in Seq(Frames) /\ Row3 \in Seq(Frames)
  BY <1>1, <1>3 DEF TpTypeOK, Row3
<1>5. Row3 \o One(tpWriter) \in Seq(Frames) /\ Row4 \in Seq(Frames)
  BY <1>1, <1>4 DEF TpTypeOK, Row4
<1> QED BY <1>2, <1>3, <1>4, <1>5

\* TpConserved says that the frames stand in one row.
LEMMA ConservedRow ==
  TpConserved <=> (tpFf # -1 /\ tpPc # "ended" => Row4 \o One(tpHeld) = [i \in 1 .. tpNext - 1 |-> i])
BY Zenon DEF TpConserved, Row1, Row2, Row3, Row4

\* Every step of the session, of the tasks and of ffmpeg keeps the invariant.
LEMMA TpStep == TpInv /\ [TpNext]_tpVars => TpInv'
<1> SUFFICES ASSUME TpInv, [TpNext]_tpVars PROVE TpInv'
  OBVIOUS
<1> USE DEF TpInv
<1>a. Row4 \o One(tpHeld) = [i \in 1 .. tpNext - 1 |-> i] \/ tpFf = -1 \/ tpPc = "ended"
  BY ConservedRow
<1>b. ASSUME tpFf' # -1 => /\ tpFf # -1 /\ tpPc # "ended" /\ tpNext' = tpNext
                           /\ Row4' \o One(tpHeld') = Row4 \o One(tpHeld)
      PROVE  TpConserved'
  <2>1. tpFf' # -1 => Row4' \o One(tpHeld') = [i \in 1 .. tpNext' - 1 |-> i]
    BY <1>a, <1>b, Zenon
  <2> QED BY <2>1 DEF TpConserved, Row1, Row2, Row3, Row4
<1>1. CASE tpPc # "ended" /\ replay_gop
  <2> USE <1>1 DEF replay_gop
  <2>1. TpTypeOK'
    BY DEF TpTypeOK, Frames
  <2>2. TpAlive'
    BY DEF TpAlive
  <2>3. CASE tpNext <= tpGop
    <3>1. UNCHANGED Row4
      BY DEF Row1, Row2, Row3, Row4
    <3>2. tpFf # -1 => Row4 \o One(tpNext) = [i \in 1 .. (tpNext + 1) - 1 |-> i]
      BY <1>a, Rows, NextFrame, Zenon DEF TpTypeOK
    <3>3. tpFf' # -1 => Row4' \o One(tpHeld') = [i \in 1 .. tpNext' - 1 |-> i]
      BY <3>1, <3>2, <2>3
    <3>4. TpConserved'
      BY <3>3 DEF TpConserved, Row1, Row2, Row3, Row4
    <3> QED BY <2>1, <2>2, <3>4
  <2>4. CASE ~ (tpNext <= tpGop)
    <3>1. UNCHANGED Row4
      BY DEF Row1, Row2, Row3, Row4
    <3> QED BY <2>1, <2>2, <2>4, <3>1, <1>b
  <2> QED BY <2>3, <2>4
<1>2. CASE tpPc # "ended" /\ select_frame
  <2> USE <1>2 DEF select_frame
  <2>1. TpTypeOK'
    BY DEF TpTypeOK, Frames
  <2>2. TpAlive' /\ tpHeld = 0
    BY DEF TpAlive
  <2>3. UNCHANGED Row4
    BY DEF Row1, Row2, Row3, Row4
  <2>4. tpFf # -1 => Row4 \o One(tpNext) = [i \in 1 .. (tpNext + 1) - 1 |-> i]
    BY <1>a, <2>2, Rows, NextFrame, Zenon DEF TpTypeOK
  <2>5. tpFf' # -1 => Row4' \o One(tpHeld') = [i \in 1 .. tpNext' - 1 |-> i]
    BY <2>3, <2>4
  <2>6. TpConserved'
    BY <2>5 DEF TpConserved, Row1, Row2, Row3, Row4
  <2> QED BY <2>1, <2>2, <2>6
<1>3. CASE tpPc # "ended" /\ tp_feed
  <2> USE <1>3 DEF tp_feed
  <2>1. tpHeld \in Frames
    BY DEF TpTypeOK, Frames
  <2>2. TpTypeOK' /\ TpAlive'
    BY <2>1 DEF TpTypeOK, TpAlive
  <2>3. CASE tpWriter # -1
    <3>1. UNCHANGED <<Row3, tpWriter>>
      BY DEF Row1, Row2, Row3
    <3>2. Row4' = Row3 \o One(tpWriter) \o Append(tpStdin, tpHeld)
      BY <2>3, <3>1 DEF Row4
    <3>3. Row4' \o One(tpHeld') = Row4 \o One(tpHeld)
      <4>1. Row3 \o One(tpWriter) \in Seq(Frames) /\ tpStdin \in Seq(Frames)
        BY Rows DEF TpTypeOK
      <4>2. Row4 \o One(tpHeld)
              = Row3 \o One(tpWriter) \o Append(tpStdin, tpHeld) \o One(0)
        BY <2>1, <4>1, ShiftTail, Zenon DEF Row4
      <4> QED BY <3>2, <4>2
    <3> QED BY <2>2, <3>3, <1>b
  <2>4. CASE tpWriter = -1
    <3>1. tpFf' = -1
      BY <2>4 DEF TpAlive
    <3> QED BY <2>2, <3>1, <1>b
  <2> QED BY <2>3, <2>4
<1>4. CASE tpPc # "ended" /\ select_output
  <2> USE <1>4 DEF select_output
  <2>1. Head(tpOut) \in Frames /\ Tail(tpOut) \in Seq(Frames)
    BY ShiftHead DEF TpTypeOK
  <2>2. emitted(Head(tpOut)) \in Seq(Frames) /\ emitted(Head(tpOut)) \o One(0) = tpDest \o One(tpBuf)
    <3>1. CASE tpBuf = 0
      BY <3>1 DEF emitted, TpTypeOK
    <3>2. CASE tpBuf # 0
      <4>1. tpBuf \in Frames
        BY <3>2 DEF TpTypeOK, Frames
      <4>0. tpDest \in Seq(Frames)
        BY DEF TpTypeOK
      <4>2. Append(tpDest, tpBuf) \in Seq(Frames) /\ Append(tpDest, tpBuf) = tpDest \o <<tpBuf>>
        BY <4>0, <4>1
      <4>3. Append(tpDest, tpBuf) \o <<>> = Append(tpDest, tpBuf)
        BY <4>2, JoinFrames, Zenon
      <4> QED BY <3>2, <4>1, <4>2, <4>3, OneSeq, Zenon DEF emitted
    <3> QED BY <3>1, <3>2, Zenon
  <2>3. TpTypeOK' /\ TpAlive'
    BY <2>1, <2>2 DEF TpTypeOK, TpAlive, Frames
  <2>4. Row1' = emitted(Head(tpOut)) \o One(Head(tpOut)) \o Tail(tpOut)
    BY DEF Row1
  <2>5. Row1' = emitted(Head(tpOut)) \o One(0) \o tpOut
    BY <2>2, <2>4, ShiftHead, Zenon DEF TpTypeOK
  <2>6. Row1' = Row1
    BY <2>2, <2>5, Zenon DEF Row1
  <2>7. Row4' = Row4
    BY <2>6 DEF Row2, Row3, Row4
  <2> QED BY <2>3, <2>7, <1>b
<1>5. CASE tpPc # "ended" /\ (session_ends \/ Breaks)
  <2>1. TpTypeOK' /\ TpAlive' /\ tpFf' = -1
    BY <1>5 DEF session_ends, Breaks, select_lagged, stop_session, TpTypeOK, TpAlive
  <2> QED BY <2>1, <1>b
<1>6. CASE tpPc # "ended" /\ writer_takes
  <2> USE <1>6 DEF writer_takes
  <2>1. Head(tpStdin) \in Frames /\ Tail(tpStdin) \in Seq(Frames)
    BY ShiftHead DEF TpTypeOK
  <2>2. TpTypeOK' /\ TpAlive'
    BY <2>1 DEF TpTypeOK, TpAlive, Frames
  <2>3. UNCHANGED Row3
    BY DEF Row1, Row2, Row3
  <2>4. Row4' = Row3 \o One(Head(tpStdin)) \o Tail(tpStdin)
    BY <2>3 DEF Row4
  <2>5. Row4' = Row4
    BY <2>4, Rows, ShiftHead, Zenon DEF TpTypeOK, Row4
  <2> QED BY <2>2, <2>5, <1>b
<1>7. CASE tpPc # "ended" /\ writer_writes
  <2> USE <1>7 DEF writer_writes
  <2>1. CASE tpFf = -1
    <3>1. TpTypeOK' /\ TpAlive'
      BY <2>1 DEF TpTypeOK, TpAlive
    <3> QED BY <2>1, <3>1, <1>b, Zenon
  <2>2. CASE tpFf # -1
    <3>1. tpWriter \in Frames
      BY DEF TpTypeOK, Frames
    <3>2. TpTypeOK' /\ TpAlive'
      <4>1. Append(tpPipeIn, tpWriter) \in Seq(Frames)
        BY <3>1 DEF TpTypeOK
      <4>2. tpPipeIn' \in Seq(Frames) /\ tpWriter' = 0 /\ UNCHANGED tpStdin
        BY <2>2, <4>1
      <4>3. TpTypeOK'
        BY <4>2 DEF TpTypeOK
      <4>4. TpAlive'
        BY <4>2 DEF TpAlive
      <4> QED BY <4>3, <4>4
    <3>3. UNCHANGED Row2
      BY DEF Row1, Row2
    <3>4. Row3' \o One(tpWriter') = Row2 \o One(tpFf) \o Append(tpPipeIn, tpWriter) \o One(0)
      BY <2>2, <3>3, Zenon DEF Row3
    <3>5. Row3' \o One(tpWriter') = Row3 \o One(tpWriter)
      <4>1. Row2 \o One(tpFf) \in Seq(Frames) /\ tpPipeIn \in Seq(Frames)
        BY Rows DEF TpTypeOK
      <4> QED BY <3>1, <3>4, <4>1, ShiftTail, Zenon DEF Row3
    <3>6. Row4' = Row4
      BY <2>2, <3>5 DEF Row4
    <3> QED BY <3>2, <3>6, <2>2, <1>b
  <2> QED BY <2>1, <2>2
<1>8. CASE tpPc # "ended" /\ ffmpeg_reads
  <2> USE <1>8 DEF ffmpeg_reads
  <2>1. Head(tpPipeIn) \in Frames /\ Tail(tpPipeIn) \in Seq(Frames)
    BY ShiftHead DEF TpTypeOK
  <2>2. TpTypeOK' /\ TpAlive'
    BY <2>1 DEF TpTypeOK, TpAlive, Frames
  <2>3. UNCHANGED Row2
    BY DEF Row1, Row2
  <2>4. Row3' = Row2 \o One(Head(tpPipeIn)) \o Tail(tpPipeIn)
    BY <2>3 DEF Row3
  <2>5. Row3' = Row3
    BY <2>4, Rows, ShiftHead, Zenon DEF TpTypeOK, Row3
  <2>6. Row4' = Row4
    BY <2>5 DEF Row4
  <2> QED BY <2>2, <2>6, <1>b
<1>9. CASE tpPc # "ended" /\ ffmpeg_writes
  <2> USE <1>9 DEF ffmpeg_writes
  <2>1. tpFf \in Frames
    BY DEF TpTypeOK, Frames
  <2>2. TpTypeOK' /\ TpAlive'
    BY <2>1 DEF TpTypeOK, TpAlive, Frames
  <2>3. UNCHANGED Row1
    BY DEF Row1
  <2>4. Row2' \o One(tpFf') = Row1 \o One(tpReader) \o Append(tpPipeOut, tpFf) \o One(0)
    BY <2>3 DEF Row2
  <2>5. Row2' \o One(tpFf') = Row2 \o One(tpFf)
    <3>1. Row1 \o One(tpReader) \in Seq(Frames) /\ tpPipeOut \in Seq(Frames)
      BY Rows DEF TpTypeOK
    <3> QED BY <2>1, <2>4, <3>1, ShiftTail, Zenon DEF Row2
  <2>6. Row3' = Row3
    BY <2>5, Zenon DEF Row3
  <2>7. Row4' = Row4
    BY <2>6, Zenon DEF Row4
  <2> QED BY <2>1, <2>2, <2>7, <1>b DEF Frames
<1>10. CASE tpPc # "ended" /\ ffmpeg_dies
  <2>1. TpTypeOK' /\ TpAlive' /\ tpFf' = -1
    BY <1>10, Zenon DEF ffmpeg_dies, TpTypeOK, TpAlive
  <2> QED BY <2>1, <1>b
<1>11. CASE tpPc # "ended" /\ reader_reads
  <2> USE <1>11 DEF reader_reads
  <2>1. CASE tpPipeOut # <<>>
    <3>1. Head(tpPipeOut) \in Frames /\ Tail(tpPipeOut) \in Seq(Frames)
      BY <2>1, ShiftHead DEF TpTypeOK
    <3>2. tpReader' \in Frames /\ tpReader' # -1 /\ UNCHANGED tpWriter
      BY <2>1, <3>1 DEF Frames
    <3>2a. TpTypeOK' /\ TpAlive'
      BY <2>1, <3>1, <3>2, Zenon DEF TpTypeOK, TpAlive, Frames
    <3>3. UNCHANGED Row1
      BY DEF Row1
    <3>4. Row2' = Row1 \o One(Head(tpPipeOut)) \o Tail(tpPipeOut)
      BY <2>1, <3>3, Zenon DEF Row2
    <3>5. Row2' = Row2
      BY <2>1, <3>4, Rows, ShiftHead, Zenon DEF TpTypeOK, Row2
    <3>6. Row4' = Row4
      BY <2>1, <3>5 DEF Row3, Row4
    <3> QED BY <3>2a, <3>6, <1>b, Zenon
  <2>2. CASE tpPipeOut = <<>>
    <3>1. TpTypeOK' /\ TpAlive' /\ tpFf' = -1
      BY <2>2 DEF TpTypeOK, TpAlive
    <3> QED BY <3>1, <1>b, Zenon
  <2> QED BY <2>1, <2>2
<1>12. CASE tpPc # "ended" /\ reader_sends
  <2> USE <1>12 DEF reader_sends
  <2>1. tpReader \in Frames
    BY DEF TpTypeOK, Frames
  <2>2. TpTypeOK' /\ TpAlive'
    BY <2>1 DEF TpTypeOK, TpAlive, Frames
  <2>3. Row1' \o One(tpReader') = tpDest \o One(tpBuf) \o Append(tpOut, tpReader) \o One(0)
    BY DEF Row1
  <2>4. Row1' \o One(tpReader') = Row1 \o One(tpReader)
    <3>1. tpDest \o One(tpBuf) \in Seq(Frames) /\ tpOut \in Seq(Frames)
      BY Rows DEF TpTypeOK
    <3> QED BY <2>1, <2>3, <3>1, ShiftTail, Zenon DEF Row1
  <2>5. Row2' = Row2
    BY <2>4, Zenon DEF Row2
  <2>6. Row4' = Row4
    BY <2>5, Zenon DEF Row3, Row4
  <2> QED BY <2>2, <2>6, <1>b
<1>13. CASE source_closes \/ UNCHANGED tpVars
  <2>1. UNCHANGED <<tpNext, tpPc, tpHeld, tpStdin, tpWriter, tpPipeIn, tpFf, tpPipeOut, tpReader,
                    tpOut, tpBuf, tpDest>>
    BY <1>13 DEF source_closes, tpVars
  <2> QED BY <2>1 DEF TpTypeOK, TpAlive, TpConserved
<1> QED BY <1>1, <1>2, <1>3, <1>4, <1>5, <1>6, <1>7, <1>8, <1>9, <1>10, <1>11, <1>12, <1>13
        DEF TpNext, Session, Pumps, Ffmpeg

\* Nothing has been read at first.
LEMMA TpStart == TpInit => TpInv
<1> SUFFICES ASSUME TpInit PROVE TpInv
  OBVIOUS
<1>1. TpTypeOK /\ TpAlive
  BY DEF TpInit, TpTypeOK, TpAlive, Frames
<1>2. One(0) = <<>> /\ <<>> \o <<>> = <<>>
  BY OneSeq
<1>3. TpConserved
  BY <1>2 DEF TpInit, TpConserved
<1> QED BY <1>1, <1>3 DEF TpInv

\* Whatever the lengths of the channels, pipes and GOP, no frame is lost, doubled
\* or overtaken on its way through a living ffmpeg.
THEOREM TpConservedTheorem == TpSpec => []TpConserved
<1>1. TpInv => TpConserved
  BY DEF TpInv
<1> QED BY <1>1, TpStart, TpStep, PTL DEF TpSpec

=============================================================================
