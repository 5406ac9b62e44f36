------------------------------ MODULE HlsPull ------------------------------
(***************************************************************************)
(* Pulling an HLS stream: pull_hls of crates/http/src/pull_client.rs and   *)
(* the playlist it reads.  The upstream appends segments to a sliding      *)
(* window and drops old ones while the puller works through the playlist   *)
(* it fetched; a segment that is gone by then, or any other request that   *)
(* fails, ends the pull.                                                   *)
(*                                                                         *)
(* A segment is a number; hpSegs gives its resource, its byte range in it, *)
(* the key it is encrypted with and the map (init segment) it needs.       *)
(***************************************************************************)
EXTENDS Integers, Sequences, FiniteSetsExt

CONSTANTS
  HlsPlans,     \* [segs, master]: the segments the upstream produces, in order
  PlaylistWindow,       \* segments the upstream lists
  FirstSequence,\* EXT-X-MEDIA-SEQUENCE of the first segment
  SeenLimit,    \* entries `seen` may hold before it is cleared (4096)
  MaxClears     \* bound: times `seen` is cleared before the last poll

\* What an upstream may list: no two segments are the same bytes, and a range that
\* comes without its offset follows on the last one of its resource.
ASSUME HlsUpstreams ==
  /\ PlaylistWindow \in Nat \ {0} /\ FirstSequence \in Nat
  /\ \A p \in HlsPlans :
       /\ Len(p.segs) \in Nat \ {0}
       /\ \A i \in 1 .. Len(p.segs) : p.segs[i].start \in Nat /\ p.segs[i].length \in Nat
       /\ \A i, j \in 1 .. Len(p.segs) :
            i < j /\ p.segs[i].uri = p.segs[j].uri =>
              /\ p.segs[i].length # p.segs[j].length
                   \/ (p.segs[i].length > 0 /\ p.segs[i].start # p.segs[j].start)
              /\ \/ p.segs[j].explicit \/ p.segs[i].length = 0 \/ p.segs[j].length = 0
                 \/ \E m \in i + 1 .. j - 1 : p.segs[m].uri = p.segs[j].uri
                 \/ p.segs[j].start = p.segs[i].start + p.segs[i].length

Absent == "none"

VARIABLES
  hpPlan,
  hpUp,         \* the upstream: [lo, hi, ended]
  hpPc,         \* "open", "parse", "map", "segment", "sleep", "done", "failed"
  hpMaster,     \* the next playlist is the master playlist
  hpList,       \* PlaylistEntries: segments still to do, init_map, end_list
  hpEnds,       \* range_ends
  hpSeen,       \* seen
  hpMap,        \* current_map_url, with the demuxer parsed from it
  hpOut,        \* segments demuxed: [seg, start, length, key, iv, map, listed]
  hpClears,     \* times `seen` was cleared
  hpStopped     \* stop requested

hpVars == <<hpPlan, hpUp, hpPc, hpMaster, hpList, hpEnds, hpSeen, hpMap, hpOut, hpClears, hpStopped>>

NoList == [segs |-> <<>>, all |-> {}, map |-> Absent, end |-> FALSE]

HpInit ==
  /\ hpPlan \in HlsPlans
  /\ hpUp = [lo |-> 1, hi |-> 1, ended |-> FALSE]
  /\ hpPc = "open"
  /\ hpMaster = hpPlan.master
  /\ hpList = NoList
  /\ hpEnds = [u \in {hpPlan.segs[i].uri : i \in 1 .. Len(hpPlan.segs)} |-> -1]
  /\ hpSeen = {}
  /\ hpMap = Absent
  /\ hpOut = <<>>
  /\ hpClears = 0
  /\ hpStopped = FALSE

-----------------------------------------------------------------------------
(* The upstream (external).  It gives the offset of a byte range at the    *)
(* head of the list, and may leave it out after.                           *)

SegTotal == Len(hpPlan.segs)

upstream_append ==
  /\ hpUp.hi < SegTotal
  /\ hpUp' = [hpUp EXCEPT !.hi = @ + 1, !.lo = Max({@, hpUp.hi + 2 - PlaylistWindow})]
  /\ UNCHANGED <<hpPlan, hpPc, hpMaster, hpList, hpEnds, hpSeen, hpMap, hpOut, hpClears, hpStopped>>

upstream_end ==
  /\ hpUp.hi = SegTotal /\ ~hpUp.ended
  /\ hpUp' = [hpUp EXCEPT !.ended = TRUE]
  /\ UNCHANGED <<hpPlan, hpPc, hpMaster, hpList, hpEnds, hpSeen, hpMap, hpOut, hpClears, hpStopped>>

stop_request ==
  /\ ~hpStopped
  /\ hpStopped' = TRUE
  /\ UNCHANGED <<hpPlan, hpUp, hpPc, hpMaster, hpList, hpEnds, hpSeen, hpMap, hpOut, hpClears>>

\* The true place of a segment's bytes.
UpSegment(n) == hpPlan.segs[n]

-----------------------------------------------------------------------------
(* playlist_entries. *)

\* The number of a segment counts from EXT-X-MEDIA-SEQUENCE.
media_sequence(i) == FirstSequence + (i - 1)

\* A key and a byte range are those of the last tag before the segment.
segment_entry(i) ==
  [seg |-> i, uri |-> UpSegment(i).uri, length |-> UpSegment(i).length,
   offset |-> IF UpSegment(i).length > 0 /\ (i = hpUp.lo \/ UpSegment(i).explicit)
              THEN UpSegment(i).start ELSE -1,
   key |-> UpSegment(i).key, iv |-> UpSegment(i).iv, sequence |-> media_sequence(i)]

\* One init_map is kept of all in the playlist, the last.
playlist_entries ==
  [segs |-> [k \in 1 .. hpUp.hi - hpUp.lo + 1 |-> segment_entry(hpUp.lo + k - 1)],
   all |-> hpUp.lo .. hpUp.hi, map |-> UpSegment(hpUp.hi).map, end |-> hpUp.ended]

-----------------------------------------------------------------------------
(* pull_hls. *)

hp_fail == hpPc' = "failed"

\* The flag is looked at before each playlist, which may be the master one.
open_playlist ==
  /\ hpPc = "open"
  /\ IF hpStopped
     THEN hpPc' = "done" /\ UNCHANGED <<hpMaster, hpList, hpEnds>>
     ELSE IF hpMaster
     THEN hpMaster' = FALSE /\ UNCHANGED <<hpPc, hpList, hpEnds>>
     ELSE /\ hpList' = playlist_entries
          /\ hpEnds' = [u \in DOMAIN hpEnds |-> -1]
          /\ hpPc' = "map"
          /\ UNCHANGED hpMaster
  /\ UNCHANGED <<hpPlan, hpUp, hpSeen, hpMap, hpOut, hpClears, hpStopped>>

\* An init segment is fetched and parsed when it is not the one in use.
needs_map == hpList.map # Absent /\ hpMap # hpList.map

load_map ==
  /\ hpPc = "map"
  /\ hpMap' = IF needs_map THEN hpList.map ELSE hpMap
  /\ hpPc' = "segment"
  /\ UNCHANGED <<hpPlan, hpUp, hpMaster, hpList, hpEnds, hpSeen, hpOut, hpClears, hpStopped>>

\* A range without an offset starts where the last one of the resource ended.
start_of_range(e) == IF e.offset >= 0 THEN e.offset ELSE hpEnds[e.uri]

\* Mutant: segments are told apart by their resource alone.
dedup_url(e, start) == <<e.uri, 0, 0>>

\* What `seen` remembers of a segment.
dedup_key(e, start) == <<e.uri, start, e.length>>

\* The key is fetched once per URI; the IV is the tag's or the sequence number.
decrypt_iv(e) == IF e.key = Absent THEN Absent
                 ELSE IF e.iv # Absent THEN e.iv ELSE e.sequence

range_ends(e, start) == IF e.length > 0 THEN start + e.length ELSE -1

\* One segment of the list, which the upstream may have dropped and still serve.
next_segment ==
  /\ hpPc = "segment"
  /\ hpList.segs # <<>>
  /\ LET e == Head(hpList.segs)
         start == IF e.length > 0 THEN start_of_range(e) ELSE 0
         id == dedup_key(e, start)
         new == id \notin hpSeen
     IN IF start < 0
        THEN hp_fail /\ UNCHANGED <<hpList, hpEnds, hpSeen, hpOut>>
        ELSE /\ hpEnds' = [hpEnds EXCEPT ![e.uri] = range_ends(e, start)]
             /\ hpSeen' = hpSeen \cup {id}
             /\ hpList' = [hpList EXCEPT !.segs = Tail(@)]
             /\ hpOut' = IF new
                         THEN Append(hpOut, [seg |-> e.seg, start |-> start, length |-> e.length,
                                             key |-> e.key, iv |-> decrypt_iv(e), map |-> hpMap,
                                             listed |-> hpList.map, era |-> hpClears])
                         ELSE hpOut
             /\ UNCHANGED hpPc
  /\ UNCHANGED <<hpPlan, hpUp, hpMaster, hpMap, hpClears, hpStopped>>

\* After the last segment: stop at EXT-X-ENDLIST, else forget `seen` when it
\* has grown past its limit, and sleep.
list_done ==
  /\ hpPc = "segment"
  /\ hpList.segs = <<>>
  /\ hpPc' = IF hpList.end THEN "done" ELSE "sleep"
  /\ IF ~hpList.end /\ Cardinality(hpSeen) > SeenLimit
     THEN hpSeen' = {} /\ hpClears' = hpClears + 1
     ELSE UNCHANGED <<hpSeen, hpClears>>
  /\ UNCHANGED <<hpPlan, hpUp, hpMaster, hpList, hpEnds, hpMap, hpOut, hpStopped>>

hp_wake ==
  /\ hpPc = "sleep"
  /\ hpPc' \in {"open"} \cup (IF hpStopped THEN {"done"} ELSE {})
  /\ UNCHANGED <<hpPlan, hpUp, hpMaster, hpList, hpEnds, hpSeen, hpMap, hpOut, hpClears, hpStopped>>

\* Any request may fail, that for a segment that is gone too, and with it the pull.
fetch_fails ==
  /\ hpPc \in {"open", "map", "segment"}
  /\ hp_fail
  /\ UNCHANGED <<hpPlan, hpUp, hpMaster, hpList, hpEnds, hpSeen, hpMap, hpOut, hpClears, hpStopped>>

HpNext ==
  \/ upstream_append
  \/ upstream_end
  \/ stop_request
  \/ hpClears <= MaxClears /\ open_playlist
  \/ load_map
  \/ next_segment
  \/ list_done
  \/ hp_wake
  \/ fetch_fails

-----------------------------------------------------------------------------
(* Properties. *)

\* Between two clearings of `seen`, segments are demuxed in the order of the
\* upstream and none twice, however the window slides between two polls.
HlsOnce ==
  \A i, j \in 1 .. Len(hpOut) :
    i < j /\ hpOut[i].era = hpOut[j].era => hpOut[i].seg < hpOut[j].seg

\* When the puller is through with a playlist, every segment of it has been
\* demuxed: none is taken for one already seen because it shares a resource.
HlsNoneSkipped ==
  hpPc = "sleep" => hpList.all \subseteq {hpOut[i].seg : i \in 1 .. Len(hpOut)}

\* What demuxing the upstream's segment s should give.
HlsRight(o, s) ==
  /\ o.length = s.length
  /\ s.length > 0 => o.start = s.start
  /\ o.key = s.key
  /\ s.key # Absent => o.iv = (IF s.iv # Absent THEN s.iv ELSE FirstSequence + o.seg - 1)
  /\ o.listed # Absent => o.map = o.listed

\* Each segment is read from its own bytes and decrypted with its own key and
\* IV, whichever of the earlier ones of its resource were skipped as seen and
\* however far the window has moved; and it is demuxed with the init segment of
\* the playlist it was listed in.
HlsSegmentExact == \A i \in 1 .. Len(hpOut) : HlsRight(hpOut[i], UpSegment(hpOut[i].seg))

\* Every listed segment is demuxed, once, in order, from its own bytes.
HlsExact == HlsOnce /\ HlsNoneSkipped /\ HlsSegmentExact
=============================================================================
