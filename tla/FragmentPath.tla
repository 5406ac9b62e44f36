---------------------------- MODULE FragmentPath ----------------------------
(***************************************************************************)
(* Fragmented MP4: crates/mp4/src/fmp4.rs turns frames into one init       *)
(* segment and a row of media segments (moof with one traf per track, then *)
(* mdat); crates/mp4/src/fragmented_demuxer.rs, used by the HLS pull       *)
(* client, reads them back.                                                *)
(*                                                                         *)
(* A byte of a sample is <<frame number, index>>.  The sizes of the boxes  *)
(* in a moof are the real ones: the data offset of a trun depends on them. *)
(***************************************************************************)
EXTENDS Integers, Sequences, SequencesExt, FiniteSetsExt, TLC

CONSTANTS
  FragFrames,     \* the frames a source may send, with the step of its clock
  MaxFragFrames,  \* bound: frames sent
  MaxSegments     \* bound: media segments

VARIABLES
  fragLog,        \* the frames pushed, with their times
  fragMux,        \* Fmp4Muxer
  fragInit,       \* the tracks of the init segment a client holds, or NoInit
  fragSegs,       \* the media segments, with the frames numbers they end at
  fragOut         \* what demux_fragment made of each segment

fragVars == <<fragLog, fragMux, fragInit, fragSegs, fragOut>>

NoInit == {[id |-> 0]}
Scale == 90000
StypLen == 24
MediaKinds == {"v", "a"}
TrackId(t) == IF t = "v" THEN 1 ELSE 2

FragInit ==
  /\ fragLog = <<>>
  /\ fragMux = [base |-> -1, codec |-> [t \in MediaKinds |-> "none"],
                cfg |-> [t \in MediaKinds |-> "none"],
                samples |-> [t \in MediaKinds |-> <<>>], seq |-> 0, start |-> 0, total |-> 0]
  /\ fragInit = NoInit
  /\ fragSegs = <<>>
  /\ fragOut = <<>>

-----------------------------------------------------------------------------
(* Fmp4Muxer. *)

sample_duration == Scale \div 25

total_duration(m, rel) == Max({m.total, ((rel * Scale) \div 1000) + sample_duration})

frag_config(m, f) == [m EXCEPT !.codec[f.track] = f.codec, !.cfg[f.track] = f.cfg]

frag_sample(m, f, n, at) ==
  LET rel == Max({0, at - m.base})
      sample == [data |-> [k \in 1 .. f.size |-> <<n, k>>], duration |-> sample_duration, key |-> f.key]
  IN [m EXCEPT !.samples[f.track] = Append(@, sample), !.total = total_duration(m, rel)]

frag_push_frame(f) ==
  /\ Len(fragLog) < MaxFragFrames
  /\ LET at == IF fragLog = <<>> THEN 100 ELSE Last(fragLog).at + f.step
         m == [fragMux EXCEPT !.base = IF @ = -1 THEN at ELSE @]
     IN /\ fragLog' = Append(fragLog, [f |-> f, at |-> at])
        /\ fragMux' = CASE ~f.ok -> m
                        [] f.ok /\ f.cfg # "none" -> frag_config(m, f)
                        [] OTHER -> frag_sample(m, f, Len(fragLog) + 1, at)
  /\ UNCHANGED <<fragInit, fragSegs, fragOut>>

\* A track is described when its configuration is known; its samples are
\* counted in the timescale of the video or of 44.1 kHz sound.
frag_write_trak(m, t) ==
  [id |-> TrackId(t), codec |-> m.codec[t], timescale |-> IF t = "v" THEN Scale ELSE 44100]

write_moov(m) ==
  {frag_write_trak(m, t) : t \in {t \in MediaKinds : m.codec[t] # "none" /\ m.cfg[t] # "none"}}

\* Tracks by their id, with a timescale that is never zero.
from_init_segment(moov) == {[track EXCEPT !.timescale = Max({@, 1})] : track \in moov}

\* A client takes the init segment once; one without a track is refused.
init_segment ==
  /\ fragInit = NoInit
  /\ write_moov(fragMux) # {}
  /\ fragInit' = from_init_segment(write_moov(fragMux))
  /\ UNCHANGED <<fragLog, fragMux, fragSegs, fragOut>>

SampleBytes(ss) == FlattenSeq([i \in 1 .. Len(ss) |-> ss[i].data])

build_traf(t, start, ss, offset) ==
  [id |-> TrackId(t), tfdt |-> start, offset |-> offset,
   trun |-> [i \in 1 .. Len(ss) |->
               [duration |-> ss[i].duration, size |-> Len(ss[i].data), key |-> ss[i].key]]]

\* moof, mfhd, and for each track traf, tfhd, tfdt and trun.
TrafLen(ss) == IF ss = <<>> THEN 0 ELSE 8 + 16 + 20 + 20 + (12 * Len(ss))
MoofLen(m) == 8 + 16 + TrafLen(m.samples["v"]) + TrafLen(m.samples["a"])

\* Mutant: both tracks get the offset of the first.
audio_offset_shared(m, offset) == offset

audio_offset(m, offset) == offset + Len(SampleBytes(m.samples["v"]))

build_moof(m, offset) ==
  (IF m.samples["v"] = <<>> THEN <<>>
   ELSE <<build_traf("v", m.start, m.samples["v"], offset)>>)
  \o (IF m.samples["a"] = <<>> THEN <<>>
      ELSE <<build_traf("a", m.start, m.samples["a"], audio_offset(m, offset))>>)

build_mdat(m) == SampleBytes(m.samples["v"]) \o SampleBytes(m.samples["a"])

build_media_segment(m) ==
  [seq |-> m.seq, start |-> m.start, duration |-> Max({0, m.total - m.start}),
   moofLen |-> MoofLen(m), trafs |-> build_moof(m, MoofLen(m) + 8), mdat |-> build_mdat(m),
   upto |-> Len(fragLog)]

flush_segment ==
  /\ \E t \in MediaKinds : fragMux.samples[t] # <<>>
  /\ Len(fragSegs) < MaxSegments
  /\ fragSegs' = Append(fragSegs, build_media_segment(fragMux))
  /\ fragMux' = [fragMux EXCEPT !.seq = @ + 1, !.start = fragMux.total,
                                !.samples = [t \in MediaKinds |-> <<>>]]
  /\ UNCHANGED <<fragLog, fragInit, fragOut>>

-----------------------------------------------------------------------------
(* Fmp4Demuxer. *)

\* The bytes of a segment: styp, moof, the header of mdat, then the samples.
SegmentBytes(seg, lo, hi) ==
  [k \in 1 .. hi - lo |->
     LET i == lo + k - (StypLen + seg.moofLen + 8)
     IN IF i \in 1 .. Len(seg.mdat) THEN seg.mdat[i] ELSE <<"box", lo + k>>]

TrunEnd(traf, i) == FoldLeft(LAMBDA n, s : n + s.size, 0, SubSeq(traf.trun, 1, i))
DecodeTicks(traf, i) == FoldLeft(LAMBDA n, s : n + s.duration, traf.tfdt, SubSeq(traf.trun, 1, i - 1))

\* Offsets count from the start of the moof box.
demux_traf(track, seg, traf) ==
  [i \in 1 .. Len(traf.trun) |->
     [id |-> traf.id, codec |-> track.codec, key |-> traf.trun[i].key,
      dts |-> (DecodeTicks(traf, i) * 1000) \div track.timescale,
      data |-> SegmentBytes(seg, StypLen + traf.offset + TrunEnd(traf, i - 1),
                                 StypLen + traf.offset + TrunEnd(traf, i))]]

\* One fragment of an unknown track, or samples past the end of the segment,
\* refuse the segment as a whole; frames are sorted by time and track.
demux_fragment(seg) ==
  LET known(traf) == \E track \in fragInit : track.id = traf.id
      fits(traf) == StypLen + traf.offset + TrunEnd(traf, Len(traf.trun))
                      <= StypLen + seg.moofLen + 8 + Len(seg.mdat)
      trackOf(traf) == CHOOSE track \in fragInit : track.id = traf.id
      all == FlattenSeq([i \in 1 .. Len(seg.trafs) |->
                           demux_traf(trackOf(seg.trafs[i]), seg, seg.trafs[i])])
      before(i, j) == \/ all[i].dts < all[j].dts
                      \/ all[i].dts = all[j].dts /\ all[i].id < all[j].id
                      \/ all[i].dts = all[j].dts /\ all[i].id = all[j].id /\ i < j
      order == SortSeq([i \in 1 .. Len(all) |-> i], before)
  IN IF \E i \in 1 .. Len(seg.trafs) : ~known(seg.trafs[i]) \/ ~fits(seg.trafs[i])
     THEN [ok |-> FALSE, frames |-> <<>>]
     ELSE [ok |-> TRUE, frames |-> [i \in 1 .. Len(all) |-> all[order[i]]]]

read_segment ==
  /\ fragInit # NoInit
  /\ Len(fragOut) < Len(fragSegs)
  /\ fragOut' = Append(fragOut, demux_fragment(fragSegs[Len(fragOut) + 1]))
  /\ UNCHANGED <<fragLog, fragMux, fragInit, fragSegs>>

FragNext ==
  \/ \E f \in FragFrames : frag_push_frame(f)
  \/ init_segment
  \/ flush_segment
  \/ read_segment

-----------------------------------------------------------------------------
(* Properties. *)

\* The numbers of the frames of a track that segment k holds.
Held(k, t) ==
  {n \in 1 .. Len(fragLog) :
     /\ n <= fragSegs[k].upto /\ (k = 1 \/ n > fragSegs[k - 1].upto)
     /\ fragLog[n].f.track = t /\ fragLog[n].f.cfg = "none" /\ fragLog[n].f.ok}

\* A media segment gives back, track by track and in order, the samples pushed
\* since the segment before it, although the offsets in its moof depend on the
\* size of that very moof (build_media_segment builds it twice).  It is refused
\* exactly when it has a track the init segment did not describe.
FragSamplesExact ==
  \A k \in 1 .. Len(fragOut) :
    /\ fragOut[k].ok <=> \A t \in MediaKinds :
                           Held(k, t) # {} => \E track \in fragInit : track.id = TrackId(t)
    /\ fragOut[k].ok => \A t \in MediaKinds :
         LET got == SelectSeq(fragOut[k].frames, LAMBDA f : f.id = TrackId(t))
             ns == SetToSortSeq(Held(k, t), LAMBDA i, j : i < j)
         IN [i \in 1 .. Len(got) |-> got[i].data]
              = [i \in 1 .. Len(ns) |-> [j \in 1 .. fragLog[ns[i]].f.size |-> <<ns[i], j>>]]

\* Segments follow each other without a gap or an overlap on the timeline of a
\* playlist, and each ends no earlier than its samples, whatever order their
\* times come in (segment_start_time, total_duration).
FragTiles ==
  /\ \A k \in 1 .. Len(fragSegs) - 1 :
       /\ fragSegs[k + 1].seq = fragSegs[k].seq + 1
       /\ fragSegs[k + 1].start = fragSegs[k].start + fragSegs[k].duration
  /\ \A k \in 1 .. Len(fragSegs), t \in MediaKinds : \A n \in Held(k, t) :
       (fragLog[n].at - fragLog[1].at) * 90 <= fragSegs[k].start + fragSegs[k].duration

\* Video of at most 25 frames a second, no frame before the first, is decoded on
\* a clock that never runs back across segments and is at most one frame ahead of the times the frames
\* came with (every sample counts for 1/25 s in push_frame).
FragVideoClock ==
  (\A n, p \in 1 .. Len(fragLog) : n < p =>
     /\ fragLog[p].at >= fragLog[1].at
     /\ (fragLog[n].f.track = "v" /\ fragLog[p].f.track = "v" /\ fragLog[n].f.cfg = "none")
          => fragLog[p].at >= fragLog[n].at + 40) =>
  LET video(k) == SelectSeq(fragOut[k].frames, LAMBDA f : f.id = 1)
      all == FlattenSeq([k \in 1 .. Len(fragOut) |-> video(k)])
  IN /\ \A i \in 1 .. Len(all) - 1 : all[i].dts <= all[i + 1].dts
     /\ \A i \in 1 .. Len(all) :
          all[i].data # <<>> =>
            all[i].dts <= fragLog[all[i].data[1][1]].at - fragLog[1].at + 40

\* Media segments give back their samples, on one timeline.
FragExact == FragSamplesExact /\ FragTiles /\ FragVideoClock
=============================================================================
