------------------------------ MODULE Mp4Path ------------------------------
(***************************************************************************)
(* A recording as an MP4 file: crates/mp4/src/muxer.rs collects the frames *)
(* of a stream and lays the file out (ftyp, mdat, moov with one sample     *)
(* table per track), demuxer.rs reads the tables back, vod.rs replays the  *)
(* samples from a requested time.                                          *)
(*                                                                         *)
(* A byte of a sample is <<frame number, index>>, so that a wrong offset   *)
(* or size shows.  Boxes are records; only the ones with the size or the   *)
(* place of something have a length.  Times are in milliseconds, as on the *)
(* media bus, and in ticks of the track's timescale inside the file.       *)
(***************************************************************************)
EXTENDS Integers, Sequences, SequencesExt, FiniteSetsExt, TLC

CONSTANTS
  Mp4Frames,     \* the frames a publisher may send, with the step of its clock
  MaxMp4Frames,  \* bound: frames of one recording
  ForeignFiles,  \* files of other muxers, with the samples they hold
  SeekTimes,     \* the start times viewers ask for
  MoovLen        \* bytes of the moov box, all of them after the media data

VARIABLES
  mp4Log,        \* the frames of the recording, in the order of push_frame
  mp4Mux,        \* Mp4Muxer
  mp4File,       \* the file on disk, or Nothing
  mp4Asset,      \* VodAsset of a viewer, Refused, or Nothing
  mp4Play        \* VodPlayback, or Nothing

mp4Vars == <<mp4Log, mp4Mux, mp4File, mp4Asset, mp4Play>>

Nothing == [kind |-> "nothing"]
Refused == [kind |-> "refused"]
BoxHead == 8
FtypLen == 32

\* The sampling rates the AudioSpecificConfig of these streams can name.
config_to_sample_rate(asc) ==
  CASE asc = "asc48" -> 48000 [] asc = "asc16" -> 16000 [] OTHER -> 44100

Mp4Init ==
  /\ mp4Log = <<>>
  /\ mp4Mux = [base |-> -1, codec |-> [t \in {"v", "a"} |-> "none"],
               cfg |-> [t \in {"v", "a"} |-> "none"], rate |-> 0, samples |-> <<>>]
  /\ mp4File \in {Nothing} \cup ForeignFiles
  /\ mp4Asset = Nothing
  /\ mp4Play = Nothing

-----------------------------------------------------------------------------
(* Mp4Muxer. *)

Data(n, f) == [k \in 1 .. f.size |-> <<n, k>>]

push_config(m, f) ==
  [m EXCEPT !.codec[f.track] = f.codec, !.cfg[f.track] = f.cfg,
            !.rate = IF f.track = "a" THEN config_to_sample_rate(f.cfg) ELSE @]

\* The time of a sample counts from the first frame of any kind.
push_sample(m, f, n, at) ==
  [m EXCEPT !.codec[f.track] = IF @ = "none" THEN f.codec ELSE @,
            !.cfg["a"] = IF f.track = "a" /\ @ = "none" THEN "empty" ELSE @,
            !.samples = IF f.ok
                        THEN Append(@, [track |-> f.track, data |-> Data(n, f),
                                        at |-> IF at > m.base THEN at - m.base ELSE 0])
                        ELSE @]

mp4_push_frame(f) ==
  /\ mp4File = Nothing
  /\ Len(mp4Log) < MaxMp4Frames
  /\ LET at == IF mp4Log = <<>> THEN f.step ELSE Last(mp4Log).at + f.step
         n == Len(mp4Log) + 1
         m == [mp4Mux EXCEPT !.base = IF @ = -1 THEN at ELSE @]
     IN /\ at >= 0
        /\ mp4Log' = Append(mp4Log, [f |-> f, at |-> at])
        /\ mp4Mux' = CASE f.cfg # "none" /\ f.ok -> push_config(m, f)
                       [] f.cfg # "none" /\ ~f.ok -> m
                       [] OTHER -> push_sample(m, f, n, at)
  /\ UNCHANGED <<mp4File, mp4Asset, mp4Play>>

TrackSamples(m, t) == SelectSeq(m.samples, LAMBDA s : s.track = t)
Timescale(m, t) == IF t = "v" THEN 90000 ELSE IF m.rate > 0 THEN m.rate ELSE 44100
DefaultDuration(m, t) == IF t = "v" THEN 3000 ELSE Timescale(m, t) \div 44

\* A sample lasts until the next one of its track; the last one as long as the
\* one before it.
set_track_durations(ss, scale, default) ==
  [i \in 1 .. Len(ss) |->
     LET delta == IF i < Len(ss) THEN ss[i+1].at - ss[i].at ELSE ss[i].at - ss[i-1].at
     IN IF Len(ss) > 1 THEN Max({1, (Max({1, delta}) * scale) \div 1000}) ELSE default]

Durations(m, t) == set_track_durations(TrackSamples(m, t), Timescale(m, t), DefaultDuration(m, t))

write_stts(durs) ==
  FoldLeft(LAMBDA es, d : IF es # <<>> /\ Last(es).delta = d
                          THEN [es EXCEPT ![Len(es)].count = @ + 1]
                          ELSE Append(es, [count |-> 1, delta |-> d]), <<>>, durs)

write_stsz(sizes) ==
  LET same == IF \A i \in 1 .. Len(sizes) : sizes[i] = sizes[1] THEN sizes[1] ELSE 0
  IN [same |-> same, count |-> Len(sizes), list |-> IF same = 0 THEN sizes ELSE <<>>]

write_stsc(n) == <<[first |-> 1, per |-> n]>>
write_stco(offset) == <<FtypLen + BoxHead + offset>>

\* ES descriptor 3 holds decoder configuration 4, which holds the config 5.
build_esds_descriptors(asc) ==
  <<[tag |-> 3, body |-> <<[tag |-> 4, body |-> <<[tag |-> 5, body |-> asc]>>],
                           [tag |-> 6, body |-> <<>>]>>]>>

parse_avcc_config(cfg) == IF cfg = "none" THEN "default" ELSE cfg

write_stsd(codec, cfg) ==
  CASE codec \in {"h264", "h265"} ->
         <<[fourcc |-> IF codec = "h264" THEN "avc1" ELSE "hev1", config |-> parse_avcc_config(cfg)]>>
    [] codec = "aac" ->
         <<[fourcc |-> "mp4a",
            config |-> build_esds_descriptors(IF cfg = "empty" THEN "asc44" ELSE cfg)]>>
    [] OTHER -> <<>>

MediaBytes(ss) == FlattenSeq([i \in 1 .. Len(ss) |-> ss[i].data])
Total(s) == FoldLeft(LAMBDA a, b : a + b, 0, s)

write_trak(m, t, id, offset) ==
  LET ss == TrackSamples(m, t) IN
  [id |-> id, handler |-> t, timescale |-> Timescale(m, t), duration |-> Total(Durations(m, t)),
   stsd |-> write_stsd(m.codec[t], m.cfg[t]), stts |-> write_stts(Durations(m, t)),
   stsc |-> write_stsc(Len(ss)), stsz |-> write_stsz([i \in 1 .. Len(ss) |-> Len(ss[i].data)]),
   stco |-> write_stco(offset), stss |-> <<>>]

\* Mutant: the audio samples are looked for where the video samples are.
audio_mdat_offset_zero(m) == 0

\* All the video samples come first in the media data, then the audio samples.
audio_mdat_offset(m) == Len(MediaBytes(TrackSamples(m, "v")))

FileOf(mdat, traks, n) ==
  [kind |-> "file", mdat |-> mdat, traks |-> traks,
   cut |-> n, expect |-> [t \in {"v", "a"} |-> <<>>]]

FileLen(mdat) == FtypLen + BoxHead + Len(mdat) + MoovLen

finalize(m) ==
  LET v == TrackSamples(m, "v")
      a == TrackSamples(m, "a")
      mdat == MediaBytes(v) \o MediaBytes(a)
      vtrak == IF v = <<>> THEN <<>> ELSE <<write_trak(m, "v", 1, 0)>>
      atrak == IF a = <<>> THEN <<>>
               ELSE <<write_trak(m, "a", IF v = <<>> THEN 1 ELSE 2, audio_mdat_offset(m))>>
  IN FileOf(mdat, vtrak \o atrak, FileLen(mdat))

\* The recorder writes what finalize returns; a crash during the write leaves
\* the first cut bytes of the file.
mp4_write ==
  /\ mp4File = Nothing
  /\ mp4Mux.samples # <<>>
  /\ LET file == finalize(mp4Mux)
         body == Len(file.mdat)
     IN \E cut \in {FtypLen, FtypLen + BoxHead, FtypLen + BoxHead + body,
                    FileLen(file.mdat) - 1, FileLen(file.mdat)} :
          mp4File' = [file EXCEPT !.cut = cut]
  /\ UNCHANGED <<mp4Log, mp4Mux, mp4Asset, mp4Play>>

-----------------------------------------------------------------------------
(* Mp4Demuxer. *)

\* A box that ends past the end of the file ends the walk.
walk_top_boxes(file) ==
  {b \in {"mdat", "moov"} :
     file.cut >= IF b = "mdat" THEN FtypLen + BoxHead + Len(file.mdat) ELSE FileLen(file.mdat)}

parse_stts(stts) ==
  FoldLeft(LAMBDA out, e : out \o [i \in 1 .. e.count |-> e.delta], <<>>, stts)

parse_stsz(stsz) ==
  IF stsz.same # 0 THEN [i \in 1 .. stsz.count |-> stsz.same] ELSE stsz.list

\* The last entry that begins at this chunk or before it.
parse_stsc(stsc, chunk) ==
  LET es == {i \in 1 .. Len(stsc) : stsc[i].first <= chunk}
  IN IF es = {} THEN 0 ELSE stsc[Max(es)].per

FileBytes(file, lo, hi) ==
  IF hi > file.cut THEN <<>>
  ELSE [k \in 1 .. hi - lo |->
          LET i == lo + k - FtypLen - BoxHead
          IN IF i \in 1 .. Len(file.mdat) THEN file.mdat[i] ELSE <<"box", lo + k>>]

\* The byte ranges of the samples of one chunk, from sample idx on.
chunk_samples(stsc, sizes, chunk, offset, idx) ==
  LET n == Min({parse_stsc(stsc, chunk), Len(sizes) - idx})
  IN [k \in 1 .. n |->
        LET lo == offset + Total(SubSeq(sizes, idx + 1, idx + k - 1))
        IN [lo |-> lo, hi |-> lo + sizes[idx + k]]]

sample_ranges(trak) ==
  FoldLeft(LAMBDA out, c : out \o chunk_samples(trak.stsc, parse_stsz(trak.stsz), c,
                                                trak.stco[c], Len(out)),
           <<>>, [c \in 1 .. Len(trak.stco) |-> c])

parse_esds_asc(esds) ==
  LET known == SelectSeq(esds, LAMBDA d : d.tag \notin {3, 4})
  IN IF known # <<>> /\ known[1].tag = 5 THEN known[1].body ELSE "asc44"

parse_stsd(trak) ==
  LET e == trak.stsd[1] IN
  CASE trak.handler = "v" /\ e.fourcc = "avc1" -> [codec |-> "h264", config |-> e.config]
    [] trak.handler = "v" /\ e.fourcc = "hev1" -> [codec |-> "h265", config |-> e.config]
    [] trak.handler = "a" /\ e.fourcc = "mp4a" -> [codec |-> "aac", config |-> parse_esds_asc(e.config)]

Playable(trak) ==
  /\ trak.timescale # 0
  /\ trak.stsd # <<>>
  /\ trak.stsz.count # 0
  /\ Len(parse_stts(trak.stts)) = trak.stsz.count

parse_trak(trak, file) ==
  LET durs == parse_stts(trak.stts)
      rs == sample_ranges(trak)
  IN [i \in 1 .. Len(rs) |->
        [track |-> trak.handler, id |-> trak.id, cfg |-> "none",
         data |-> FileBytes(file, rs[i].lo, rs[i].hi),
         pts |-> (Total(SubSeq(durs, 1, i - 1)) * 1000) \div trak.timescale,
         key |-> trak.stss = <<>> \/ i \in ToSet(trak.stss)]]

make_config_frame(trak) ==
  [track |-> trak.handler, id |-> trak.id, cfg |-> parse_stsd(trak).config,
   data |-> <<>>, pts |-> 0, key |-> trak.handler = "v"]

\* Configurations first, then every sample in the order of its time; samples
\* of one time keep the order of the tracks.
interleaved_media_frames(traks, file) ==
  LET all == FlattenSeq([i \in 1 .. Len(traks) |-> parse_trak(traks[i], file)])
      order == SortSeq([i \in 1 .. Len(all) |-> i],
                       LAMBDA i, j : all[i].pts < all[j].pts \/ (all[i].pts = all[j].pts /\ i < j))
  IN [i \in 1 .. Len(traks) |-> make_config_frame(traks[i])]
     \o [i \in 1 .. Len(all) |-> all[order[i]]]

from_demuxer(traks, file) ==
  LET frames == interleaved_media_frames(traks, file) IN
  IF \A i \in 1 .. Len(frames) : frames[i].cfg # "none" THEN Refused
  ELSE [kind |-> "asset", frames |-> frames,
        duration |-> Max({(traks[i].duration * 1000) \div traks[i].timescale : i \in 1 .. Len(traks)})]

from_bytes(file) ==
  LET traks == SelectSeq(file.traks, Playable) IN
  IF walk_top_boxes(file) # {"mdat", "moov"} \/ traks = <<>>
  THEN Refused
  ELSE from_demuxer(traks, file)

mp4_open ==
  /\ mp4File # Nothing
  /\ mp4Asset = Nothing
  /\ mp4Asset' = from_bytes(mp4File)
  /\ UNCHANGED <<mp4Log, mp4Mux, mp4File, mp4Play>>

-----------------------------------------------------------------------------
(* VodAsset::playback. *)

Media(a) == {i \in 1 .. Len(a.frames) : a.frames[i].cfg = "none"}
VideoKeys(a) == {i \in Media(a) : a.frames[i].track = "v" /\ a.frames[i].key}
TimesOf(a, S) == {a.frames[i].pts : i \in S}
UpTo(S, t) == {x \in S : x <= t}

\* Mutant: a seek goes to the last sample of any kind.
start_of_any(a, t) ==
  LET keys == TimesOf(a, VideoKeys(a)) IN
  IF UpTo(TimesOf(a, Media(a)), t) # {} THEN Max(UpTo(TimesOf(a, Media(a)), t)) ELSE Min(keys)

start_of(a, t) ==
  LET keys == TimesOf(a, VideoKeys(a))
      all == TimesOf(a, Media(a))
  IN CASE UpTo(keys, t) # {} -> Max(UpTo(keys, t))
       [] UpTo(keys, t) = {} /\ keys # {} -> Min(keys)
       [] keys = {} /\ UpTo(all, t) # {} -> Max(UpTo(all, t))
       [] OTHER -> Min(all)

playback(a, t) ==
  LET start == start_of(a, t) IN
  [kind |-> "play", asked |-> t, start |-> start,
   frames |-> SelectSeq(a.frames, LAMBDA f : f.cfg # "none")
              \o [i \in 1 .. Len(SelectSeq(a.frames, LAMBDA f : f.cfg = "none" /\ f.pts >= start)) |->
                    LET f == SelectSeq(a.frames, LAMBDA g : g.cfg = "none" /\ g.pts >= start)[i]
                    IN [f EXCEPT !.pts = @ - start]],
   duration |-> Max({0, a.duration - start})]

mp4_play(t) ==
  /\ mp4Asset \notin {Nothing, Refused}
  /\ mp4Play = Nothing
  /\ mp4Play' = playback(mp4Asset, t)
  /\ UNCHANGED <<mp4Log, mp4Mux, mp4File, mp4Asset>>

Mp4Next ==
  \/ \E f \in Mp4Frames : mp4_push_frame(f)
  \/ mp4_write
  \/ mp4_open
  \/ \E t \in SeekTimes : mp4_play(t)

-----------------------------------------------------------------------------
(* Properties. *)

Own == mp4Log # <<>>
Pushed(t) == {n \in 1 .. Len(mp4Log) :
                mp4Log[n].f.track = t /\ mp4Log[n].f.cfg = "none" /\ mp4Log[n].f.ok}
Nth(S, k) == CHOOSE n \in S : Cardinality({i \in S : i <= n}) = k
Opened == mp4Asset \notin {Nothing, Refused}
Demuxed(t) == SelectSeq(mp4Asset.frames, LAMBDA f : f.cfg = "none" /\ f.track = t)
Recorded(t) ==
  IF Own THEN [k \in 1 .. Cardinality(Pushed(t)) |->
                 LET n == Nth(Pushed(t), k) IN Data(n, mp4Log[n].f)]
  ELSE mp4File.expect[t]
Storable(t) == ~Own \/ t = "v" \/ mp4Mux.codec["a"] = "aac"

\* What a viewer reads from a file is, track by track and in order, exactly the
\* samples that went in: offsets, sizes, run lengths and chunk maps of the
\* written tables (write_trak) and of the parser (parse_trak) agree, for the
\* files of this muxer and for files with several chunks and nested entries.
\* A track whose codec has no sample entry is left out and harms no other.
Mp4SamplesExact ==
  Opened => \A t \in {"v", "a"} :
    LET d == Demuxed(t) IN
    [k \in 1 .. Len(d) |-> d[k].data] = IF Storable(t) THEN Recorded(t) ELSE <<>>

\* A file whose writing a crash cut short is refused (from_bytes finds no moov
\* box): a viewer never gets samples read past the end of what was written.
Mp4CutRefused ==
  Opened => mp4File.cut = FileLen(mp4File.mdat)

\* The k-th sample of a track whose times rise, none before the first frame, is
\* replayed at its distance from the first one, short by less than a millisecond for every sample before it
\* (set_track_durations rounds each duration down to a tick).
Mp4TimesKept ==
  (Opened /\ Own) => \A t \in {"v", "a"} :
    LET P == Pushed(t)
        at(k) == mp4Log[Nth(P, k)].at
        d == Demuxed(t)
    IN (/\ Storable(t)
        /\ \A k \in 1 .. Cardinality(P) - 1 : at(k) < at(k + 1)
        /\ \A n \in P : mp4Log[1].at <= mp4Log[n].at) =>
         \A k \in 1 .. Len(d) : d[k].pts \in at(k) - at(1) - k + 1 .. at(k) - at(1)

\* A recording is read back as it was written, or refused.
Mp4Exact == Mp4SamplesExact /\ Mp4CutRefused /\ Mp4TimesKept

\* A seek lands on a video sample marked as key, the last one at or before the
\* time asked for (the first one when there is none), and from there on nothing
\* is missing: every track's samples follow up to the end, on a clock that
\* starts at zero and never runs backwards (VodAsset::playback).
Mp4SeekComplete ==
  mp4Play # Nothing =>
    LET p == SelectSeq(mp4Play.frames, LAMBDA f : f.cfg = "none") IN
    /\ \A t \in {"v", "a"} :
         SelectSeq(p, LAMBDA f : f.track = t)
           = LET rest == SelectSeq(Demuxed(t), LAMBDA f : f.pts >= mp4Play.start)
             IN [i \in 1 .. Len(rest) |-> [rest[i] EXCEPT !.pts = @ - mp4Play.start]]
    /\ \A i \in 1 .. Len(p) - 1 : p[i].pts <= p[i + 1].pts
    /\ Demuxed("v") # <<>> =>
         LET keys == SelectSeq(Demuxed("v"), LAMBDA f : f.key)
             v == SelectSeq(p, LAMBDA f : f.track = "v")
         IN keys # <<>> =>
              /\ v # <<>> /\ v[1].pts = 0 /\ v[1].key
              /\ \A i \in 1 .. Len(keys) :
                   \/ keys[i].pts <= mp4Play.start /\ mp4Play.start <= mp4Play.asked
                   \/ keys[i].pts >= mp4Play.start /\ mp4Play.asked < keys[i].pts

\* vod.rs:96 says that a playback starts at the nearest preceding key frame: so
\* the first video frame of a playback was a key frame when it was recorded.
\* The muxer writes no stss table, and every sample of its files counts as key.
Mp4SeekOnKey ==
  (mp4Play # Nothing /\ Own) =>
    LET v == SelectSeq(mp4Play.frames, LAMBDA f : f.cfg = "none" /\ f.track = "v" /\ f.data # <<>>)
    IN (v # <<>> /\ \E n \in Pushed("v") : mp4Log[n].f.key) => mp4Log[v[1].data[1][1]].f.key
=============================================================================
