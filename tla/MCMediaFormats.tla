--------------------------- MODULE MCMediaFormats --------------------------
(***************************************************************************)
(* The media paths: what a source hands on, what the muxers and            *)
(* packetizers write, and what the demuxers and pull clients make of it.   *)
(* The nine paths share no state, so a behaviour is a behaviour of one of  *)
(* them, the one that `path` names, while the others keep their first      *)
(* state: TLC then visits the sum of their state spaces, where their       *)
(* product would say nothing more.                                         *)
(***************************************************************************)
EXTENDS MCMediaSource, RtpPath, PsPath, TsPath, Mp4Path, FragmentPath, FlvPath,
        RtmpChunks, HlsPull

VARIABLE path

formatVars == <<path, vars, rtpVars, psVars, tsVars, mp4Vars, fragVars, flVars,
                rcVars, hpVars>>

\* The paths that are not followed start in one state only.
Still(p, firstChoice) == path = p \/ firstChoice

FormatsInit ==
  /\ path \in {"source", "rtp", "ps", "ts", "mp4", "fmp4", "flv", "rtmp", "hls"}
  /\ Init
  /\ RtpInit /\ Still("rtp", vcodec = "h264" /\ detected = "auto" /\ firstSeq = 0)
  /\ PsInit /\ Still("ps", psPlan = CHOOSE p \in PsPlans : TRUE)
  /\ TsInit /\ Still("ts", tsPlan = (CHOOSE p \in TsPlans : TRUE) /\ prefix = 0 /\ ~ direct)
  /\ Mp4Init /\ Still("mp4", mp4File = Nothing)
  /\ FragInit
  /\ FlInit /\ Still("flv", flPlan = CHOOSE p \in [frames : FlvStreams, mode : Modes,
                                                   part : PartSizes] : TRUE)
  /\ RcInit /\ Still("rtmp", rcPlan = CHOOSE p \in RtmpPlans : TRUE)
  /\ HpInit /\ Still("hls", hpPlan = CHOOSE p \in HlsPlans : TRUE)

SourceStep == /\ path = "source" /\ Next
              /\ UNCHANGED <<path, rtpVars, psVars, tsVars, mp4Vars, fragVars, flVars, rcVars,
                             hpVars>>
RtpPathStep == /\ path = "rtp" /\ RtpNext
               /\ UNCHANGED <<path, vars, psVars, tsVars, mp4Vars, fragVars, flVars, rcVars,
                              hpVars>>
PsPathStep == /\ path = "ps" /\ PsNext
              /\ UNCHANGED <<path, vars, rtpVars, tsVars, mp4Vars, fragVars, flVars, rcVars,
                             hpVars>>
TsPathStep == /\ path = "ts" /\ TsNext
              /\ UNCHANGED <<path, vars, rtpVars, psVars, mp4Vars, fragVars, flVars, rcVars,
                             hpVars>>
Mp4PathStep == /\ path = "mp4" /\ Mp4Next
               /\ UNCHANGED <<path, vars, rtpVars, psVars, tsVars, fragVars, flVars, rcVars,
                              hpVars>>
FragmentPathStep == /\ path = "fmp4" /\ FragNext
                    /\ UNCHANGED <<path, vars, rtpVars, psVars, tsVars, mp4Vars, flVars,
                                   rcVars, hpVars>>
FlvPathStep == /\ path = "flv" /\ FlNext
               /\ UNCHANGED <<path, vars, rtpVars, psVars, tsVars, mp4Vars, fragVars, rcVars,
                              hpVars>>
RtmpStep == /\ path = "rtmp" /\ RcNext
            /\ UNCHANGED <<path, vars, rtpVars, psVars, tsVars, mp4Vars, fragVars, flVars, hpVars>>
HlsPullStep == /\ path = "hls" /\ HpNext
               /\ UNCHANGED <<path, vars, rtpVars, psVars, tsVars, mp4Vars, fragVars, flVars,
                              rcVars>>

FormatsNext ==
  \/ SourceStep \/ RtpPathStep \/ PsPathStep \/ TsPathStep \/ Mp4PathStep \/ FragmentPathStep
  \/ FlvPathStep \/ RtmpStep \/ HlsPullStep

FormatsSpec == FormatsInit /\ [][FormatsNext]_formatVars

----------------------------------------------------------------------------
\* Instances.

\* RTP: units of one, two and three fragments.
RtpUnits == <<3, 8, 4, 6>>

\* PS: a key frame of two NAL units, audio with its configuration, units that
\* end without a start code, and one that needs two PES packets.
PsV(key, nals, unended) == [track |-> "v", key |-> key, cfg |-> FALSE, nals |-> nals, open |-> unended]
PsA(cfg, n) == [track |-> "a", key |-> FALSE, cfg |-> cfg, nals |-> <<n>>, open |-> FALSE]
PsInstances ==
  { <<PsV(TRUE, <<2, 4>>, FALSE), PsA(TRUE, 2), PsA(FALSE, 3), PsV(FALSE, <<3>>, FALSE)>>,
    <<PsV(TRUE, <<2, 3>>, TRUE), PsV(FALSE, <<4>>, TRUE), PsV(FALSE, <<1>>, TRUE)>>,
    <<PsV(FALSE, <<8>>, FALSE), PsV(TRUE, <<2>>, FALSE)>> }

\* TS: units shorter than a packet, as long as one and longer.
TsV(cfg, key, len) == [track |-> "v", codec |-> "h265", cfg |-> cfg, key |-> key, len |-> len]
TsA(cfg, len) == [track |-> "a", codec |-> "aac", cfg |-> cfg, key |-> FALSE, len |-> len]
TsInstances ==
  { <<TsV(TRUE, FALSE, 5), TsV(FALSE, TRUE, 7), TsV(FALSE, FALSE, 12)>>,
    <<TsA(TRUE, 4), TsV(TRUE, FALSE, 5), TsV(FALSE, TRUE, 3), TsA(FALSE, 9)>>,
    <<TsA(FALSE, 5), TsV(FALSE, TRUE, 13), TsV(FALSE, FALSE, 4)>> }

\* MP4 and fMP4: frames by track, configuration, key, time step (which may be
\* negative), size, and whether their payload parses.
VideoIn(cfg, key, delta, size, ok) ==
  [track |-> "v", codec |-> "h264", cfg |-> cfg, key |-> key, step |-> delta, size |-> size, ok |-> ok]
AudioIn(codec, cfg, delta, size, ok) ==
  [track |-> "a", codec |-> codec, cfg |-> cfg, key |-> FALSE, step |-> delta, size |-> size, ok |-> ok]
Mp4Inputs ==
  { VideoIn("sps", TRUE, 0, 0, TRUE), VideoIn("none", TRUE, 5, 2, TRUE),
    VideoIn("none", FALSE, 40, 1, TRUE), VideoIn("none", FALSE, 0, 0, FALSE),
    VideoIn("none", TRUE, -3, 2, TRUE), AudioIn("aac", "asc48", 0, 0, TRUE),
    AudioIn("aac", "none", 23, 1, TRUE), AudioIn("g711", "none", 20, 2, TRUE),
    AudioIn("aac", "asc16", 2, 0, FALSE) }
FragmentInputs ==
  { VideoIn("sps", TRUE, 0, 0, TRUE), VideoIn("none", TRUE, 40, 2, TRUE),
    VideoIn("none", FALSE, 17, 1, TRUE), VideoIn("none", FALSE, 0, 0, FALSE),
    VideoIn("none", TRUE, -60, 2, TRUE), AudioIn("aac", "asc48", 0, 0, TRUE),
    AudioIn("aac", "none", 23, 1, TRUE) }

\* An MP4 file of another writer, with two samples in a chunk; the same with a
\* time table that is too short; and the same without its last byte.
Bytes(n, size) == [k \in 1 .. size |-> <<n, k>>]
ForeignFile ==
  [kind |-> "file",
   mdat |-> Bytes(1, 2) \o Bytes(2, 1) \o Bytes(11, 1) \o Bytes(3, 3) \o Bytes(12, 2) \o Bytes(4, 1),
   traks |->
     << [id |-> 1, handler |-> "v", timescale |-> 1000, duration |-> 160,
         stsd |-> <<[fourcc |-> "hev1", config |-> "cfg"]>>,
         stts |-> <<[count |-> 2, delta |-> 40], [count |-> 2, delta |-> 20]>>,
         stsc |-> <<[first |-> 1, per |-> 2], [first |-> 2, per |-> 1]>>,
         stsz |-> [same |-> 0, count |-> 4, list |-> <<2, 1, 3, 1>>],
         stco |-> <<40, 44, 49>>, stss |-> <<1, 3>>],
        [id |-> 2, handler |-> "a", timescale |-> 44100, duration |-> 2048,
         stsd |-> <<[fourcc |-> "mp4a", config |-> <<[tag |-> 5, body |-> "asc16"]>>]>>,
         stts |-> <<[count |-> 2, delta |-> 1024]>>, stsc |-> <<[first |-> 1, per |-> 1]>>,
         stsz |-> [same |-> 0, count |-> 2, list |-> <<1, 2>>],
         stco |-> <<43, 47>>, stss |-> <<>>] >>,
   cut |-> 40 + 10 + MoovLen,
   expect |-> [t \in {"v", "a"} |->
                 IF t = "v" THEN <<Bytes(1, 2), Bytes(2, 1), Bytes(3, 3), Bytes(4, 1)>>
                 ELSE <<Bytes(11, 1), Bytes(12, 2)>>]]
ForeignInstances ==
  { ForeignFile, [ForeignFile EXCEPT !.cut = @ - 1],
    [ForeignFile EXCEPT !.traks[1].stts = <<[count |-> 3, delta |-> 40]>>,
                        !.expect["v"] = <<>>] }

\* FLV: a time that wraps, a composition time that is negative or out of range.
FlvIn(kind, key, config, dts, pts, len) ==
  [kind |-> kind, key |-> key, config |-> config, dts |-> dts, pts |-> pts, len |-> len]
FlvInstances ==
  { <<FlvIn("metadata", FALSE, FALSE, 0, 0, 2), FlvIn("video", FALSE, TRUE, 0, 0, 1),
      FlvIn("audio", FALSE, FALSE, 5, 5, 1), FlvIn("video", FALSE, FALSE, 6, 4, 2)>>,
    <<FlvIn("audio", FALSE, TRUE, 0, 0, 1), FlvIn("video", TRUE, FALSE, 15, 25, 1),
      FlvIn("audio", FALSE, FALSE, 17, 17, 1)>> }

\* RTMP: two chunk streams, messages of none to three chunks, a change of the
\* chunk size between them, times around the limit of the three byte field.
RtmpIn(len, time) == [len |-> len, ts |-> time, type |-> "media", size |-> 0]
RtmpSize(n) == [len |-> 1, ts |-> 0, type |-> "size", size |-> n]
RtmpPlan(peer, a, b) == [peer |-> peer, msgs |-> (4 :> a @@ 6 :> b)]
RtmpInstances ==
  { RtmpPlan("foreign", <<RtmpIn(3, 10), RtmpIn(3, 12), RtmpIn(5, 15)>>,
                        <<RtmpIn(5, 0), RtmpSize(3), RtmpIn(4, 7)>>),
    RtmpPlan("foreign", <<RtmpIn(3, 60), RtmpIn(1, 70)>>, <<RtmpIn(2, 5)>>),
    RtmpPlan("foreign", <<RtmpIn(1, 5), RtmpIn(0, 7), RtmpIn(0, 9), RtmpIn(2, 10)>>,
                        <<RtmpIn(1, 8), RtmpIn(0, 9), RtmpIn(2, 12)>>),
    RtmpPlan("own", <<RtmpIn(5, 10), RtmpIn(2, 20), RtmpIn(3, 30)>>,
                    <<RtmpIn(1, 5), RtmpIn(0, 6), RtmpIn(3, 60)>>) }

\* HLS: encrypted segments behind a master playlist; byte ranges of two files
\* with two maps.
HlsIn(uri, start, length, explicit, key, iv, map) ==
  [uri |-> uri, start |-> start, length |-> length, explicit |-> explicit,
   key |-> key, iv |-> iv, map |-> map]
HlsInstances ==
  { [master |-> TRUE,
     segs |-> <<HlsIn("a", 0, 0, FALSE, "k1", "none", "none"),
                HlsIn("b", 0, 0, FALSE, "k1", "none", "none"),
                HlsIn("c", 0, 0, FALSE, "k2", "v", "none"),
                HlsIn("d", 0, 0, FALSE, "none", "none", "none"),
                HlsIn("e", 0, 0, FALSE, "k2", "none", "none")>>],
    [master |-> FALSE,
     segs |-> <<HlsIn("f", 0, 3, TRUE, "none", "none", "m1"),
                HlsIn("f", 3, 2, FALSE, "none", "none", "m1"),
                HlsIn("f", 5, 2, FALSE, "none", "none", "m1"),
                HlsIn("g", 0, 3, TRUE, "none", "none", "m2"),
                HlsIn("g", 3, 3, FALSE, "none", "none", "m2")>>] }
=============================================================================
