------------------------------- MODULE TsPath -------------------------------
(***************************************************************************)
(* Frames on their way through MPEG-TS: TsLiveMuxer and the packet writer  *)
(* of crates/hls, a network that may lose packets (SRT), and the demuxer   *)
(* of srt/src/server.rs.  The SRT server gives it every message as it is;  *)
(* SRT, HTTP-TS and HLS pulls go through TsStreamDemuxer::feed, which      *)
(* takes bytes in any pieces.                                              *)
(*                                                                         *)
(* A frame is a record; the bytes of its PES packet are numbered, the      *)
(* first PesHead of them being the header.  A TS packet carries the bytes  *)
(* lo .. hi - 1 of one PES packet.  Any byte may look like a sync byte.  A *)
(* message of SRT is a number of whole packets, as its senders cut it; the *)
(* server takes any other message for a raw frame, which is left out.      *)
(***************************************************************************)
EXTENDS Integers, Sequences, FiniteSets, SequencesExt

CONSTANTS PacketLen,   \* bytes of a TS packet (188)
          Cap,         \* bytes it can carry (184)
          PesHead,     \* bytes of a PES header
          MinPayload,  \* payloads below this are skipped by the demuxer (4)
          AdtsHead,    \* bytes of an ADTS header (7)
          TsPlans,     \* the sequences of frames to be sent
          TornPrefixes,    \* bytes of a torn packet before the first one
          Pieces,      \* sizes of the pieces in which bytes arrive, and of messages
          MaxTsLoss    \* bound: packets lost

ASSUME TsSizes ==
  /\ {PacketLen, Cap, PesHead, MinPayload, AdtsHead, MaxTsLoss} \subseteq Nat
  /\ MinPayload <= PesHead /\ PesHead + 2 <= Cap /\ Cap < PacketLen
  /\ TornPrefixes \subseteq 0 .. PacketLen - 1 /\ Pieces \subseteq Nat \ {0}

VARIABLES
  tsPlan,    \* the frames: track ("v", "a"), codec, cfg (a configuration), key, len
  muxed,     \* frames given to push_frame
  mux,       \* state of TsLiveMuxer: started, codec, and the configurations
  tsWire,    \* the packets written and not lost
  tsLost,    \* packets lost
  direct,    \* the demuxer is that of the SRT server
  prefix,    \* bytes before the first packet
  fed,       \* bytes that have arrived
  head,      \* bytes that have left pending
  drained,   \* packets given to demux_ts_packets, by their number on the wire, or 0
             \* for bytes that were taken for a packet
  ts,        \* TsContext: codec of the video, accumulated pieces and pts per track
  tsOut,     \* what was published
  tsEnd      \* the connection has ended

tsVars == <<tsPlan, muxed, mux, tsWire, tsLost, direct, prefix, fed, head, drained, ts, tsOut, tsEnd>>

Tracks == {"v", "a"}

TsInit ==
  /\ tsPlan \in TsPlans
  /\ muxed = 0
  /\ mux = [started |-> FALSE, codec |-> "none", cfg |-> [t \in Tracks |-> 0],
            sent |-> [t \in Tracks |-> FALSE]]
  /\ tsWire = << >> /\ tsLost = 0
  /\ direct \in BOOLEAN
  /\ prefix \in TornPrefixes /\ (direct => prefix = 0)
  /\ fed = 0 /\ head = 0
  /\ drained = << >>
  /\ ts = [pat |-> FALSE, codec |-> "none", known |-> {"v"}, accum |-> [t \in Tracks |-> << >>],
           pts |-> [t \in Tracks |-> 0]]
  /\ tsOut = << >> /\ tsEnd = FALSE

----------------------------------------------------------------------------
\* The packet writer

\* write_pes_to_ts: what the first packet carries.  A random access mark needs two
\* bytes if there is no padding to put it in.
FirstChunk(total, rand) ==
  IF total < Cap THEN total ELSE IF rand THEN Cap - 2 ELSE Cap

\* Mutant: the next packet goes on where a first one without the mark would have.
write_pes_gap(p) ==
  LET total == PesHead + p.len
      one   == FirstChunk(total, FALSE)
      more  == (total - one + Cap - 1) \div Cap
  IN [k \in 1 .. more + 1 |->
        [pid |-> p.track, pes |-> p.pes, pts |-> p.pts, start |-> k = 1,
         lo |-> IF k = 1 THEN 0 ELSE one + (k - 2) * Cap,
         hi |-> IF k = 1 THEN FirstChunk(total, p.rand)
                ELSE IF k = more + 1 THEN total ELSE one + (k - 1) * Cap]]

\* The TS packets of one PES packet: p is its frame, track, pts and length.
write_pes(p) ==
  LET total == PesHead + p.len
      one   == FirstChunk(total, p.rand)
      more  == (total - one + Cap - 1) \div Cap
      lo(k) == IF k = 1 THEN 0 ELSE one + (k - 2) * Cap
      hi(k) == IF k = more + 1 THEN total ELSE one + (k - 1) * Cap
  IN [k \in 1 .. more + 1 |->
        [pid |-> p.track, pes |-> p.pes, pts |-> p.pts, start |-> k = 1, lo |-> lo(k),
         hi |-> IF k = 1 THEN one ELSE hi(k)]]

\* write_pat_pmt: two packets; the stream type is H.265 only if that is known.
write_pat_pmt(codec) ==
  <<[pid |-> "pat"],
    [pid |-> "pmt", type |-> IF codec = "h265" THEN "h265" ELSE "h264"]>>

\* TsLiveMuxer::push_frame: tables before the first frame, the configuration of a
\* track once after it was learnt, and the frame.  Audio is written only with a
\* configuration (aac_frame_to_adts).
push_frame ==
  /\ muxed < Len(tsPlan)
  /\ muxed' = muxed + 1
  /\ LET f     == tsPlan[muxed + 1]
         t     == f.track
         codec == IF t = "v" THEN f.codec ELSE mux.codec
         cfg   == IF f.cfg THEN muxed + 1 ELSE mux.cfg[t]
         owed  == cfg # 0 /\ (f.cfg \/ ~ mux.sent[t])
         config == IF ~ owed THEN << >>
                   ELSE write_pes([track |-> t, pes |-> cfg, pts |-> 0, len |-> tsPlan[cfg].len,
                                   rand |-> TRUE])
         data  == IF f.cfg \/ (t = "a" /\ cfg = 0) THEN << >>
                  ELSE write_pes([track |-> t, pes |-> muxed + 1, pts |-> muxed + 1,
                                  len |-> f.len, rand |-> t = "v" /\ f.key])
     IN /\ tsWire' = tsWire \o (IF mux.started THEN << >> ELSE write_pat_pmt(codec))
                            \o config \o data
        /\ mux' = [started |-> TRUE, codec |-> codec, cfg |-> [mux.cfg EXCEPT ![t] = cfg],
                   sent |-> [mux.sent EXCEPT ![t] = @ \/ owed]]
  /\ UNCHANGED <<tsPlan, tsLost, direct, prefix, fed, head, drained, ts, tsOut, tsEnd>>

----------------------------------------------------------------------------
\* The network

StreamLen == prefix + PacketLen * Len(tsWire)

\* The first packet of which nothing has arrived yet.
Untouched == IF fed <= prefix THEN 1 ELSE (fed - prefix + PacketLen - 1) \div PacketLen + 1

\* A message of SRT came too late and is dropped by the library.
lose ==
  /\ tsLost < MaxTsLoss
  /\ \E i \in Untouched .. Len(tsWire) : tsWire' = RemoveAt(tsWire, i)
  /\ tsLost' = tsLost + 1
  /\ UNCHANGED <<tsPlan, muxed, mux, direct, prefix, fed, head, drained, ts, tsOut, tsEnd>>

----------------------------------------------------------------------------
\* demux_ts_packets, from a context and what was published to the next

\* publish_video and publish_audio: what was accumulated, unless it is too short or,
\* for audio, does not begin with ADTS (a configuration, or a lost beginning).
published_units(c, t) ==
  LET acc  == c.accum[t]
      size == FoldLeft(LAMBDA n, x : n + (x.hi - x.lo), 0, acc)
      adts == acc[1].lo = PesHead /\ ~ tsPlan[acc[1].pes].cfg /\ size >= AdtsHead
  IN IF size < MinPayload \/ (t = "a" /\ ~ adts) THEN << >>
     ELSE <<[track |-> t, pts |-> c.pts[t], parts |-> acc]>>

\* A packet that starts a unit publishes the one before it; its header is cut off.
start_unit(c, p) ==
  [c EXCEPT !.accum[p.pid] = <<[pes |-> p.pes, lo |-> PesHead, hi |-> p.hi]>>,
            !.pts[p.pid] = p.pts]

continue_unit(c, p) ==
  [c EXCEPT !.accum[p.pid] = Append(@, [pes |-> p.pes, lo |-> p.lo, hi |-> p.hi])]

\* parse_pat: from now on the PID of the PMT is known; before, a table that looks
\* like one is taken for it.
parse_pat(c) == [c EXCEPT !.pat = TRUE]

\* parse_pmt: the PIDs of both tracks, and the codec of the video.
parse_pmt(c, p) == [c EXCEPT !.codec = p.type, !.known = Tracks]

\* The audio of the muxer is found only after the PMT; its video PID is the default.
demux_ts_packet(c, p) ==
  CASE p.pid = "pat" -> parse_pat(c)
    [] p.pid = "pmt" -> parse_pmt(c, p)
    [] p.pid \in Tracks /\ (p.pid \notin c.known \/ p.hi - p.lo < MinPayload) -> c
    [] p.pid \in c.known /\ p.hi - p.lo >= MinPayload ->
         IF p.start THEN start_unit([c EXCEPT !.units = @ \o published_units(c, p.pid)], p)
         ELSE continue_unit(c, p)

demux_ts_packets(packets) ==
  LET c == FoldLeft(demux_ts_packet, [units |-> << >>] @@ ts, packets) IN
  /\ ts' = [f \in DOMAIN ts |-> c[f]]
  /\ tsOut' = tsOut \o c.units

----------------------------------------------------------------------------
\* The SRT server

\* The number of the packet that begins at p.
PacketNo(p) == (p - prefix) \div PacketLen + 1

handle_srt_connection ==
  /\ direct
  /\ \E n \in Pieces :
       /\ n % PacketLen = 0 /\ fed + n <= StreamLen
       /\ fed' = fed + n /\ head' = fed'
       /\ LET nums == [k \in 1 .. n \div PacketLen |-> PacketNo(fed) + k - 1] IN
          /\ drained' = drained \o nums
          /\ demux_ts_packets([k \in DOMAIN nums |-> tsWire[nums[k]]])
  /\ UNCHANGED <<tsPlan, muxed, mux, tsWire, tsLost, direct, prefix, tsEnd>>

----------------------------------------------------------------------------
\* TsStreamDemuxer::feed is given the next piece, after it has done with the last.
Quiet == fed - head < PacketLen

feed ==
  /\ ~ direct /\ Quiet
  /\ \E n \in Pieces : fed + n <= StreamLen /\ fed' = fed + n
  /\ UNCHANGED <<tsPlan, muxed, mux, tsWire, tsLost, direct, prefix, head, drained, ts, tsOut, tsEnd>>

\* A packet begins at p, and so with a sync byte.
Aligned(p) == p >= prefix /\ (p - prefix) % PacketLen = 0

\* pending does not begin with a sync byte: go to the next byte that is one or looks
\* like one, or clear.
feed_seek ==
  /\ ~ Quiet
  /\ ~ Aligned(head)
  /\ \E p \in head + 1 .. fed :
       /\ \A q \in head + 1 .. p - 1 : ~ Aligned(q)
       /\ head' = p
  /\ UNCHANGED <<tsPlan, muxed, mux, tsWire, tsLost, direct, prefix, fed, drained, ts, tsOut, tsEnd>>

\* The demuxer was given bytes that are not a packet; what it makes of them, and of
\* the packets after them, is not followed.
Astray == \E k \in DOMAIN drained : drained[k] = 0

\* feed takes a packet out of pending, or as many bytes after one that looks like sync.
feed_drain ==
  /\ ~ Quiet
  /\ head' = head + PacketLen
  /\ drained' = Append(drained, IF Aligned(head) THEN PacketNo(head) ELSE 0)
  /\ IF Aligned(head) /\ ~ Astray THEN demux_ts_packets(<<tsWire[PacketNo(head)]>>)
     ELSE UNCHANGED <<ts, tsOut>>
  /\ UNCHANGED <<tsPlan, muxed, mux, tsWire, tsLost, direct, prefix, fed, tsEnd>>

\* flush_ts_context: the connection has ended, at any moment.
flush ==
  /\ Quiet
  /\ IF Astray THEN UNCHANGED <<ts, tsOut>>
     ELSE /\ tsOut' = tsOut \o published_units(ts, "v") \o published_units(ts, "a")
          /\ ts' = [ts EXCEPT !.accum = [t \in Tracks |-> << >>]]
  /\ tsEnd' = TRUE
  /\ UNCHANGED <<tsPlan, muxed, mux, tsWire, tsLost, direct, prefix, fed, head, drained>>

TsNext == ~ tsEnd /\ (push_frame \/ lose \/ handle_srt_connection \/ feed \/ feed_seek
                       \/ feed_drain \/ flush)

----------------------------------------------------------------------------
\* "It preserves partial 188-byte packets across network reads": whatever the pieces,
\* a stream that begins with a packet is demuxed packet by packet, and one that does
\* not is so from the first packet on that is taken from its first byte.  Before that
\* a byte that looks like sync may lead the demuxer astray, again and again.
TsPacketsKept ==
  /\ prefix = 0 /\ drained # << >> => drained[1] = 1
  /\ \A k \in 2 .. Len(drained) : drained[k - 1] # 0 => drained[k] = drained[k - 1] + 1

\* The pieces of p follow on each other from the first byte of one PES packet.
Joined(parts) ==
  /\ parts[1].lo = PesHead
  /\ \A k \in 2 .. Len(parts) : parts[k].pes = parts[1].pes /\ parts[k].lo = parts[k - 1].hi

\* Without loss every published unit is one frame of the sender from its first
\* byte, in order.  All that may be missing are the last bytes of a frame whose
\* last packet carries fewer than MinPayload, since the demuxer skips that packet,
\* and the rest of the frame that the end of the connection cut off.
TsUnitsWhole ==
  tsLost = 0 =>
    \A k \in DOMAIN tsOut :
      LET u    == tsOut[k].parts
          next == {j \in k + 1 .. Len(tsOut) : tsOut[j].track = tsOut[k].track}
      IN /\ Joined(u)
         /\ \/ PesHead + tsPlan[u[1].pes].len - u[Len(u)].hi < MinPayload
            \/ tsEnd /\ next = {}
         /\ \A j \in next : u[1].pes < tsOut[j].parts[1].pes

\* A unit that is published with a time stamp begins with the first byte of the
\* frame the time stamp belongs to, also after a loss.
TsStampMatches ==
  \A k \in DOMAIN tsOut :
    tsOut[k].pts # 0 =>
      tsOut[k].parts[1].pes = tsOut[k].pts /\ tsOut[k].parts[1].lo = PesHead

\* The TS demuxer: no packet is lost to the cuts, units are whole, and each has
\* its own time stamp (TsStreamDemuxer::feed, parse_ts_packet).
TsExact == TsPacketsKept /\ TsUnitsWhole /\ TsStampMatches

\* "one PAT/PMT pair when the stream starts (once the video codec is known)": the
\* PMT names the codec of the video.
PmtNamesCodec ==
  \A i \in DOMAIN tsWire : tsWire[i].pid = "pmt" =>
    \A k \in DOMAIN tsPlan : tsPlan[k].track = "v" => tsWire[i].type = tsPlan[k].codec
=============================================================================
