------------------------------- MODULE PsPath -------------------------------
(***************************************************************************)
(* Frames on their way through an MPEG program stream (GB28181): PsMuxer   *)
(* of core/src/ps.rs or a camera, RTP payloads that arrive in any pieces   *)
(* and may be lost, PsDemuxer of codec/src/ps.rs, and the NAL units that   *)
(* RtpStreamReceiver::process_pes publishes.                               *)
(*                                                                         *)
(* A byte is a pair: the number of its entity (pack header, system header, *)
(* stream map, PES packet) and its place there.  Places 0 .. 3 hold the    *)
(* start code 00 00 01 id, the rest of the HeadLen bytes of a header its   *)
(* length.  A start code may be cut anywhere, and a loss may put together  *)
(* pieces of two.  No other byte is 00, 01 or an id: in particular a       *)
(* payload of open length does not end with a byte 00, which the code      *)
(* would take for the first byte of the next start code (ps.rs, 136-144).  *)
(***************************************************************************)
EXTENDS Integers, Sequences, FiniteSets, Sums

CONSTANTS HeadLen,    \* bytes of every header; with fewer nothing is parsed
          MaxPes,     \* MAX_PES_PAYLOAD
          TailLen,    \* bytes at the end of a payload where no start code is looked for (3)
          MaxBuf,     \* max_buf
          PsPlans,    \* the sequences of frames to be sent
          PsPieces,   \* sizes of the RTP payloads
          MaxPsLoss   \* bound: RTP payloads lost

\* An RTP payload (64 KB) fits into the buffer (4 MB).
ASSUME PsSizes ==
  /\ HeadLen \in Nat /\ HeadLen >= 4 /\ MaxPes \in Nat \ {0} /\ MaxBuf \in Nat
  /\ PsPieces \subseteq 1 .. MaxBuf
  /\ PsPlans \subseteq Seq([track : {"v", "a"}, key : BOOLEAN, cfg : BOOLEAN, nals : Seq(Nat),
                           open : BOOLEAN])

VARIABLES
  psPlan,    \* the frames: track, key, cfg, nals (lengths of the NAL units), open
  psMuxed,   \* frames given to mux_frame
  psMux,     \* state of PsMuxer: tracks, aac (a configuration is known), pending
  psEnts,    \* the entities written
  psWire,    \* the bytes written and not lost
  psFed,     \* bytes of it that were pushed
  psHead,    \* bytes of it that have left the buffer
  psPos,     \* bytes of the buffer that parse_one_pes passes over (its pos)
  psHurt,    \* payloads lost, or dropped because the buffer was full
  psTypes,   \* stream_types: tracks the demuxer has a map entry for
  psOut,     \* the PES packets returned by next_pes, with the type known or not
  nalus      \* the NAL units published: the places of their bytes in the frame

psVars ==
  <<psPlan, psMuxed, psMux, psEnts, psWire, psFed, psHead, psPos, psHurt, psTypes, psOut, nalus>>

PsInit ==
  /\ psPlan \in PsPlans
  /\ psMuxed = 0
  /\ psMux = [tracks |-> {}, aac |-> FALSE, pending |-> TRUE]
  /\ psEnts = << >> /\ psWire = << >>
  /\ psFed = 0 /\ psHead = 0 /\ psPos = 0 /\ psHurt = 0
  /\ psTypes = {}
  /\ psOut = << >> /\ nalus = << >>

----------------------------------------------------------------------------
\* PsMuxer

FrameLen(f) == Ends(f.nals)[Len(f.nals)]

\* One PES packet for every MaxPes bytes; lo .. hi - 1 are its bytes of the frame.
\* A camera may leave the length open.
pes_packets(i) ==
  LET f == psPlan[i]
      n == (FrameLen(f) + MaxPes - 1) \div MaxPes
  IN [k \in 1 .. n |->
        [kind |-> "pes", track |-> f.track, frame |-> i, open |-> f.open,
         lo |-> (k - 1) * MaxPes,
         hi |-> IF k = n THEN FrameLen(f) ELSE k * MaxPes]]

pack_header == [kind |-> "pack", lo |-> 0, hi |-> 0]
system_header == [kind |-> "system", lo |-> 0, hi |-> 0]
program_stream_map(tracks) == [kind |-> "map", lo |-> 0, hi |-> 0, tracks |-> tracks]

Size(e) == HeadLen + e.hi - e.lo

\* The bytes of entities that are written after `from` others.
EntityBytes(from, ents) ==
  LET end == Ends([k \in DOMAIN ents |-> Size(ents[k])])
      at(p) == CHOOSE k \in DOMAIN ents : end[k - 1] < p /\ p <= end[k]
  IN [p \in 1 .. end[Len(ents)] |-> <<from + at(p), p - end[at(p) - 1] - 1>>]

\* What mux_frame does to the muxer before it writes.
mux_frame_track(f) ==
  [psMux EXCEPT !.tracks = @ \cup {f.track},
                !.pending = @ \/ f.track \notin psMux.tracks,
                !.aac = @ \/ (f.track = "a" /\ f.cfg)]

\* mux_frame: the AAC configuration is kept, AAC without one is refused; a pack
\* header, the maps if they are due or for a key frame, and the PES packets.
mux_frame ==
  /\ psMuxed < Len(psPlan)
  /\ LET f     == psPlan[psMuxed + 1]
         m     == mux_frame_track(f)
         quiet == f.track = "a" /\ (f.cfg \/ ~ m.aac)
         maps  == m.pending \/ (f.track = "v" /\ f.key)
         ents  == <<pack_header>>
                    \o (IF maps THEN <<system_header, program_stream_map(m.tracks)>> ELSE << >>)
                    \o pes_packets(psMuxed + 1)
     IN /\ psMux' = IF quiet THEN m ELSE [m EXCEPT !.pending = FALSE]
        /\ psEnts' = IF quiet THEN psEnts ELSE psEnts \o ents
        /\ psWire' = IF quiet THEN psWire ELSE psWire \o EntityBytes(Len(psEnts), ents)
  /\ psMuxed' = psMuxed + 1
  /\ UNCHANGED <<psPlan, psFed, psHead, psPos, psHurt, psTypes, psOut, nalus>>

----------------------------------------------------------------------------
\* The buffer of the demuxer

Avail == psFed - psHead
At(k) == psWire[psHead + k]
Least(S) == CHOOSE k \in S : \A j \in S : k <= j

Zero(k) == At(k)[2] \in {0, 1}
One(k) == At(k)[2] = 2
Id(k) == At(k)[2] = 3

\* 00 00 01 and one more byte, which is an id or not.
Prefix(k) == k + 3 <= Avail /\ Zero(k) /\ Zero(k + 1) /\ One(k + 2)
StartCode(k) == Prefix(k) /\ Id(k + 3)
Torn(k) == Prefix(k) /\ ~ Id(k + 3)

\* The entity whose start code is at k.
Owner(k) == At(k + 3)[1]
Ent(k) == psEnts[Owner(k)]

\* The search steps 4 bytes over a torn start code, and so over a whole one that
\* follows it directly, unless it has stepped over the torn one too.
SteppedOver(from, k) ==
  LET run == {m \in 1 .. (k - from) \div 3 : \A j \in 1 .. m : Torn(k - 3 * j)} IN
  Cardinality(run) % 2 = 1

\* The places that find_start_code may return, the least first: of 00 00 01 id or of
\* 00 00 00 01 id.
find_start_code(from) ==
  {k \in from .. Avail : /\ StartCode(k) \/ (Zero(k) /\ StartCode(k + 1))
                         /\ ~ SteppedOver(from, k)}

\* Where parse_one_pes is.
PesAt == psPos + 1
Body == PesAt + HeadLen

\* The header there has arrived, whole or with bytes of something else in it.
Intact == \A j \in 0 .. HeadLen - 1 : At(PesAt + j) = <<Owner(PesAt), j>>

\* What is left for next_pes to do with the bytes it has.
Headed == Avail >= psPos + HeadLen /\ StartCode(PesAt)
CanSkip == Headed /\ Ent(PesAt).kind # "pes"
CanTake ==
  /\ Headed /\ Ent(PesAt).kind = "pes"
  /\ Intact => IF Ent(PesAt).open
               THEN find_start_code(Body) # {} /\ Least(find_start_code(Body)) > Body
               ELSE Avail >= psPos + Size(Ent(PesAt))
CanPass == Avail >= HeadLen /\ Torn(PesAt) /\ find_start_code(PesAt + 4) # {}
MustResync == Avail >= HeadLen /\ PesAt + 3 <= Avail /\ ~ Prefix(PesAt)
\* Nothing is left to do; a header with foreign bytes in it may ask for more bytes.
Parsed == /\ ~ MustResync /\ ~ CanPass
          /\ CanSkip \/ CanTake => ~ Intact

\* push: a prefix is dropped when the buffer would grow past max_buf.
room(n) ==
  LET over == Avail + n - MaxBuf IN
  IF over <= 0 THEN 0 ELSE IF over > Avail THEN Avail ELSE over

ps_push ==
  /\ Parsed
  /\ \E n \in PsPieces :
       /\ psFed + n <= Len(psWire)
       /\ psFed' = psFed + n
       /\ psHead' = psHead + room(n)
       /\ psPos' = IF room(n) > 0 THEN 0 ELSE psPos
       /\ psHurt' = psHurt + (IF room(n) > 0 THEN 1 ELSE 0)
  /\ UNCHANGED <<psPlan, psMuxed, psMux, psEnts, psWire, psTypes, psOut, nalus>>

\* An RTP payload is lost.
ps_lose ==
  /\ psHurt < MaxPsLoss
  /\ \E n \in PsPieces :
       /\ psFed + n <= Len(psWire)
       /\ psWire' = SubSeq(psWire, 1, psFed) \o SubSeq(psWire, psFed + n + 1, Len(psWire))
  /\ psHurt' = psHurt + 1
  /\ UNCHANGED <<psPlan, psMuxed, psMux, psEnts, psFed, psHead, psPos, psTypes, psOut, nalus>>

----------------------------------------------------------------------------
\* next_pes

parse_program_stream_map(e) == IF e.kind = "map" THEN e.tracks ELSE {}

\* A pack header, system header or map at the front of the buffer is dropped; the map
\* is remembered.  A header with foreign bytes in it may have any length.
leading_header_len ==
  /\ psPos = 0 /\ CanSkip
  /\ IF Intact
     THEN /\ psHead' = psHead + HeadLen
          /\ psTypes' = psTypes \cup parse_program_stream_map(Ent(PesAt))
     ELSE /\ \E n \in HeadLen .. Avail : psHead' = psHead + n
          /\ UNCHANGED psTypes
  /\ UNCHANGED <<psPlan, psMuxed, psMux, psEnts, psWire, psFed, psPos, psHurt, psOut, nalus>>

\* parse_one_pes, unknown start code: it looks for the next entity, and the bytes
\* before that stay in the buffer ...
skip_unknown ==
  /\ CanPass
  /\ psPos' = Least(find_start_code(PesAt + 4)) - 1
  /\ UNCHANGED <<psPlan, psMuxed, psMux, psEnts, psWire, psFed, psHead, psHurt, psTypes, psOut, nalus>>

\* ... and so do the headers after it; a map among them is not remembered.
skip_header ==
  /\ psPos > 0 /\ CanSkip
  /\ IF Intact THEN psPos' = psPos + HeadLen
     ELSE \E n \in HeadLen .. Avail - psPos : psPos' = psPos + n
  /\ UNCHANGED <<psPlan, psMuxed, psMux, psEnts, psWire, psFed, psHead, psHurt, psTypes, psOut, nalus>>

\* An error: the buffer goes on at the next start code, and at least by one byte, or
\* is cleared.
Resync ==
  LET next == find_start_code(1) IN
  /\ psHead' = IF next = {} THEN psFed
               ELSE psHead + (IF Least(next) = 1 THEN 1 ELSE Least(next) - 1)
  /\ psPos' = 0

\* The bytes of a frame at which one of its NAL units begins.
NalStarts(f) ==
  {Ends(psPlan[f].nals)[k] : k \in 0 .. Len(psPlan[f].nals) - 1}

\* Byte k of a payload, as <<frame, place in the frame>>.
Place(b) == <<psEnts[b[1]].frame, psEnts[b[1]].lo + b[2] - HeadLen>>
IsNalStart(b) ==
  /\ psEnts[b[1]].kind = "pes" /\ b[2] >= HeadLen
  /\ Place(b)[2] \in NalStarts(psEnts[b[1]].frame)

\* extract_nalus_from_pes: from each start code to the next; the search stops
\* TailLen bytes before the end, and so does the last unit.
extract_nalus_from_pes(bytes) ==
  LET end    == Len(bytes) - TailLen
      starts == {k \in 1 .. end : IsNalStart(bytes[k])}
      stop(k) == LET later == {j \in starts : j > k} IN
                 IF later = {} THEN end ELSE (CHOOSE j \in later : \A i \in later : j <= i) - 1
      order  == CHOOSE o \in [1 .. Cardinality(starts) -> starts] :
                  \A i, j \in DOMAIN o : i < j => o[i] < o[j]
  IN [i \in DOMAIN order |-> SubSeq(bytes, order[i], stop(order[i]))]

\* process_pes: video is cut into NAL units, audio is published as it is.
process_pes(e, bytes) ==
  nalus' = IF e.track = "v" THEN nalus \o extract_nalus_from_pes(bytes) ELSE nalus

\* Mutant: a PES packet of open length ends with the bytes that have arrived.
payload_end_arrived == IF Ent(PesAt).open THEN Avail - psPos ELSE Size(Ent(PesAt))

\* parse_pes_packet: where the payload ends, and where the next entity begins.
payload_end ==
  IF Ent(PesAt).open THEN Least(find_start_code(Body)) - PesAt ELSE Size(Ent(PesAt))

\* The PES packet at PesAt is returned with its n bytes, and processed.
TakePes(n) ==
  LET bytes == SubSeq(psWire, psHead + psPos + HeadLen + 1, psHead + psPos + n) IN
  /\ psHead' = psHead + psPos + n /\ psPos' = 0
  /\ psOut' = Append(psOut, [ent |-> Owner(PesAt), bytes |-> bytes,
                             typed |-> Ent(PesAt).track \in psTypes])
  /\ process_pes(Ent(PesAt), bytes)

\* A complete PES packet; one with foreign bytes in its header may have any length, or
\* an invalid header.
parse_one_pes ==
  /\ CanTake
  /\ IF Intact THEN TakePes(payload_end)
     ELSE \/ Resync /\ UNCHANGED <<psOut, nalus>>
          \/ \E n \in HeadLen .. Avail - psPos : TakePes(n)
  /\ UNCHANGED <<psPlan, psMuxed, psMux, psEnts, psWire, psFed, psHurt, psTypes>>

\* Mutant: gives up everything when there is no start code.
ps_resync_clear ==
  /\ MustResync
  /\ psHead' = psFed /\ psPos' = 0
  /\ UNCHANGED <<psPlan, psMuxed, psMux, psEnts, psWire, psFed, psHurt, psTypes, psOut, nalus>>

\* There is no start code where one should be.
ps_resync ==
  /\ MustResync
  /\ Resync
  /\ UNCHANGED <<psPlan, psMuxed, psMux, psEnts, psWire, psFed, psHurt, psTypes, psOut, nalus>>

PsNext == \/ mux_frame \/ ps_push \/ ps_lose
          \/ leading_header_len \/ skip_unknown \/ skip_header \/ parse_one_pes \/ ps_resync

----------------------------------------------------------------------------
\* Without loss, and however the bytes are cut, the demuxer returns the PES packets
\* of the sender: all of those before the last one returned, in order, each with
\* exactly its payload and with the type that the stream map gives its track.
PsPacketsExact ==
  psHurt = 0 =>
    \A k \in DOMAIN psOut :
      LET i == psOut[k].ent
          before == IF k = 1 THEN 0 ELSE psOut[k - 1].ent
      IN /\ i \in before + 1 .. Len(psEnts) /\ psEnts[i].kind = "pes"
         /\ \A j \in before + 1 .. i - 1 : psEnts[j].kind # "pes"
         /\ psOut[k].bytes = [j \in 1 .. psEnts[i].hi - psEnts[i].lo |-> <<i, HeadLen + j - 1>>]
         /\ psOut[k].typed

\* "stays bounded": the buffer never holds more than max_buf, whatever was lost.
PsBounded == Avail <= MaxBuf

\* Looking for the next entity after a loss, the demuxer drops no start code that has
\* arrived whole, wherever the loss has cut the ones around it and whatever it passed
\* over before; the one exception is a start code directly after a torn one, 00 00 01
\* without its id, whose 4 bytes it steps over (find_start_code).
PsSkipsNoStart ==
  [][MustResync => \A k \in 1 .. psHead' - psHead : StartCode(k) => k > 3 /\ Torn(k - 3)]_psVars

\* The demuxer returns what was muxed and holds a bounded number of bytes.
PsExact == PsPacketsExact /\ PsBounded

\* "Extracts H.264/H.265 NAL units from a PES video payload": without loss, each
\* NAL unit that is published has all of its bytes.
NalusWhole ==
  psHurt = 0 /\ (\A i \in DOMAIN psPlan : FrameLen(psPlan[i]) <= MaxPes) =>
    \A k \in DOMAIN nalus :
      LET f    == Place(nalus[k][1])[1]
          from == Place(nalus[k][1])[2]
          to   == from + Len(nalus[k])
      IN to \in NalStarts(f) \cup {FrameLen(psPlan[f])}
=============================================================================
