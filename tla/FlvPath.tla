------------------------------ MODULE FlvPath ------------------------------
(***************************************************************************)
(* FLV over HTTP: frames written by FlvMuxer (crates/flv/src/muxer.rs)     *)
(* with the payload layout of crates/core/src/payload.rs, carried by an    *)
(* HTTP body and read back by HttpBody, pull_flv                           *)
(* (crates/http/src/pull_client.rs) and FlvDemuxer                         *)
(* (crates/flv/src/demuxer.rs) into the local source.                      *)
(*                                                                         *)
(* The stream is a sequence of tags; a position in it is a number of       *)
(* bytes.  The body carries it chunked, or plain: until the connection     *)
(* closes, which a Content-Length does not change.  The connection may     *)
(* close early, after any byte.                                            *)
(* Times have a width: 24 bits are written (StampMod), and an offset       *)
(* between pts and dts saturates (OffsetMax).                              *)
(***************************************************************************)
EXTENDS Integers, Sequences, SequencesExt, FiniteSetsExt

CONSTANTS
  FlvStreams,   \* the frames of the upstream: [kind, key, config, dts, pts, len]
  Modes,        \* "chunked", "plain"
  PartSizes,    \* the sizes an upstream may cut a chunked body into
  StampMod,     \* 2^24
  OffsetMax     \* 2^23 - 1

VARIABLES
  flPlan,       \* [frames, mode, part]
  flRaw,        \* bytes read from the socket, all told
  flTaken,      \* bytes HttpBody has handed on or dropped
  flFed,        \* bytes of the stream given to the demuxer
  flPos,        \* bytes of the stream the demuxer has consumed
  flHeader,     \* header_parsed
  flTracks,     \* the kinds in source.info.tracks
  flOut,        \* frames published
  flState       \* "running", "ended", "failed", "stopped"

flVars == <<flPlan, flRaw, flTaken, flFed, flPos, flHeader, flTracks, flOut, flState>>

-----------------------------------------------------------------------------
(* The upstream: FlvMuxer. *)

Clamp(n) == Max({-OffsetMax - 1, Min({n, OffsetMax})})

\* The five bytes before a video payload, one or two before audio.
LayoutLen(f) == CASE f.kind = "video" -> 5 [] f.kind = "audio" -> 2 [] OTHER -> 0

\* A config frame is marked as a key frame and has no offset.
flv_payload(f) ==
  [kind |-> f.kind, size |-> LayoutLen(f) + f.len,
   key |-> f.kind = "video" /\ (f.key \/ f.config),
   packet |-> IF f.config THEN 0 ELSE 1,
   offset |-> IF f.kind = "video" /\ ~f.config THEN Clamp(f.pts - f.dts) ELSE 0]

\* The byte for the high part of the time is written as zero.
write_tag(f) == flv_payload(f) @@ [stamp |-> f.dts % StampMod]

TagLen(t) == 11 + t.size + 4
Tags == [i \in 1 .. Len(flPlan.frames) |-> write_tag(flPlan.frames[i])]

\* write_header: nine bytes, and four of the size of no tag.
HeaderSize == 9
TagStart(i) == HeaderSize + 4 + FoldLeft(LAMBDA n, t : n + TagLen(t), 0, SubSeq(Tags, 1, i - 1))
FlvLen == TagStart(Len(Tags) + 1)

-----------------------------------------------------------------------------
(* The body.  A part of a chunked body has a size line of two bytes and    *)
(* ends with two more; a part of size zero is the last.                    *)

LineLen == 3
PartCount == (FlvLen + flPlan.part - 1) \div flPlan.part
PartSize(i) == Min({flPlan.part, FlvLen - (i - 1) * flPlan.part})
BodyLen == IF flPlan.mode = "chunked" THEN FlvLen + PartCount * (LineLen + 2) + LineLen
           ELSE FlvLen

FlInit ==
  /\ flPlan \in [frames : FlvStreams, mode : Modes, part : PartSizes]
  /\ flPlan.mode # "chunked" => flPlan.part = Max(PartSizes)
  /\ flRaw = 0
  /\ flTaken = 0
  /\ flFed = 0
  /\ flPos = 0
  /\ flHeader = FALSE
  /\ flTracks = {}
  /\ flOut = <<>>
  /\ flState = "running"

Buffered == flRaw - flTaken
NextPart == flFed \div flPlan.part + 1
LastPart == flFed = FlvLen

\* read_chunk waits for the size line, and then for the part and its end.
chunk_there == Buffered >= LineLen + (IF LastPart THEN 0 ELSE PartSize(NextPart) + 2)

\* What read_chunk can return without another read of the socket.
ChunkReady ==
  CASE flPlan.mode = "chunked" -> chunk_there
    [] OTHER -> Buffered > 0

fill(n) ==
  /\ flState = "running"
  /\ ~ChunkReady
  /\ flRaw + n <= BodyLen
  /\ flRaw' = flRaw + n
  /\ UNCHANGED <<flPlan, flTaken, flFed, flPos, flHeader, flTracks, flOut, flState>>

-----------------------------------------------------------------------------
(* FlvDemuxer, on a buffer that holds the stream from flPos to `fed`. *)

\* A magic number and the four bytes after the header are looked for first.
parse_header(fed) == fed - flPos >= HeaderSize + 4

\* The tag that starts at or after a position, past the size of no tag.
TagAt(pos) == CHOOSE i \in 1 .. Len(Tags) + 1 :
                TagStart(i) = (IF pos = HeaderSize THEN pos + 4 ELSE pos)

\* The three bytes of an offset are a signed number.
signed_offset(t) == IF t.packet = 1 THEN t.offset ELSE 0

\* Mutant: the trailing size of a tag is not waited for.
TagThere_data(i, fed) == i <= Len(Tags) /\ fed >= TagStart(i) + 11 + Tags[i].size

\* parse_tag takes tags while one is there with its trailing size; a tag that
\* is neither audio nor video, and one without payload, is passed over.
TagThere(i, fed) == i <= Len(Tags) /\ fed >= TagStart(i + 1)

TagsThere(pos, fed) ==
  LET first == TagAt(pos)
      last == Max({first - 1} \cup {i \in first .. Len(Tags) :
                                      \A j \in first .. i : TagThere(j, fed)})
  IN [i \in 1 .. last - first + 1 |-> Tags[first + i - 1]]

parse_tag(t) ==
  [kind |-> t.kind, key |-> t.key, config |-> t.packet = 0, dts |-> t.stamp,
   pts |-> Max({0, t.stamp + signed_offset(t)}), size |-> t.size]

IsMedia(t) == t.kind \in {"audio", "video"} /\ t.size > 0

register_track(tracks, media) == tracks \cup {media[i].kind : i \in 1 .. Len(media)}

\* pull_flv: feed what the body gave, parse the header once and publish every
\* frame there is, each with its track registered first.
pull_flv(fed) ==
  LET header == flHeader \/ parse_header(fed)
      from == IF flHeader THEN flPos ELSE HeaderSize
      tags == TagsThere(from, fed)
      media == SelectSeq(tags, IsMedia)
  IN /\ flFed' = fed
     /\ flHeader' = header
     /\ IF header
        THEN /\ flPos' = IF tags = <<>> THEN from ELSE TagStart(TagAt(from) + Len(tags))
             /\ flOut' = flOut \o [i \in 1 .. Len(media) |-> parse_tag(media[i])]
             /\ flTracks' = register_track(flTracks, media)
        ELSE UNCHANGED <<flPos, flOut, flTracks>>

read_chunk ==
  /\ flState = "running"
  /\ ChunkReady
  /\ IF flPlan.mode = "chunked"
     THEN IF LastPart
          THEN /\ flState' = "ended"
               /\ flTaken' = flTaken + LineLen
               /\ UNCHANGED <<flFed, flPos, flHeader, flTracks, flOut>>
          ELSE /\ pull_flv(flFed + PartSize(NextPart))
               /\ flTaken' = flTaken + LineLen + PartSize(NextPart) + 2
               /\ UNCHANGED flState
     ELSE /\ pull_flv(flFed + Buffered)
          /\ flTaken' = flRaw
          /\ UNCHANGED flState
  /\ UNCHANGED <<flPlan, flRaw>>

\* The connection closes, early or not: a chunked body that is not at its end is
\* an error, as is a stream without a header; any other body ends here, whatever
\* length its header announced.
body_closed == IF flPlan.mode # "chunked" /\ flHeader THEN "ended" ELSE "failed"

body_cut ==
  /\ flState = "running"
  /\ ~ChunkReady
  /\ flState' = body_closed
  /\ UNCHANGED <<flPlan, flRaw, flTaken, flFed, flPos, flHeader, flTracks, flOut>>

\* The proxy is stopped: the select breaks out of the loop between two reads.
stop_pull ==
  /\ flState = "running"
  /\ flState' = IF flHeader THEN "stopped" ELSE "failed"
  /\ UNCHANGED <<flPlan, flRaw, flTaken, flFed, flPos, flHeader, flTracks, flOut>>

FlNext ==
  \/ \E n \in 1 .. BodyLen : fill(n)
  \/ read_chunk
  \/ body_cut
  \/ stop_pull

-----------------------------------------------------------------------------
(* Properties. *)

MediaFrames == SelectSeq(flPlan.frames, LAMBDA f : f.kind # "metadata")

\* However the body is cut into parts and reads, and wherever it ends, the
\* frames published are the first frames of the stream, whole and in order, with
\* the key and config marks a player joins on, decode times up to the 24 bits
\* the tag holds and offsets up to the range it holds; and each kind is a track
\* of the source before its first frame (FlvDemuxer::parse_tag, pull_flv).
FlvFramesExact ==
  /\ Len(flOut) <= Len(MediaFrames)
  /\ \A i \in 1 .. Len(flOut) :
       LET f == MediaFrames[i]
           g == flOut[i]
       IN /\ g.kind = f.kind /\ g.config = f.config
          /\ g.key = (f.kind = "video" /\ (f.key \/ f.config))
          /\ g.size = LayoutLen(f) + f.len
          /\ f.dts < StampMod => g.dts = f.dts
          /\ (f.kind = "video" /\ ~f.config /\ f.dts < StampMod
               /\ f.pts - f.dts \in -OffsetMax .. OffsetMax) => g.pts = f.pts
          /\ g.kind \in flTracks

\* A frame whose tag has been handed to the demuxer is published with that very
\* read, never held back until the next one comes.
FlvPrompt ==
  flHeader => Len(flOut) =
    Cardinality({i \in 1 .. Len(Tags) : Tags[i].kind # "metadata" /\ TagStart(i + 1) <= flFed})

\* A pull over a chunked body ends well only with the whole stream published: an
\* upstream that went away is reported as an error.
FlvEndIsWhole ==
  flState = "ended" /\ flPlan.mode = "chunked" => Len(flOut) = Len(MediaFrames)

\* A pull over HTTP-FLV publishes the frames of the stream, each as soon as it is
\* there, and ends well only when they are all there.
FlvExact == FlvFramesExact /\ FlvPrompt /\ FlvEndIsWhole
=============================================================================
