------------------------------ MODULE RtpPath ------------------------------
(***************************************************************************)
(* One video track on its way over RTP: the packetizer of core/src/rtp.rs, *)
(* a network that loses, duplicates and reorders, and the receiver of      *)
(* srt/src/gb28181/rtp_server.rs, which puts packets back in order within  *)
(* a window and joins the fragments of a NAL unit.                         *)
(*                                                                         *)
(* A NAL unit is its place in the track and its length in bytes.  A packet *)
(* carries the bytes lo .. hi - 1 of its unit; the header bytes that every *)
(* fragment repeats are not counted.                                       *)
(***************************************************************************)
EXTENDS Integers, Sequences, FiniteSets, SequencesExt

CONSTANTS SeqSpace,    \* sequence numbers (2^16)
          Window,    \* reorder window (64)
          Mtu,       \* payload bytes of a packet
          FirstSeqs, \* the sequence numbers that a sender may start with
          Units,     \* lengths of the track's NAL units; the first is a parameter set
          Copies     \* bound: how often a packet arrives

ASSUME RtpSizes == /\ SeqSpace \in Nat /\ Window \in Nat \ {0} /\ Mtu \in Nat
                   /\ Copies \in Nat /\ FirstSeqs \subseteq 0 .. SeqSpace - 1

VARIABLES vcodec,     \* the codec of the track
          detected,   \* the codec the receiver was told or found, or "auto"
          firstSeq,   \* the sequence number of the first packet
          arrived,    \* arrived[i]: how often packet i has arrived
          expected,   \* the sequence number to release next, or -1
          waiting,    \* sequence numbers of the packets held back
          lostCount,  \* lost_packets
          released,   \* packets given to handle_rtp, by their place on the wire
          fuBuf,      \* the pieces in fu_buf
          output      \* the pieces of each NAL unit published

rtpVars == <<vcodec, detected, firstSeq, arrived, expected, waiting, lostCount, released,
             fuBuf, output>>

----------------------------------------------------------------------------
\* RtpPacketizer

\* The bytes of a unit's own header: one for H.264, two for H.265.
HeaderLen(c) == IF c = "h264" THEN 1 ELSE 2

\* packetize_h264_nalu and packetize_h265_nalu: one packet if the unit fits, or
\* fragments of Mtu bytes less the headers, marked at both ends.
Fragments(c, u) ==
  LET len   == Units[u]
      chunk == Mtu - HeaderLen(c) - 1
      count == (len - HeaderLen(c) + chunk - 1) \div chunk
      lo(k) == HeaderLen(c) + (k - 1) * chunk
  IN IF len <= Mtu
     THEN <<[unit |-> u, fu |-> FALSE, start |-> TRUE, end |-> TRUE, lo |-> 0, hi |-> len]>>
     ELSE [k \in 1 .. count |->
             [unit |-> u, fu |-> TRUE, start |-> k = 1, end |-> k = count,
              lo |-> lo(k), hi |-> IF k = count THEN len ELSE lo(k + 1)]]

\* packetize: the packets of the whole track.
Wire(c) == FoldLeft(LAMBDA w, u : w \o Fragments(c, u), << >>, [u \in 1 .. Len(Units) |-> u])

\* header: the sequence number wraps.
Number(i) == (firstSeq + i - 1) % SeqSpace

----------------------------------------------------------------------------
\* RtpReorderBuffer

\* wrapping_sub
Dist(a, b) == (a - b) % SeqSpace

\* The packet that a number stands for.
PacketAt(s) == CHOOSE i \in 1 .. Len(Wire(vcodec)) : Number(i) = s

\* drain_ready: the packets held back that follow without a gap from e.
Run(e, held) ==
  LET n == CHOOSE m \in 0 .. Cardinality(held) :
             /\ \A k \in 0 .. m - 1 : (e + k) % SeqSpace \in held
             /\ (e + m) % SeqSpace \notin held
  IN [k \in 1 .. n |-> (e + k - 1) % SeqSpace]

\* The packets s and all that follow on them are released, skipped are given up.
Release(s, e, held, skipped) ==
  LET ready == s \o Run(e, held)
  IN /\ expected' = (e + Len(Run(e, held))) % SeqSpace
     /\ waiting' = held \ ToSet(Run(e, held))
     /\ lostCount' = lostCount + skipped
     /\ released' = released \o [k \in 1 .. Len(ready) |-> PacketAt(ready[k])]

\* skip_gap: go on with the packet held back that is nearest to expected.
skip_gap(held) ==
  LET nearest == CHOOSE s \in held : \A t \in held : Dist(s, expected) <= Dist(t, expected)
  IN Release(<< >>, nearest, held, Dist(nearest, expected))

\* Mutant: the late half of the number space is not told apart.
TooLate_never(s) == s \in waiting

\* A packet from before expected, or one that is already held back.
TooLate(s) == Dist(s, expected) >= SeqSpace \div 2 \/ s \in waiting

\* push.  The clock decides whether some packet was held back for 50 ms.
push(s) ==
  \/ /\ expected = -1
     /\ Release(<<s>>, (s + 1) % SeqSpace, {}, 0)
  \/ /\ expected = s
     /\ Release(<<s>>, (s + 1) % SeqSpace, waiting, 0)
  \/ /\ expected \notin {-1, s}
     /\ TooLate(s)
     /\ UNCHANGED <<expected, waiting, lostCount, released>>
  \/ /\ expected \notin {-1, s}
     /\ ~ TooLate(s)
     /\ LET held == waiting \cup {s} IN
        \E timedOut \in IF waiting = {} THEN {FALSE} ELSE BOOLEAN :
          IF Dist(s, expected) >= Window \/ timedOut \/ Cardinality(held) >= Window
          THEN skip_gap(held)
          ELSE waiting' = held /\ UNCHANGED <<expected, lostCount, released>>

----------------------------------------------------------------------------
\* handle_h26x

Piece(p) == [unit |-> p.unit, head |-> p.start, lo |-> p.lo, hi |-> p.hi]

\* handle_h265: a fragment without a beginning is dropped.
handle_h265(st, p) ==
  LET buf == IF p.start THEN <<Piece(p)>>
             ELSE IF st.buf # << >> THEN Append(st.buf, Piece(p)) ELSE << >>
  IN IF p.end /\ buf # << >> THEN [buf |-> << >>, out |-> Append(st.out, buf)]
     ELSE [st EXCEPT !.buf = buf]

\* FU-A: a fragment that starts clears the buffer, every one is appended.
handle_fu_a(st, p) ==
  LET buf == (IF p.start THEN << >> ELSE st.buf) \o <<Piece(p)>>
  IN IF p.end THEN [buf |-> << >>, out |-> Append(st.out, buf)] ELSE [st EXCEPT !.buf = buf]

\* A single unit is published at once and leaves the buffer alone.
handle_h26x(st, p) ==
  IF ~ p.fu THEN [st EXCEPT !.out = Append(@, <<Piece(p)>>)]
  ELSE IF vcodec = "h264" THEN handle_fu_a(st, p)
  ELSE handle_h265(st, p)

\* detect_payload_type looks for the types that only H.265 has, in what would be
\* its header.  Fragments and parameter sets are told apart; an H.265 slice is
\* taken for H.264, and an H.264 slice for either, by its nal_ref_idc.
detect_payload_type(p) ==
  IF p.fu \/ p.unit = 1 THEN {vcodec}
  ELSE IF vcodec = "h265" THEN {"h264"} ELSE {"h264", "h265"}

\* handle_rtp under the codec c.  Read as the other codec a packet, whole unit or
\* fragment, is published for a unit.
handle_rtp(c, st, p) ==
  IF c = vcodec THEN handle_h26x(st, p) ELSE [st EXCEPT !.out = Append(@, <<Piece(p)>>)]

\* ingest_packet: every packet that push releases goes through handle_rtp; the
\* first decides on the codec for good.
ingest_packet(i) ==
  /\ arrived[i] < Copies
  /\ arrived' = [arrived EXCEPT ![i] = @ + 1]
  /\ push(Number(i))
  /\ LET new == SubSeq(released', Len(released) + 1, Len(released')) IN
     /\ detected' \in IF detected = "auto" /\ new # << >>
                       THEN detect_payload_type(Wire(vcodec)[new[1]]) ELSE {detected}
     /\ LET st == FoldLeft(LAMBDA a, j : handle_rtp(detected', a, Wire(vcodec)[j]),
                           [buf |-> fuBuf, out |-> output], new)
        IN fuBuf' = st.buf /\ output' = st.out
  /\ UNCHANGED <<vcodec, firstSeq>>

RtpInit ==
  /\ vcodec \in {"h264", "h265"}
  /\ detected \in {vcodec, "auto"}
  /\ firstSeq \in FirstSeqs
  /\ arrived = [i \in 1 .. Len(Wire(vcodec)) |-> 0]
  /\ expected = -1
  /\ waiting = {}
  /\ lostCount = 0
  /\ released = << >>
  /\ fuBuf = << >>
  /\ output = << >>

RtpNext == \E i \in DOMAIN arrived : ingest_packet(i)

----------------------------------------------------------------------------
\* "Packets are released in order, duplicates/late packets are discarded": what
\* reaches the depacketizer is a subsequence of the wire, across the wrap of the
\* sequence number and whatever the network does.
ReleasedInOrder ==
  \A i, j \in DOMAIN released : i < j => released[i] < released[j]

\* The books balance: every number between the first packet and expected was
\* either released or counted as lost, and none of them both.
LossIsCounted ==
  released # << >> =>
    Dist(expected, Number(released[1])) = (Len(released) + lostCount) % SeqSpace

\* "a bounded window prevents a missing packet from stalling the stream": fewer
\* packets than the window are held back, and all of them are still to come.
WindowHolds ==
  /\ Cardinality(waiting) < Window
  /\ \A s \in waiting : 0 < Dist(s, expected) /\ Dist(s, expected) < SeqSpace \div 2

\* Pieces make a whole unit: from its header to its last byte without a gap.
Whole(buf) ==
  /\ buf[1].head
  /\ \A k \in 2 .. Len(buf) : buf[k].unit = buf[1].unit /\ buf[k].lo = buf[k - 1].hi
  /\ buf[Len(buf)].hi = Units[buf[1].unit]

\* Without loss the receiver publishes the sender's units, whole and in order,
\* however packets were reordered and repeated on the way.
LosslessIsExact ==
  lostCount = 0 /\ released # << >> /\ released[1] = 1 =>
    \A k \in DOMAIN output : Whole(output[k]) /\ output[k][1].unit = k

\* Loss never makes the H.265 path publish a unit that lacks its header.
NoHeadlessUnit ==
  vcodec = "h265" /\ detected = "h265" => \A k \in DOMAIN output : output[k][1].head

\* The RTP receiver: the reorder buffer releases in order, keeps its books and its
\* window, and what is published is what was sent, or with H.265 at least has its
\* header (RtpReorderBuffer, RtpStreamReceiver).
RtpExact ==
  ReleasedInOrder /\ LossIsCounted /\ WindowHolds /\ LosslessIsExact /\ NoHeadlessUnit
=============================================================================
