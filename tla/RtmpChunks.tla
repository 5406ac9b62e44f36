----------------------------- MODULE RtmpChunks -----------------------------
(***************************************************************************)
(* RTMP messages in chunks: the parser and the encoder of                  *)
(* crates/rtmp/src/message.rs, between a publisher and a session of this   *)
(* server.  The publisher is this server's own push client, which uses the *)
(* encoder below, or a foreign one: it interleaves its chunk streams,      *)
(* sends time deltas and announces the chunk size it sends with.           *)
(*                                                                         *)
(* A payload byte is <<chunk stream, message, index>>.  The lengths of     *)
(* headers are scaled down; what counts is that a read may end inside of   *)
(* one.  A parser that has taken payload for a header, or a header for     *)
(* payload, is lost: what it reports from then on is not modelled.         *)
(***************************************************************************)
EXTENDS Integers, Sequences, SequencesExt, FiniteSetsExt, TLC

CONSTANTS
  RtmpPlans,    \* [peer, msgs]: the messages of each chunk stream, in order
  Csids,        \* the chunk streams
  FirstSize,    \* the chunk size both sides start with (128)
  ServerSize,   \* the size the server announces for what it sends (4096)
  TsLimit       \* the times that need an extended timestamp (0xFFFFFF)

VARIABLES
  rcPlan,
  rcSent,       \* per chunk stream: messages begun, bytes of the last one sent
  rcTimes,      \* per chunk stream: the time of the last message begun
  rcEnc,        \* the encoder's chunk size
  rcTold,       \* the sender's chunk size as it told the receiver
  rcWire,       \* chunks sent and not yet consumed
  rcAvail,      \* bytes of rcWire that were read from the socket
  rcPar,        \* RtmpMessageParser: chunk size and chunk_states
  rcOut,        \* messages reported
  rcHandled,    \* those the session has handled
  rcLost,       \* the parser has lost the chunk boundaries
  rcTorn,       \* a read ended inside the payload of a chunk
  rcExt         \* an extended timestamp was sent

rcVars == <<rcPlan, rcSent, rcTimes, rcEnc, rcTold, rcWire, rcAvail, rcPar, rcOut,
            rcHandled, rcLost, rcTorn, rcExt>>

NewState == [ext |-> FALSE, field |-> 0, ts |-> 0, len |-> 0, type |-> "none", buf |-> <<>>]

RcInit ==
  /\ rcPlan \in RtmpPlans
  /\ rcSent = [c \in Csids |-> [msg |-> 0, off |-> 0]]
  /\ rcTimes = [c \in Csids |-> 0]
  /\ rcEnc = FirstSize
  /\ rcTold = FirstSize
  /\ rcWire = <<>>
  /\ rcAvail = 0
  /\ rcPar = [size |-> FirstSize, states |-> [c \in Csids |-> NewState]]
  /\ rcOut = <<>>
  /\ rcHandled = 0
  /\ rcLost = FALSE
  /\ rcTorn = FALSE
  /\ rcExt = FALSE

-----------------------------------------------------------------------------
(* The sender. *)

Msg(c) == rcPlan.msgs[c][rcSent[c].msg]
Open(c) == rcSent[c].msg > 0 /\ rcSent[c].off < Msg(c).len
Payload(c, lo, hi) == [i \in 1 .. hi - lo |-> <<c, rcSent[c].msg, lo + i>>]

\* RtmpMessageEncoder::encode gives every message a full header; a foreign
\* publisher sends the later ones with the time since the one before, and with the
\* length and type only when they change.
encode_header(c, first) ==
  LET m == rcPlan.msgs[c][rcSent[c].msg + 1]
      full == first \/ rcPlan.peer = "own"
      value == IF full THEN m.ts ELSE m.ts - rcTimes[c]
      alike == m.len = Msg(c).len /\ m.type = Msg(c).type
  IN [csid |-> c, fmt |-> IF full THEN 0 ELSE IF alike THEN 2 ELSE 1, value |-> value,
      field |-> IF value >= TsLimit THEN TsLimit ELSE value, ext |-> value >= TsLimit,
      len |-> m.len, type |-> m.type, size |-> m.size]

send(chunk, c, sent) ==
  /\ rcWire' = Append(rcWire, chunk)
  /\ rcSent' = [rcSent EXCEPT ![c] = sent]
  /\ rcExt' = (rcExt \/ chunk.ext)

\* The first chunk of the next message of a chunk stream.
encode_first(c) ==
  /\ ~Open(c)
  /\ rcPlan.peer = "own" => \A d \in Csids : ~Open(d)
  /\ rcSent[c].msg < Len(rcPlan.msgs[c])
  /\ LET h == encode_header(c, rcSent[c].msg = 0)
         n == Min({rcEnc, h.len})
         bytes == [i \in 1 .. n |-> <<c, rcSent[c].msg + 1, i>>]
     IN send(h @@ [bytes |-> bytes], c, [msg |-> rcSent[c].msg + 1, off |-> n])
  /\ rcTimes' = [rcTimes EXCEPT ![c] = rcPlan.msgs[c][rcSent[c].msg + 1].ts]
  /\ IF rcPlan.msgs[c][rcSent[c].msg + 1].type = "size"
     THEN /\ rcEnc' = rcPlan.msgs[c][rcSent[c].msg + 1].size
          /\ rcTold' = rcPlan.msgs[c][rcSent[c].msg + 1].size
     ELSE UNCHANGED <<rcEnc, rcTold>>
  /\ UNCHANGED <<rcPlan, rcAvail, rcPar, rcOut, rcHandled, rcLost, rcTorn>>

\* A further chunk: a foreign publisher repeats an extended timestamp in it.
encode_next(c) ==
  /\ Open(c)
  /\ LET n == Min({rcEnc, Msg(c).len - rcSent[c].off})
         ext == rcPlan.peer = "foreign" /\ rcSent[c].msg = 1 /\ Msg(c).ts >= TsLimit
     IN send([csid |-> c, fmt |-> 3, value |-> Msg(c).ts, field |-> 0, ext |-> ext, len |-> 0,
              type |-> "none", size |-> 0,
              bytes |-> Payload(c, rcSent[c].off, rcSent[c].off + n)],
             c, [rcSent[c] EXCEPT !.off = @ + n])
  /\ UNCHANGED <<rcPlan, rcTimes, rcEnc, rcTold, rcAvail, rcPar, rcOut, rcHandled, rcLost, rcTorn>>

\* The server says at connect what size it sends with (session.rs:387); this
\* server's own client takes that for the size to send with itself.
apply_control_messages ==
  /\ rcPlan.peer = "own"
  /\ rcEnc = FirstSize
  /\ \A c \in Csids : ~Open(c)
  /\ rcEnc' = ServerSize
  /\ UNCHANGED <<rcPlan, rcSent, rcTimes, rcTold, rcWire, rcAvail, rcPar, rcOut, rcHandled,
                 rcLost, rcTorn, rcExt>>

-----------------------------------------------------------------------------
(* RtmpMessageParser. *)

BaseLen(fmt) == CASE fmt = 0 -> 3 [] fmt \in {1, 2} -> 2 [] OTHER -> 1
ChunkHeaderLen(ch) == BaseLen(ch.fmt) + (IF ch.ext THEN 1 ELSE 0)
ChunkLen(ch) == ChunkHeaderLen(ch) + Len(ch.bytes)
WireLen(w) == FoldLeft(LAMBDA n, ch : n + ChunkLen(ch), 0, w)

Ch == Head(rcWire)
Prev == rcPar.states[Ch.csid]

\* fmt 0 sets all, fmt 1 and 2 a part, fmt 3 keeps what was there.
inherit(p, ch) ==
  [p EXCEPT !.ext = IF ch.fmt = 0 THEN FALSE ELSE @,
            !.field = IF ch.fmt = 3 THEN @ ELSE ch.field,
            !.len = IF ch.fmt \in {2, 3} THEN @ ELSE ch.len,
            !.type = IF ch.fmt \in {2, 3} THEN @ ELSE ch.type,
            !.buf = IF ch.fmt = 0 THEN <<>> ELSE @]

wants_ext(st, ch) == st.field = TsLimit \/ (ch.fmt = 3 /\ st.ext)

extend(st, ch) ==
  IF st.field = TsLimit THEN [st EXCEPT !.field = ch.value, !.ext = TRUE] ELSE st

ParsedHeader == LET st == inherit(Prev, Ch)
                IN BaseLen(Ch.fmt) + (IF wants_ext(st, Ch) THEN 1 ELSE 0)
Remaining == LET st == inherit(Prev, Ch) IN st.len - Len(st.buf)
ToRead == Min({Remaining, rcPar.size})

\* try_parse_one does nothing until the header and, unless the message is empty, a
\* byte of payload are there.
CanParse == /\ ~rcLost /\ rcWire # <<>> /\ rcAvail >= ParsedHeader
            /\ Remaining > 0 => rcAvail > ParsedHeader /\ rcPar.size > 0

\* The time of a message: its field when its last chunk had a full header,
\* else the field added to the time of the message before it.
message_time(st, ch) == IF ch.fmt = 0 THEN st.field ELSE Prev.ts + st.field

\* Mutant: Set Chunk Size is not applied by the parser.
new_chunk_size_kept(st, ch) == rcPar.size

new_chunk_size(st, ch) == IF st.type = "size" THEN Max({ch.size, 1}) ELSE rcPar.size

\* One chunk whose boundaries the parser and the sender agree on.
parse_chunk ==
  LET st == extend(inherit(Prev, Ch), Ch)
      buf == st.buf \o Ch.bytes
      done == Len(buf) >= st.len
      ts == message_time(st, Ch)
      saved == [st EXCEPT !.buf = IF done THEN <<>> ELSE buf,
                          !.ts = IF done THEN ts ELSE @]
  IN /\ CanParse /\ Remaining > 0
     /\ ParsedHeader = ChunkHeaderLen(Ch)
     /\ ToRead = Len(Ch.bytes)
     /\ rcAvail >= ChunkLen(Ch)
     /\ rcPar' = [size |-> IF done THEN new_chunk_size(st, Ch) ELSE rcPar.size,
                  states |-> [rcPar.states EXCEPT ![Ch.csid] = saved]]
     /\ rcOut' = IF done THEN Append(rcOut, [bytes |-> buf, ts |-> ts, type |-> st.type,
                                                size |-> Ch.size]) ELSE rcOut
     /\ rcWire' = Tail(rcWire)
     /\ rcAvail' = rcAvail - ChunkLen(Ch)
     /\ UNCHANGED <<rcPlan, rcSent, rcTimes, rcEnc, rcTold, rcHandled, rcLost, rcTorn, rcExt>>

\* The header of an empty message is dropped: it is not reported, and its chunk
\* stream forgets it.
parse_empty ==
  /\ CanParse /\ Remaining = 0
  /\ ParsedHeader = ChunkHeaderLen(Ch) /\ Ch.bytes = <<>>
  /\ rcWire' = Tail(rcWire)
  /\ rcAvail' = rcAvail - ChunkLen(Ch)
  /\ UNCHANGED <<rcPlan, rcSent, rcTimes, rcEnc, rcTold, rcPar, rcOut, rcHandled, rcLost, rcTorn,
                 rcExt>>

\* Whatever part of the payload is there is taken, and the next byte is read as
\* a basic header; so is the byte after a header or a payload of another length.
parse_astray ==
  /\ CanParse
  /\ \/ ParsedHeader # ChunkHeaderLen(Ch)
     \/ ToRead # Len(Ch.bytes)
     \/ rcAvail < ChunkLen(Ch)
  /\ rcLost' = TRUE
  /\ UNCHANGED <<rcPlan, rcSent, rcTimes, rcEnc, rcTold, rcWire, rcAvail, rcPar, rcOut, rcHandled,
                 rcTorn, rcExt>>

\* After a read the session handles its messages, and applies the last Set Chunk Size
\* among them once more, as it came.
handle_message ==
  /\ ~CanParse /\ ~rcLost
  /\ rcHandled < Len(rcOut)
  /\ LET sizes == {i \in rcHandled + 1 .. Len(rcOut) : rcOut[i].type = "size"} IN
     rcPar' = IF sizes = {} THEN rcPar ELSE [rcPar EXCEPT !.size = rcOut[Max(sizes)].size]
  /\ rcHandled' = Len(rcOut)
  /\ UNCHANGED <<rcPlan, rcSent, rcTimes, rcEnc, rcTold, rcWire, rcAvail, rcOut, rcLost, rcTorn,
                 rcExt>>

\* The bytes at which chunk payloads lie on the wire, their ends excluded.
InPayload(n) ==
  \E i \in 1 .. Len(rcWire) :
    LET before == WireLen(SubSeq(rcWire, 1, i - 1))
    IN /\ n > before + ChunkHeaderLen(rcWire[i])
       /\ n < before + ChunkLen(rcWire[i])

\* A read returns any number of the bytes sent.
rc_feed(n) ==
  /\ ~CanParse
  /\ ~rcLost /\ rcHandled = Len(rcOut)
  /\ n > rcAvail /\ n <= WireLen(rcWire)
  /\ rcAvail' = n
  /\ rcTorn' = (rcTorn \/ InPayload(n))
  /\ UNCHANGED <<rcPlan, rcSent, rcTimes, rcEnc, rcTold, rcWire, rcPar, rcOut, rcHandled, rcLost,
                 rcExt>>

MaxWire == 2
RcNext ==
  \/ \E c \in Csids : Len(rcWire) < MaxWire /\ (encode_first(c) \/ encode_next(c))
  \/ apply_control_messages
  \/ \E n \in 1 .. WireLen(rcWire) : rc_feed(n)
  \/ parse_chunk
  \/ parse_empty
  \/ parse_astray
  \/ handle_message

-----------------------------------------------------------------------------
(* Properties. *)

\* The empty messages before message i of a chunk stream.
Empty(c, i) == {j \in 1 .. i - 1 : rcPlan.msgs[c][j].len = 0}

\* A foreign publisher refers to an empty message, which the parser has forgotten.
Forgotten(c, i) == rcPlan.peer = "foreign" /\ Empty(c, i) # {}

\* The parser keeps the chunk boundaries through interleaved chunk streams,
\* inherited headers and changes of the chunk size, which the session makes once
\* more, wherever in a header a read ends; only a read that ends inside a payload, a
\* chunk size that was not announced, an extended timestamp or a header that refers
\* to an empty message can make it lose them.
RtmpAligned ==
  rcLost => (rcTorn \/ rcEnc # rcTold \/ rcExt \/ \E c \in Csids : Forgotten(c, rcSent[c].msg))

\* While it has the boundaries, every message but an empty one comes out once, in the
\* order in which the last chunks arrived, with exactly its bytes; and with its time
\* when it came in one chunk or with a delta to one that was not empty
\* (try_parse_one, steps 2 to 5).
RtmpMessagesExact ==
  \A i \in 1 .. Len(rcOut) :
    LET b == rcOut[i].bytes
        c == b[1][1]
        n == b[1][2]
        m == rcPlan.msgs[c][n]
    IN /\ b = [k \in 1 .. m.len |-> <<c, n, k>>]
       /\ rcOut[i].type = m.type
       /\ n = Cardinality({j \in 1 .. i : rcOut[j].bytes[1][1] = c}) + Cardinality(Empty(c, n))
       /\ IF rcPlan.peer = "foreign" /\ n > 1 THEN Forgotten(c, n) \/ rcOut[i].ts = m.ts
          ELSE m.len <= FirstSize => rcOut[i].ts = m.ts

\* The parser keeps the chunk boundaries, and reports the messages as long as it
\* has them.
RtmpExact == RtmpAligned /\ RtmpMessagesExact

\* A message of this server's encoder comes out with the time it was sent with:
\* its header says fmt 0, which sets all (message.rs:271), and gives the time.
\* The flag that the time is absolute is lost with the second chunk.
RtmpTimeKept ==
  \A i \in 1 .. Len(rcOut) :
    LET b == rcOut[i].bytes IN rcOut[i].ts = rcPlan.msgs[b[1][1]][b[1][2]].ts

\* A session reads this server's own push client with the size the client sends
\* with: the server's parser stays at the client's send chunk size
\* (session.rs:385), and so it keeps the chunk boundaries of whole reads.
RtmpOwnAligned ==
  rcPlan.peer = "own" /\ ~rcTorn /\ ~rcExt => ~rcLost
=============================================================================
