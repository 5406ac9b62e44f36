---------------------------- MODULE TranscodePipe ----------------------------
(***************************************************************************)
(* One transcode session at work: TranscodeSession::run and the            *)
(* StreamingTranscoder it feeds (crates/transcode/src/manager.rs).  Frames *)
(* go from the session through a bounded channel, a writer task and a pipe *)
(* into ffmpeg, and from there through a pipe, a reader task and a bounded *)
(* channel back to the session.                                            *)
(*                                                                         *)
(* Frames are numbers.  ffmpeg (external) turns each into one unit of      *)
(* output, as its zerolatency setting asks, and may die at any point.      *)
(***************************************************************************)
EXTENDS Integers, Sequences, FiniteSets

CONSTANTS
  GopLens,      \* frames of the GOP that is replayed first
  LiveFrames,   \* frames published while the session runs
  ChanCap,      \* the capacity of both channels (64)
  PipeCap       \* what an OS pipe holds

ASSUME TpCaps == ChanCap \in Nat \ {0} /\ PipeCap \in Nat \ {0}

VARIABLES
  tpGop,        \* length of the GOP
  tpNext,       \* the next frame of the source
  tpPc,         \* the session: "replay", "select", "feed", "ended"
  tpHeld,       \* the frame the session feeds, 0 for none
  tpStdin,      \* stdin_tx's channel
  tpWriter,     \* the frame the writer task writes, 0 for none, -1 when gone
  tpPipeIn,     \* ffmpeg's stdin
  tpFf,         \* the unit ffmpeg writes, 0 for none, -1 when dead
  tpPipeOut,    \* ffmpeg's stdout
  tpReader,     \* the unit the reader task sends, 0 for none, -1 when gone
  tpOut,        \* out_rx's channel
  tpBuf,        \* the unit kept in buf until the next start code, 0 for none
  tpDest,       \* units published to the destination
  tpClosed      \* the source is closed

tpVars == <<tpGop, tpNext, tpPc, tpHeld, tpStdin, tpWriter, tpPipeIn, tpFf, tpPipeOut,
            tpReader, tpOut, tpBuf, tpDest, tpClosed>>

TpInit ==
  /\ tpGop \in GopLens
  /\ tpNext = 1
  /\ tpPc = "replay"
  /\ tpHeld = 0
  /\ tpStdin = <<>>
  /\ tpWriter = 0
  /\ tpPipeIn = <<>>
  /\ tpFf = 0
  /\ tpPipeOut = <<>>
  /\ tpReader = 0
  /\ tpOut = <<>>
  /\ tpBuf = 0
  /\ tpDest = <<>>
  /\ tpClosed = FALSE

-----------------------------------------------------------------------------
(* The session. *)

\* The GOP is fed before the loop, and nothing of the output is read meanwhile.
replay_gop ==
  /\ tpPc = "replay" /\ tpHeld = 0
  /\ IF tpNext <= tpGop
     THEN tpHeld' = tpNext /\ tpNext' = tpNext + 1 /\ UNCHANGED tpPc
     ELSE tpPc' = "select" /\ UNCHANGED <<tpHeld, tpNext>>
  /\ UNCHANGED <<tpGop, tpStdin, tpWriter, tpPipeIn, tpFf, tpPipeOut, tpReader, tpOut, tpBuf,
                 tpDest, tpClosed>>

\* The select! arm for a frame of the source, which is published while the
\* session waits, or has been before.
select_frame ==
  /\ tpPc = "select"
  /\ ~tpClosed
  /\ tpNext <= tpGop + LiveFrames
  /\ tpHeld' = tpNext
  /\ tpNext' = tpNext + 1
  /\ tpPc' = "feed"
  /\ UNCHANGED <<tpGop, tpStdin, tpWriter, tpPipeIn, tpFf, tpPipeOut, tpReader, tpOut, tpBuf,
                 tpDest, tpClosed>>

source_closes ==
  /\ ~tpClosed
  /\ tpClosed' = TRUE
  /\ UNCHANGED <<tpGop, tpNext, tpPc, tpHeld, tpStdin, tpWriter, tpPipeIn, tpFf, tpPipeOut,
                 tpReader, tpOut, tpBuf, tpDest>>

\* feed waits for room in the channel; without a receiver it does nothing.
room_or_gone == tpWriter = -1 \/ Len(tpStdin) < ChanCap
tp_feed ==
  /\ tpPc \in {"replay", "feed"} /\ tpHeld > 0
  /\ room_or_gone
  /\ tpStdin' = IF tpWriter = -1 THEN tpStdin ELSE Append(tpStdin, tpHeld)
  /\ tpHeld' = 0
  /\ tpPc' = IF tpPc = "feed" THEN "select" ELSE tpPc
  /\ UNCHANGED <<tpGop, tpNext, tpWriter, tpPipeIn, tpFf, tpPipeOut, tpReader, tpOut, tpBuf,
                 tpDest, tpClosed>>

\* Mutant: a unit is published as soon as it begins, and is still held.
emitted_now(unit) == Append(tpDest, unit)

\* A unit is known to be complete, and published, when the next one begins.
emitted(unit) == IF tpBuf = 0 THEN tpDest ELSE Append(tpDest, tpBuf)

\* The select! arm for output.
select_output ==
  /\ tpPc = "select"
  /\ tpOut # <<>>
  /\ tpDest' = emitted(Head(tpOut))
  /\ tpBuf' = Head(tpOut)
  /\ tpOut' = Tail(tpOut)
  /\ UNCHANGED <<tpGop, tpNext, tpPc, tpHeld, tpStdin, tpWriter, tpPipeIn, tpFf, tpPipeOut,
                 tpReader, tpClosed>>

\* Mutant: only the end of the source ends the session.
output_over_never == FALSE

\* Both arms break the loop: the source closed, or no output can come any more.
output_over == tpOut = <<>> /\ tpReader = -1
session_ends ==
  /\ tpPc = "select"
  /\ tpClosed \/ output_over
  /\ tpPc' = "ended"
  /\ tpFf' = -1
  /\ UNCHANGED <<tpGop, tpNext, tpHeld, tpStdin, tpWriter, tpPipeIn, tpPipeOut, tpReader,
                 tpOut, tpBuf, tpDest, tpClosed>>

\* A receiver that fell behind breaks the loop as the end of the source does.
select_lagged ==
  /\ tpPc = "select"
  /\ ~tpClosed
  /\ tpPc' = "ended"
  /\ tpFf' = -1
  /\ UNCHANGED <<tpGop, tpNext, tpHeld, tpStdin, tpWriter, tpPipeIn, tpPipeOut, tpReader,
                 tpOut, tpBuf, tpDest, tpClosed>>

\* stop(): running is cleared and the task aborted wherever it waits, and with it
\* goes the transcoder.
stop_session ==
  /\ tpPc' = "ended"
  /\ tpFf' = -1
  /\ UNCHANGED <<tpGop, tpNext, tpHeld, tpStdin, tpWriter, tpPipeIn, tpPipeOut, tpReader,
                 tpOut, tpBuf, tpDest, tpClosed>>

-----------------------------------------------------------------------------
(* The tasks at the pipes, and ffmpeg. *)

writer_takes ==
  /\ tpWriter = 0 /\ tpStdin # <<>>
  /\ tpWriter' = Head(tpStdin)
  /\ tpStdin' = Tail(tpStdin)
  /\ UNCHANGED <<tpGop, tpNext, tpPc, tpHeld, tpPipeIn, tpFf, tpPipeOut, tpReader, tpOut,
                 tpBuf, tpDest, tpClosed>>

\* write_all waits for room; a broken pipe ends the task, and with it the channel.
writer_writes ==
  /\ tpWriter > 0
  /\ IF tpFf = -1
     THEN tpWriter' = -1 /\ tpStdin' = <<>> /\ UNCHANGED tpPipeIn
     ELSE /\ Len(tpPipeIn) < PipeCap
          /\ tpPipeIn' = Append(tpPipeIn, tpWriter)
          /\ tpWriter' = 0
          /\ UNCHANGED tpStdin
  /\ UNCHANGED <<tpGop, tpNext, tpPc, tpHeld, tpFf, tpPipeOut, tpReader, tpOut, tpBuf, tpDest,
                 tpClosed>>

ffmpeg_reads ==
  /\ tpFf = 0 /\ tpPipeIn # <<>>
  /\ tpFf' = Head(tpPipeIn)
  /\ tpPipeIn' = Tail(tpPipeIn)
  /\ UNCHANGED <<tpGop, tpNext, tpPc, tpHeld, tpStdin, tpWriter, tpPipeOut, tpReader, tpOut,
                 tpBuf, tpDest, tpClosed>>

ffmpeg_writes ==
  /\ tpFf > 0 /\ Len(tpPipeOut) < PipeCap
  /\ tpPipeOut' = Append(tpPipeOut, tpFf)
  /\ tpFf' = 0
  /\ UNCHANGED <<tpGop, tpNext, tpPc, tpHeld, tpStdin, tpWriter, tpPipeIn, tpReader, tpOut,
                 tpBuf, tpDest, tpClosed>>

ffmpeg_dies ==
  /\ tpFf # -1
  /\ tpFf' = -1
  /\ UNCHANGED <<tpGop, tpNext, tpPc, tpHeld, tpStdin, tpWriter, tpPipeIn, tpPipeOut, tpReader,
                 tpOut, tpBuf, tpDest, tpClosed>>

\* End of file ends the reader, which aborts the writer and drops out_tx.
reader_reads ==
  /\ tpReader = 0
  /\ IF tpPipeOut # <<>>
     THEN /\ tpReader' = Head(tpPipeOut)
          /\ tpPipeOut' = Tail(tpPipeOut)
          /\ UNCHANGED <<tpWriter, tpStdin>>
     ELSE /\ tpFf = -1
          /\ tpReader' = -1
          /\ tpWriter' = -1
          /\ tpStdin' = <<>>
          /\ UNCHANGED tpPipeOut
  /\ UNCHANGED <<tpGop, tpNext, tpPc, tpHeld, tpPipeIn, tpFf, tpOut, tpBuf, tpDest, tpClosed>>

\* out_tx.send waits for room.
reader_sends ==
  /\ tpReader > 0
  /\ Len(tpOut) < ChanCap
  /\ tpOut' = Append(tpOut, tpReader)
  /\ tpReader' = 0
  /\ UNCHANGED <<tpGop, tpNext, tpPc, tpHeld, tpStdin, tpWriter, tpPipeIn, tpFf, tpPipeOut,
                 tpBuf, tpDest, tpClosed>>

Session == replay_gop \/ select_frame \/ tp_feed \/ select_output \/ session_ends
Breaks == select_lagged \/ stop_session
Pumps == writer_takes \/ writer_writes \/ reader_reads \/ reader_sends
Ffmpeg == ffmpeg_reads \/ ffmpeg_writes
TpNext ==
  (tpPc # "ended" /\ (Session \/ Breaks \/ Pumps \/ Ffmpeg \/ ffmpeg_dies)) \/ source_closes

\* The tasks are scheduled and the processes run; the source owes no frame, ffmpeg
\* need not die, and nobody has to stop the session.
SessionWork == tpPc # "ended" /\ (replay_gop \/ tp_feed \/ select_output \/ session_ends)
WriterWork == tpPc # "ended" /\ (writer_takes \/ writer_writes)
ReaderWork == tpPc # "ended" /\ (reader_reads \/ reader_sends)
FfmpegWork == tpPc # "ended" /\ Ffmpeg
TpFairness ==
  WF_tpVars(SessionWork) /\ WF_tpVars(WriterWork) /\ WF_tpVars(ReaderWork) /\ WF_tpVars(FfmpegWork)

-----------------------------------------------------------------------------
(* Properties. *)

One(x) == IF x > 0 THEN <<x>> ELSE <<>>

\* While ffmpeg lives, nothing is lost, doubled or reordered between the source
\* and the destination: what was published, what is on its way and what is about
\* to be fed are the frames of the source in a row.
TpConserved ==
  tpFf # -1 /\ tpPc # "ended" =>
    LET all == tpDest \o One(tpBuf) \o tpOut \o One(tpReader) \o tpPipeOut \o One(tpFf)
                 \o tpPipeIn \o One(tpWriter) \o tpStdin \o One(tpHeld)
    IN all = [i \in 1 .. tpNext - 1 |-> i]

\* When ffmpeg dies the session ends, wherever it was: also when every channel
\* and pipe was full and everyone waited for everyone.
TpDeathEnds == (tpFf = -1) ~> (tpPc = "ended")

\* stdout is drained by a dedicated background task so the OS pipe never blocks
\* (manager.rs:11): ffmpeg can always get rid of its output in the end.
TpPipeDrains == (Len(tpPipeOut) = PipeCap /\ tpFf > 0) ~> (tpFf <= 0 \/ Len(tpPipeOut) < PipeCap)
=============================================================================
