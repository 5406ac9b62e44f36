--------------------------- MODULE MCMediaSource ---------------------------
(***************************************************************************)
(* Instances of MediaSource for TLC.                                       *)
(***************************************************************************)
EXTENDS MediaSource, Consumers, TLC

CONSTANTS p1, p2, r1, r2

AVEmits == p1 :> {"video_config", "key", "video"} @@ p2 :> {"audio"}
VideoEmits == p1 :> {"video_config", "key", "video"}

Overrun == r1 :> Fmp4Recorder @@ r2 :> TranscodeInput
OneFlvRecorder == r1 :> FlvRecorder
OneMp4Recorder == r1 :> Mp4Recorder
=============================================================================
