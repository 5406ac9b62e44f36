----------------------------- MODULE Consumers -----------------------------
(***************************************************************************)
(* Every consumer of a media source, reduced to what decides which frames  *)
(* it sees: the order of its startup steps ("media" is the cached GOP      *)
(* without its configuration frames), what it does when the channel        *)
(* overran it, and whether it forwards configuration frames received live. *)
(***************************************************************************)

Consumer(startup, on_lag, live_config) ==
  [startup |-> startup, on_lag |-> on_lag, live_config |-> live_config]

\* Subscribe, then read the cache.
SdkSubscription == Consumer(<<"subscribe", "gop">>, "continue", TRUE)
FlvRecorder == Consumer(<<"subscribe", "gop">>, "continue", TRUE)
SrtPush == Consumer(<<"subscribe", "gop">>, "continue", TRUE)
WhipPush == Consumer(<<"subscribe", "gop">>, "continue", TRUE)
RtpSender == Consumer(<<"subscribe", "gop">>, "continue", TRUE)
Fmp4Recorder == Consumer(<<"subscribe", "config", "media">>, "continue", FALSE)
CmafTask == Consumer(<<"subscribe", "config", "media">>, "continue", FALSE)
DashTask == Consumer(<<"subscribe", "config", "media">>, "continue", FALSE)

\* Read the cache, then subscribe.
Mp4Recorder == Consumer(<<"config", "media", "subscribe">>, "continue", TRUE)
RtmpPlay == Consumer(<<"gop", "subscribe">>, "continue", TRUE)
RtspPlay == Consumer(<<"gop", "subscribe">>, "continue", TRUE)
RtspPush == Consumer(<<"gop", "subscribe">>, "continue", TRUE)
WhepPump == Consumer(<<"gop", "subscribe">>, "continue", TRUE)
TranscodeInput == Consumer(<<"gop", "subscribe">>, "end", TRUE)
HttpFlv == Consumer(<<"gop", "subscribe">>, "end", FALSE)
HttpTs == Consumer(<<"config", "gop", "subscribe">>, "end", TRUE)
HttpFmp4 == Consumer(<<"config", "media", "subscribe">>, "continue", FALSE)
WsFlv == Consumer(<<"gop", "subscribe">>, "continue", FALSE)
WsTs == Consumer(<<"config", "gop", "subscribe">>, "continue", TRUE)
WsFmp4 == Consumer(<<"config", "media", "subscribe">>, "continue", FALSE)

\* Read no cached GOP.
HlsRecorder == Consumer(<<"config", "subscribe">>, "continue", TRUE)
HlsTask == Consumer(<<"config", "subscribe">>, "continue", TRUE)
RtmpPush == Consumer(<<"subscribe">>, "continue", TRUE)
=============================================================================
