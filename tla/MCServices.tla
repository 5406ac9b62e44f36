----------------------------- MODULE MCServices -----------------------------
(***************************************************************************)
(* Services that keep a table: FFmpeg sources, transcoding sessions, the   *)
(* hook client, the GB28181 server and the segment caches.  They share no  *)
(* state, so a behaviour is a behaviour of one of them, the one that       *)
(* `service` names, while the others keep their first state: TLC then      *)
(* visits the sum of their state spaces, where their product would say     *)
(* nothing more.  The queries of the GB28181 server do not touch its       *)
(* dialogs and are followed apart from them ("query").                     *)
(***************************************************************************)
EXTENDS FfmpegSources, TranscodeTable, Hooks, SipServer, SegmentCaches

VARIABLE service

serviceVars == <<service, ffVars, ttVars, hkVars, sipVars, segVars>>

\* The services that are not followed start in one state only.
Still(s, firstChoice) == service = s \/ firstChoice

Init ==
  /\ service \in {"ffmpeg", "transcode", "hook", "sip", "query", "segments"}
  /\ FfInit
  /\ TtInit
  /\ HkInit /\ Still("hook", hkConfig = CHOOSE v \in Values : v.interval > 0)
  /\ SipInit /\ Still("sip", /\ calls = CHOOSE c \in CallPlans : TRUE
                             /\ nextMedia = CHOOSE n \in FirstMedia : TRUE)
  /\ SegInit /\ Still("segments", segKind = "hls" /\ script = CHOOSE s \in Scripts : TRUE)

FfmpegService ==
  /\ service = "ffmpeg" /\ FfNext
  /\ UNCHANGED <<service, ttVars, hkVars, sipVars, segVars>>
TranscodeService ==
  /\ service = "transcode" /\ TtNext
  /\ UNCHANGED <<service, ffVars, hkVars, sipVars, segVars>>
HookService ==
  /\ service = "hook" /\ HkNext
  /\ UNCHANGED <<service, ffVars, ttVars, sipVars, segVars>>
SipService ==
  /\ service = "sip" /\ SipNext /\ UNCHANGED queryState
  /\ UNCHANGED <<service, ffVars, ttVars, hkVars, segVars>>
QueryService ==
  /\ service = "query" /\ SipNext /\ UNCHANGED <<callState, mediaVars, byes>>
  /\ UNCHANGED <<service, ffVars, ttVars, hkVars, segVars>>
SegmentService ==
  /\ service = "segments" /\ SegNext
  /\ UNCHANGED <<service, ffVars, ttVars, hkVars, sipVars>>

Next ==
  \/ FfmpegService \/ TranscodeService \/ HookService
  \/ SipService \/ QueryService \/ SegmentService

\* The fairness of the segment caches, where a behaviour follows them.
Fairness ==
  \A t \in 1 .. MaxTasks :
    SF_segVars(service = "segments" /\ t \in DOMAIN segTask /\ SegTaskStep(t))

Spec == Init /\ [][Next]_serviceVars /\ Fairness

----------------------------------------------------------------------------
\* Instances.

\* Two calls of one device: play twice, play and push, talk twice, play and talk.
SipCall(kind) == [kind |-> kind, device |-> "d1", channel |-> "a", stream |-> "s"]
SipInstances ==
  { <<SipCall("play"), SipCall("push")>>, <<SipCall("play"), SipCall("play")>>,
    <<SipCall("talk"), SipCall("talk")>>, <<SipCall("play"), SipCall("talk")>> }
OneQuery == <<"d1">>

\* A source that is replaced by another before or after its segments are cut.
SegmentScripts ==
  { << <<"cfg", "key", "key">>, << >> >>, << <<"key", "other", "cfg">>, << >> >> }
=============================================================================
