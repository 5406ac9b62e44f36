----------------------------- MODULE MCSessions -----------------------------
(***************************************************************************)
(* Sessions that must come to an end: the consumers of a source, RTP       *)
(* senders and receivers, the pipe of a transcoding session and the WebRTC *)
(* sessions.  They meet only in the source that they read or feed, which   *)
(* each module has as far as it uses it, so a behaviour is a behaviour of  *)
(* one of them, the one that `session` names, while the others keep their  *)
(* first state: TLC then visits the sum of their state spaces, where their *)
(* product would say nothing more.                                         *)
(***************************************************************************)
EXTENDS MCMediaSource, RtpSending, RtpPorts, TranscodePipe, WebRtcSessions

VARIABLE session

sessionVars == <<session, vars, sendVars, portVars, tpVars, wrVars>>

\* The sessions that are not followed start in one state only.
Still(s, firstChoice) == session = s \/ firstChoice

SessionsInit ==
  /\ session \in {"read", "send", "receive", "pipe", "webrtc"}
  /\ Init
  /\ SendInit
  /\ PortsInit /\ Still("receive", opens = CHOOSE o \in OpenPlans : TRUE)
  /\ TpInit /\ Still("pipe", tpGop = 0)
  /\ WrInit /\ Still("webrtc", wrKind = [p \in WrPosts |-> "play"])

ReadSession ==
  /\ session = "read" /\ Next
  /\ UNCHANGED <<session, sendVars, portVars, tpVars, wrVars>>
SendSession ==
  /\ session = "send" /\ SendNext
  /\ UNCHANGED <<session, vars, portVars, tpVars, wrVars>>
ReceiveSession ==
  /\ session = "receive" /\ PortsNext
  /\ UNCHANGED <<session, vars, sendVars, tpVars, wrVars>>
PipeSession ==
  /\ session = "pipe" /\ TpNext
  /\ UNCHANGED <<session, vars, sendVars, portVars, wrVars>>
WebRtcSession ==
  /\ session = "webrtc" /\ WrNext
  /\ UNCHANGED <<session, vars, sendVars, portVars, tpVars>>

SessionsNext ==
  \/ ReadSession \/ SendSession \/ ReceiveSession \/ PipeSession \/ WebRtcSession

\* The fairness of each of them, where a behaviour follows it.
SessionsFairness ==
  /\ \A r \in Readers : WF_vars(session = "read" /\ (StartupStep(r) \/ Receive(r)))
  /\ \A p \in Publishers : WF_vars(session = "read" /\ PublishSend(p))
  /\ \A t \in Senders :
       /\ WF_sendVars(session = "send" /\ TaskStep(t))
       /\ Requests[t].udp => WF_sendVars(session = "send" /\ SendEnd(t))
  /\ \A r \in Receivers : WF_portVars(session = "receive" /\ TimedStep(r))
  /\ WF_tpVars(session = "pipe" /\ SessionWork)
  /\ WF_tpVars(session = "pipe" /\ WriterWork)
  /\ WF_tpVars(session = "pipe" /\ ReaderWork)
  /\ WF_tpVars(session = "pipe" /\ FfmpegWork)
  /\ \A p \in WrPosts :
       /\ WF_wrVars(session = "webrtc" /\ PostStep(p))
       /\ WF_wrVars(session = "webrtc" /\ on_ice_candidate(p))
       /\ WF_wrVars(session = "webrtc" /\ watch_task(p))
       /\ WF_wrVars(session = "webrtc" /\ CloseStep(p))

SessionsSpec == SessionsInit /\ [][SessionsNext]_sessionVars /\ SessionsFairness

----------------------------------------------------------------------------
\* Instances.

\* Three senders: two of one SSRC, one that may have several destinations.
SendInstances ==
  << [ssrc |-> 1, dst |-> "a", multi |-> FALSE, mode |-> "active", udp |-> TRUE],
     [ssrc |-> 1, dst |-> "b", multi |-> FALSE, mode |-> "passive", udp |-> FALSE],
     [ssrc |-> 2, dst |-> "b", multi |-> TRUE, mode |-> "passive", udp |-> TRUE] >>

\* Pairs of openRtpServer calls, for a free port (0) or the same one.
OpenCall(port, mode) == [port |-> port, mode |-> mode]
OpenInstances ==
  { <<OpenCall(0, "udp"), OpenCall(2, "udp")>>, <<OpenCall(3, "udp"), OpenCall(0, "udp")>>,
    <<OpenCall(0, "udp"), OpenCall(2, "passive")>>,
    <<OpenCall(2, "passive"), OpenCall(2, "active")>>,
    <<OpenCall(0, "active"), OpenCall(0, "active")>> }

\* Fragments that restart ICE, trickle a candidate, end the candidates, have a
\* password only, or nothing.
SdpFragment(ufrag, pwd, cand, end) ==
  [ufrag |-> ufrag, pwd |-> pwd, cand |-> cand, end |-> end]
SdpInstances ==
  { SdpFragment(TRUE, TRUE, TRUE, FALSE), SdpFragment(TRUE, FALSE, TRUE, FALSE),
    SdpFragment(FALSE, FALSE, FALSE, TRUE), SdpFragment(FALSE, TRUE, TRUE, FALSE), NoFragment }
=============================================================================
