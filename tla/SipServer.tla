----------------------------- MODULE SipServer -----------------------------
(***************************************************************************)
(* The GB28181 SIP server, srt/src/gb28181/sip.rs: registrations, dialogs  *)
(* and queries.  The receive loop takes one message at a time and waits    *)
(* inside some of them; the HTTP API and the maintainer run beside it.     *)
(* Messages are UDP: any message that a device may have sent arrives at    *)
(* any time, late, again, or never.                                        *)
(*                                                                         *)
(* The maps pending and active are given by the state of each call.  The   *)
(* HTTP API shares the RtpServerManager: `receiver` says for which dialog  *)
(* each of its ports was opened.  A port that openRtpServer or another     *)
(* program has is one that cannot be bound.                                *)
(*                                                                         *)
(* Devices make up Call-IDs of their own: an INVITE from a device never    *)
(* carries the Call-ID of a dialog that the server began.                  *)
(***************************************************************************)
EXTENDS Integers, FiniteSets

CONSTANTS Devices, Channels,
          CallIds,     \* the dialogs, by their Call-ID
          CallPlans,   \* what they are: kind ("play", "push", "talk"), device, channel, and the
                       \* stream that a talk sends
          Queries,     \* Queries[q]: the device that query q goes to
          LastPort,    \* the last port number, above the base
          CounterSize, \* values of the port counter, an AtomicU16
          FirstMedia,  \* what the counter, a static, may have reached before this server began
          MaxMedia     \* bound: port numbers handed out to devices that push

ASSUME SipCalls ==
  /\ CallIds \subseteq Nat \ {0}
  /\ \A plan \in CallPlans : plan \in [CallIds -> [kind : {"play", "push", "talk"},
                                       device : Devices, channel : Channels, stream : STRING]]
  /\ \A q \in DOMAIN Queries : Queries[q] \in Devices
  /\ LastPort \in Nat /\ CounterSize \in Nat /\ LastPort < CounterSize
  /\ FirstMedia \subseteq Nat /\ MaxMedia \in Nat

VARIABLES
  calls,       \* calls[c]: what dialog c is
  registry,    \* devices that are registered
  lapsed,      \* devices that were not heard from for longer than their expiry
  expiring,    \* devices that the maintainer, or stop, has collected
  callState,   \* where each call is; "pending" and "active" are the two maps
  mediaPort,   \* the port in each call's context, or -1
  receiver,    \* receiver[p]: the call that port p of RtpServerManager is open for, or 0
  nextMedia,   \* how often rtp_port_for_invite was called
  talking,     \* talk calls whose RTP sender runs
  loop,        \* the call whose message the receive loop is waiting in, 0, or -1 (ended)
  queryState,  \* where each query is
  stopRtps,    \* channels for which a stopRtp is about to call bye_stream
  byes,        \* the contexts that running calls of bye_dialog have found
  apiClosed,   \* history: ports that stopRtp and closeRtpServer have closed
  sipDown      \* the shutdown flag

mediaVars == <<mediaPort, receiver, nextMedia, talking, apiClosed>>
sipVars == <<calls, registry, lapsed, expiring, callState, mediaVars, loop, queryState, stopRtps,
             byes, sipDown>>

QueryIds == DOMAIN Queries
Pending == {c \in CallIds : callState[c] = "pending"}
Active == {c \in CallIds : callState[c] = "active"}
Talk(c) == calls[c].kind = "talk"

SipInit ==
  /\ calls \in CallPlans
  /\ registry = {} /\ lapsed = {} /\ expiring = {}
  /\ callState = [c \in CallIds |-> "idle"]
  /\ mediaPort = [c \in CallIds |-> -1]
  /\ receiver = [p \in 0 .. LastPort |-> 0]
  /\ nextMedia \in FirstMedia /\ talking = {}
  /\ loop = 0
  /\ queryState = [q \in QueryIds |-> "idle"]
  /\ stopRtps = {} /\ byes = {} /\ apiClosed = {}
  /\ sipDown = FALSE

GoCall(c, s) == callState' = [callState EXCEPT ![c] = s]

----------------------------------------------------------------------------
\* The InviteCtx of a call, as far as its media go.
Context(c) == [call |-> c, port |-> mediaPort[c]]

\* The sender of a talk is found by the stream and by the SSRC, made from the channel.
SameSender(c, x) ==
  Talk(c) /\ Talk(x) /\ calls[c].channel = calls[x].channel /\ calls[c].stream = calls[x].stream

\* Mutant: the port of a play dialog stays open.
stop_media_talk(ctxs) ==
  /\ receiver' = receiver
  /\ talking' = {t \in talking : \A x \in ctxs : ~ SameSender(x.call, t)}

\* stop_media, for each of some contexts: the port of a play dialog is closed, the
\* sender of a talk stopped.
stop_media(ctxs) ==
  /\ receiver' = [p \in 0 .. LastPort |->
                    IF \E x \in ctxs : ~ Talk(x.call) /\ x.port = p THEN 0 ELSE receiver[p]]
  /\ talking' = {t \in talking : \A x \in ctxs : ~ SameSender(x.call, t)}

\* unregister_device: the device is dropped and its active dialogs closed.
unregister_device(d) ==
  IF d \in registry
  THEN LET mine == {c \in Active : calls[c].device = d} IN
       /\ registry' = registry \ {d}
       /\ callState' = [c \in CallIds |-> IF c \in mine THEN "ended" ELSE callState[c]]
       /\ stop_media({Context(c) : c \in mine})
  ELSE UNCHANGED <<registry, callState, receiver, talking>>

\* rtp_port_for_invite: the counter wraps, the sum with the base stays at the last port.
NextPort == LET n == nextMedia % CounterSize IN IF n < LastPort THEN n ELSE LastPort

\* RtpServerManager::open: refused when the port is in the table, and binding it
\* may fail.
Opens(p) == {b \in BOOLEAN : b => receiver[p] = 0}

----------------------------------------------------------------------------
\* Messages from devices

\* The receive loop is free.  It looks at the flag before it waits for a message,
\* so one that comes after the flag is still handled.
Receiving == loop = 0
AfterMessage == IF sipDown THEN -1 ELSE 0

\* handle_register, after check_digest: a registration, or one with Expires 0.
handle_register(d) ==
  /\ Receiving /\ loop' = AfterMessage
  /\ \/ /\ registry' = registry \cup {d}
        /\ lapsed' = lapsed \ {d}
        /\ UNCHANGED <<callState, receiver, talking>>
     \/ unregister_device(d) /\ UNCHANGED lapsed
  /\ UNCHANGED <<calls, expiring, mediaPort, nextMedia, queryState, stopRtps, byes, apiClosed,
                 sipDown>>

\* forward_query_response: the waiter of this SN, if it is still there, gets it.
forward_query_response(q) ==
  queryState' = [queryState EXCEPT ![q] = IF @ = "waiting" THEN "answered" ELSE @]

\* handle_message: any MESSAGE keeps a device alive, or registers it; a Catalog or
\* DeviceInfo also answers the query that it names.
handle_message(d) ==
  /\ Receiving /\ loop' = AfterMessage
  /\ registry' = registry \cup {d}
  /\ lapsed' = lapsed \ {d}
  /\ \/ UNCHANGED queryState
     \/ \E q \in QueryIds :
          /\ Queries[q] = d /\ queryState[q] # "idle"
          /\ forward_query_response(q)
  /\ UNCHANGED <<calls, expiring, callState, mediaVars, stopRtps, byes, sipDown>>

\* handle_invite_received: a device offers a stream, says so again, or offers it
\* once more after the end.  The loop waits for the port ...
handle_invite_received(c) ==
  /\ Receiving
  /\ calls[c].kind = "push"
  /\ nextMedia < MaxMedia
  /\ loop' = c
  /\ UNCHANGED <<calls, registry, lapsed, expiring, callState, mediaVars, queryState, stopRtps, byes,
                 sipDown>>

\* ... and writes the dialog over the one of the same Call-ID, whose port stays open.
invite_received_open(c) ==
  /\ loop = c /\ calls[c].kind = "push"
  /\ loop' = AfterMessage
  /\ nextMedia' = nextMedia + 1
  /\ \E ok \in Opens(NextPort) :
       IF ok
       THEN /\ receiver' = [receiver EXCEPT ![NextPort] = c]
            /\ mediaPort' = [mediaPort EXCEPT ![c] = NextPort]
            /\ GoCall(c, "active")
       ELSE UNCHANGED <<callState, mediaPort, receiver>>
  /\ UNCHANGED <<calls, registry, lapsed, expiring, talking, queryState, stopRtps, byes, apiClosed,
                 sipDown>>

\* handle_bye: the dialog is looked for in active, then in pending.
handle_bye(c) ==
  /\ Receiving /\ loop' = AfterMessage
  /\ c \in Active \cup Pending
  /\ GoCall(c, "ended")
  /\ stop_media({Context(c)})
  /\ UNCHANGED <<calls, registry, lapsed, expiring, mediaPort, nextMedia, queryState, stopRtps, byes,
                 apiClosed, sipDown>>

\* handle_response, status 200: a play dialog is active, a talk starts its sender
\* if the SDP is acceptable.
handle_response_ok(c) ==
  /\ Receiving
  /\ c \in Pending
  /\ \/ ~ Talk(c) /\ GoCall(c, "active") /\ loop' = AfterMessage
     \/ Talk(c) /\ GoCall(c, "answering") /\ loop' = c
     \/ Talk(c) /\ GoCall(c, "ended") /\ loop' = AfterMessage
  /\ UNCHANGED <<calls, registry, lapsed, expiring, mediaVars, queryState, stopRtps, byes, sipDown>>

\* rtp_sender.start() came back.  It refuses a second sender of the same stream and
\* SSRC; the source may be gone.
talk_started(c) ==
  \E ok \in {b \in BOOLEAN : b => \A x \in talking : ~ SameSender(c, x)} :
    /\ talking' = IF ok THEN talking \cup {c} ELSE talking
    /\ GoCall(c, IF ok THEN "active" ELSE "ended")

handle_response_talk(c) ==
  /\ loop = c /\ callState[c] = "answering"
  /\ loop' = AfterMessage
  /\ talk_started(c)
  /\ UNCHANGED <<calls, registry, lapsed, expiring, mediaPort, receiver, nextMedia, queryState,
                 stopRtps, byes, apiClosed, sipDown>>

\* The sender of a talk ends by itself, with its source; the dialog stays.
talk_sender_ends(c) ==
  /\ c \in talking
  /\ talking' = talking \ {c}
  /\ UNCHANGED <<calls, registry, lapsed, expiring, callState, mediaPort, receiver, nextMedia,
                 loop, queryState, stopRtps, byes, apiClosed, sipDown>>

\* handle_response, status above 200: rejected.
handle_response_error(c) ==
  /\ Receiving /\ loop' = AfterMessage
  /\ c \in Pending
  /\ GoCall(c, "ended")
  /\ stop_media({Context(c)})
  /\ UNCHANGED <<calls, registry, lapsed, expiring, mediaPort, nextMedia, queryState, stopRtps, byes,
                 apiClosed, sipDown>>

----------------------------------------------------------------------------
\* Calls of the HTTP API

\* invite: the device is registered, the port is opened ...
invite(c) ==
  /\ calls[c].kind = "play" /\ callState[c] = "idle"
  /\ \/ calls[c].device \notin registry
        /\ GoCall(c, "failed") /\ UNCHANGED <<mediaPort, nextMedia>>
     \/ /\ calls[c].device \in registry
        /\ mediaPort' = [mediaPort EXCEPT ![c] = NextPort]
        /\ nextMedia' = nextMedia + 1
        /\ GoCall(c, "opening")
  /\ UNCHANGED <<calls, registry, lapsed, expiring, receiver, talking, loop, queryState, stopRtps,
                 byes, apiClosed, sipDown>>

invite_open(c) ==
  /\ calls[c].kind = "play" /\ callState[c] = "opening"
  /\ \E ok \in Opens(mediaPort[c]) :
       IF ok
       THEN GoCall(c, "sending") /\ receiver' = [receiver EXCEPT ![mediaPort[c]] = c]
       ELSE GoCall(c, "failed") /\ UNCHANGED receiver
  /\ UNCHANGED <<calls, registry, lapsed, expiring, mediaPort, nextMedia, talking, loop, queryState,
                 stopRtps, byes, apiClosed, sipDown>>

\* start_talk: no other talk of the channel is active or pending, and then the
\* tracks of the source are read.
start_talk(c) ==
  /\ Talk(c) /\ callState[c] = "idle"
  /\ GoCall(c, IF /\ calls[c].device \in registry
                  /\ \A x \in Active \cup Pending :
                       ~ (Talk(x) /\ calls[x].channel = calls[c].channel)
               THEN "opening" ELSE "failed")
  /\ UNCHANGED <<calls, registry, lapsed, expiring, mediaVars, loop, queryState, stopRtps, byes,
                 sipDown>>

\* The source may have no G.711 track; the talk takes a port number but opens none.
start_talk_codec(c) ==
  /\ Talk(c) /\ callState[c] = "opening"
  /\ \/ GoCall(c, "failed") /\ UNCHANGED <<mediaPort, nextMedia>>
     \/ /\ GoCall(c, "sending")
        /\ mediaPort' = [mediaPort EXCEPT ![c] = NextPort]
        /\ nextMedia' = nextMedia + 1
  /\ UNCHANGED <<calls, registry, lapsed, expiring, receiver, talking, loop, queryState, stopRtps,
                 byes, apiClosed, sipDown>>

\* The INVITE is sent, or could not be; the port stays open either way.
invite_send(c) ==
  /\ callState[c] = "sending"
  /\ GoCall(c, "sent") \/ GoCall(c, "unsent")
  /\ UNCHANGED <<calls, registry, lapsed, expiring, mediaVars, loop, queryState, stopRtps, byes,
                 sipDown>>

\* The dialog is entered after the message has left: an answer that is faster
\* finds nothing.
invite_insert(c) ==
  /\ callState[c] = "sent"
  /\ GoCall(c, "pending")
  /\ UNCHANGED <<calls, registry, lapsed, expiring, mediaVars, loop, queryState, stopRtps, byes,
                 sipDown>>

\* RtpServerManager::close, called by the API for at most one port.
ApiClose(ports) ==
  /\ receiver' = [p \in 0 .. LastPort |-> IF p \in ports THEN 0 ELSE receiver[p]]
  /\ apiClosed' = apiClosed \cup ports

\* closeRtpServer: any port, whoever opened it.
closeRtpServer(p) ==
  /\ receiver[p] # 0
  /\ ApiClose({p})
  /\ UNCHANGED <<calls, registry, lapsed, expiring, callState, mediaPort, nextMedia, talking, loop,
                 queryState, stopRtps, byes, sipDown>>

\* Where find_by_stream may find a channel: nowhere, if the request names another app.
PortsOf(ch) == {{}} \cup {{p} : p \in {q \in 0 .. LastPort :
                                         receiver[q] # 0 /\ calls[receiver[q]].channel = ch}}

\* stopRtp: the port that receives the stream is closed first, dialog or not ...
stopRtp(ch) ==
  /\ ch \notin stopRtps
  /\ \E ports \in PortsOf(ch) : ApiClose(ports)
  /\ stopRtps' = stopRtps \cup {ch}
  /\ UNCHANGED <<calls, registry, lapsed, expiring, callState, mediaPort, nextMedia, talking, loop,
                 queryState, byes, sipDown>>

\* The dialogs that bye_dialog looks at.
ByeCandidates(ch, talk) ==
  {c \in Active : calls[c].channel = ch /\ Talk(c) = talk}

\* bye_dialog: the context of a dialog is copied and the BYE sent, or there is none ...
bye_dialog(ch, talk) ==
  /\ IF ByeCandidates(ch, talk) = {} THEN UNCHANGED byes
     ELSE \E c \in ByeCandidates(ch, talk) : byes' = byes \cup {Context(c)}
  /\ UNCHANGED <<calls, registry, lapsed, expiring, callState, mediaVars, loop, queryState, sipDown>>

\* ... for the stream of a stopRtp, or for the talk of a stopTalk.
bye_stream(ch) == ch \in stopRtps /\ stopRtps' = stopRtps \ {ch} /\ bye_dialog(ch, FALSE)
stop_talk(ch) == bye_dialog(ch, TRUE) /\ UNCHANGED stopRtps

\* ... the dialog of the Call-ID is taken out of active, if there still is one, and
\* the media of the copied context are stopped.
bye_remove(ctx) ==
  /\ callState' = [callState EXCEPT ![ctx.call] = IF @ = "active" THEN "ended" ELSE @]
  /\ stop_media({ctx})
  /\ byes' = byes \ {ctx}
  /\ UNCHANGED <<calls, registry, lapsed, expiring, mediaPort, nextMedia, loop, queryState, stopRtps,
                 apiClosed, sipDown>>

\* query_catalog and query_device_info: the waiter is entered and the MESSAGE sent.
send_query(q) ==
  /\ queryState[q] = "idle"
  /\ queryState' = [queryState EXCEPT ![q] = IF Queries[q] \in registry THEN "waiting" ELSE "failed"]
  /\ UNCHANGED <<calls, registry, lapsed, expiring, callState, mediaVars, loop, stopRtps, byes,
                 sipDown>>

\* Five seconds without an answer, or the message could not be sent.
query_timeout(q) ==
  /\ queryState[q] = "waiting"
  /\ queryState' = [queryState EXCEPT ![q] = "timeout"]
  /\ UNCHANGED <<calls, registry, lapsed, expiring, callState, mediaVars, loop, stopRtps, byes,
                 sipDown>>

\* stop: the flag, and every device registered by now is going to be dropped.
stop ==
  /\ ~ sipDown
  /\ sipDown' = TRUE
  /\ expiring' = expiring \cup registry
  /\ UNCHANGED <<calls, registry, lapsed, callState, mediaVars, loop, queryState, stopRtps, byes>>

----------------------------------------------------------------------------
\* The clock, the maintainer and the end of the loop

\* The time since the device was last heard from passes its expiry.
lapse(d) ==
  /\ d \in registry \ lapsed
  /\ lapsed' = lapsed \cup {d}
  /\ UNCHANGED <<calls, registry, expiring, callState, mediaVars, loop, queryState, stopRtps, byes,
                 sipDown>>

\* expire_devices: the lapsed devices are collected ...
expire_devices ==
  /\ expiring' = expiring \cup (registry \cap lapsed)
  /\ UNCHANGED <<calls, registry, lapsed, callState, mediaVars, loop, queryState, stopRtps, byes,
                 sipDown>>

\* ... and dropped one by one, like those that stop has collected.
expire_device(d) ==
  /\ d \in expiring
  /\ expiring' = expiring \ {d}
  /\ unregister_device(d)
  /\ UNCHANGED <<calls, lapsed, mediaPort, nextMedia, loop, queryState, stopRtps, byes, apiClosed,
                 sipDown>>

\* run: the loop finds the flag after a timeout, or the socket fails.
run_ends ==
  /\ loop = 0
  /\ loop' = -1
  /\ UNCHANGED <<calls, registry, lapsed, expiring, callState, mediaVars, queryState, stopRtps, byes,
                 sipDown>>

SipNext ==
  \/ \E d \in Devices : handle_register(d) \/ handle_message(d) \/ lapse(d) \/ expire_device(d)
  \/ \E c \in CallIds :
       \/ handle_invite_received(c) \/ invite_received_open(c) \/ handle_bye(c)
       \/ handle_response_ok(c) \/ handle_response_talk(c) \/ talk_sender_ends(c)
       \/ handle_response_error(c)
       \/ invite(c) \/ invite_open(c) \/ start_talk(c) \/ start_talk_codec(c)
       \/ invite_send(c) \/ invite_insert(c)
  \/ \E p \in 0 .. LastPort : closeRtpServer(p)
  \/ \E ch \in Channels : stopRtp(ch) \/ bye_stream(ch) \/ stop_talk(ch)
  \/ \E ctx \in byes : bye_remove(ctx)
  \/ \E q \in QueryIds : send_query(q) \/ query_timeout(q)
  \/ stop \/ expire_devices \/ run_ends

----------------------------------------------------------------------------
\* A stream that the server calls active can be received: the port in its context is
\* open, and open for it, unless the API closed that port.  No end of another
\* dialog, by BYE, by the API, by unregistration or by expiry, takes it away.  Once
\* the port numbers have run out dialogs share the last one, or numbers given before,
\* and a bye_dialog that is late may close the port of a successor.
ActivePortOpen ==
  nextMedia <= LastPort =>
    \A c \in Active : ~ Talk(c) => receiver[mediaPort[c]] = c \/ mediaPort[c] \in apiClosed

\* When a dialog that the platform opened has ended, whoever ended it and however
\* many did at once, no port receives for it any more.
EndedPortClosed ==
  \A c \in CallIds, p \in 0 .. LastPort :
    calls[c].kind = "play" /\ callState[c] = "ended" => receiver[p] # c

\* No audio is sent to a device without a dialog: the sender of a talk runs only
\* while the dialog is active, so that BYE, stop_talk and the loss of the device
\* can reach it.
TalkSenderOwned == talking \subseteq {c \in Active : Talk(c)}

\* Dialogs and media agree: what is active can be received, what has ended is
\* closed, and what sends has a dialog.
DialogMediaOwned == ActivePortOpen /\ EndedPortClosed /\ TalkSenderOwned

\* "Send a BYE to the device for the active or pending stream matching the given
\* channel id ... returns false when no such stream exists."
ByeFindsTheStream ==
  \A ch \in Channels, talk \in BOOLEAN :
    (\E c \in Active \cup Pending : calls[c].channel = ch /\ Talk(c) = talk) =>
      ByeCandidates(ch, talk) # {}
=============================================================================
