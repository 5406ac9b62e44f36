---------------------------- MODULE Publishing -----------------------------
(***************************************************************************)
(* The publisher sessions of one stream key (RTMP, RTSP, WHIP and SRT),    *)
(* the registry slot they fill (MediaSourceManager) and the event bus on   *)
(* which they announce it to the supervisors.  A session gives the key     *)
(* back by name, whichever source has it by then, so sessions of the same  *)
(* key meet in the slot and in the order of their events.                  *)
(*                                                                         *)
(* A source is the number of its creation; 0 is no source.  A session that *)
(* changes its stream name leaves the key like one that goes on to play.   *)
(* Frames are left out: module MediaSource has them.                       *)
(***************************************************************************)
EXTENDS Integers, Sequences

CONSTANTS Sessions,     \* publisher sessions
          Protocols,    \* the protocols they may speak
          Watchers,     \* supervisors that may subscribe to the event bus
          Attached,     \* the sets of them that a configuration starts
          BusCap,       \* capacity of the event bus (1024)
          MaxSources,   \* bound: sources created
          MaxCloses     \* bound: closeStream calls of the API

ASSUME ProtocolsAssumption == Protocols \subseteq {"rtmp", "rtsp", "whip", "srt"}
ASSUME BusAssumption == Attached \subseteq SUBSET Watchers /\ BusCap \in Nat \ {0}
ASSUME SourceBounds == MaxSources \in Nat /\ MaxCloses \in Nat

VARIABLES src,      \* the registered source of the key, or 0
          made,     \* sources created so far
          closed,   \* closed[s]: the sender of source s was dropped
          proto,    \* proto[p]: the protocol of session p
          at,       \* at[p]: where session p is
          isPub,    \* isPub[p]: is_publisher
          own,      \* own[p]: the source that WHIP session p closes itself, or 0
          leaving,  \* leaving[p]: the cleanup of p is its last act
          started,  \* the supervisors that run
          bus,      \* bus[w]: events that w has not received
          missed,   \* missed[w]: the bus overran w
          last,     \* the last event published, or "none"
          closes

registry == <<src, made, closed>>
events == <<started, bus, missed, last>>
session == <<proto, at, isPub, own, leaving>>
pubVars == <<src, made, closed, proto, at, isPub, own, leaving, started,
             bus, missed, last, closes>>

\* "created"     holds the source, StreamPublish is still to come
\* "publishing"  announced
\* "silent"      feeds a source that it never announces (SRT)
\* "unpublished" StreamUnPublish is out, the source is still to be closed
\* "player"      went on to play: nobody cleans up its source any more
\* "closing"     (WHIP) its own source is closed, the key still registered
\* "gone"        ended by its cleanup
\* "dropped"     ended without one
Places == {"connected", "created", "publishing", "silent", "unpublished",
           "player", "closing", "gone", "dropped"}
SourceIds == 1 .. MaxSources
Event == {"pub", "unpub"}

PubInit ==
  /\ src = 0
  /\ made = 0
  /\ closed = [s \in SourceIds |-> FALSE]
  /\ proto \in [Sessions -> Protocols]
  /\ at = [p \in Sessions |-> "connected"]
  /\ isPub = [p \in Sessions |-> FALSE]
  /\ own = [p \in Sessions |-> 0]
  /\ leaving = [p \in Sessions |-> FALSE]
  /\ started \in Attached
  /\ bus = [w \in Watchers |-> << >>]
  /\ missed = [w \in Watchers |-> FALSE]
  /\ last = "none"
  /\ closes = 0

Move(p, place) == at' = [at EXCEPT ![p] = place]

----------------------------------------------------------------------------
\* MediaSourceManager and EventBus.

\* get_or_create: p takes the registered source, or registers a new one.
get_or_create(p) ==
  /\ src = 0 => made < MaxSources
  /\ made' = IF src = 0 THEN made + 1 ELSE made
  /\ src' = IF src = 0 THEN made + 1 ELSE src
  /\ own' = [own EXCEPT ![p] = IF proto[p] = "whip" THEN src' ELSE 0]
  /\ UNCHANGED closed

\* close_stream: the key is freed and the source that had it closed, whoever
\* publishes into it.
close_stream ==
  /\ src' = 0
  /\ closed' = [s \in SourceIds |-> closed[s] \/ s = src]
  /\ UNCHANGED made

\* EventBus::publish on a broadcast channel: a full receiver loses its oldest
\* event.  (It is then told that it lagged, which no supervisor acts on.)
publish(e) ==
  /\ bus' = [w \in Watchers |-> IF w \notin started THEN bus[w]
                                ELSE IF Len(bus[w]) < BusCap THEN Append(bus[w], e)
                                ELSE Append(Tail(bus[w]), e)]
  /\ missed' = [w \in Watchers |-> missed[w] \/ Len(bus[w]) >= BusCap]
  /\ last' = e
  /\ UNCHANGED started

----------------------------------------------------------------------------
\* Starting to publish.

\* is_publisher is set before the hook and the authentication are asked; a
\* session that they refuse keeps it.
Refused(p) ==
  /\ isPub' = [isPub EXCEPT ![p] = TRUE]
  /\ UNCHANGED <<registry, at, own, leaving, events, proto, closes>>

Accepted(p) ==
  /\ isPub' = [isPub EXCEPT ![p] = TRUE]
  /\ get_or_create(p)
  /\ Move(p, "created")
  /\ UNCHANGED <<leaving, events, proto, closes>>

\* RtmpSession::handle_publish up to the source.
rtmp_handle_publish(p) ==
  /\ proto[p] = "rtmp"
  /\ at[p] \in {"connected", "publishing", "player"}
  /\ Refused(p) \/ Accepted(p)

\* RtspSession::handle_announce
handle_announce(p) ==
  /\ proto[p] = "rtsp"
  /\ at[p] \in {"connected", "created", "publishing", "player"}
  /\ Refused(p) \/ Accepted(p)

\* WebRTC handle_publish up to the negotiation: nobody is asked.
whip_handle_publish(p) ==
  /\ proto[p] = "whip"
  /\ at[p] = "connected"
  /\ Accepted(p)

\* handle_srt_connection: the source is fed and never announced.
handle_srt_connection(p) ==
  /\ proto[p] = "srt"
  /\ at[p] = "connected"
  /\ isPub' = [isPub EXCEPT ![p] = TRUE]
  /\ get_or_create(p)
  /\ Move(p, "silent")
  /\ UNCHANGED <<leaving, events, proto, closes>>

\* The StreamPublish of RTMP publish and WHIP negotiation, and RTSP RECORD,
\* which a client may repeat.
announce(p) ==
  /\ at[p] = "created" \/ (at[p] = "publishing" /\ proto[p] = "rtsp")
  /\ publish("pub")
  /\ Move(p, "publishing")
  /\ UNCHANGED <<registry, isPub, own, leaving, proto, closes>>

----------------------------------------------------------------------------
\* Ending.

\* Mutant: the key is freed before the event is published.
cleanup_step_swapped(p) ==
  \/ /\ at[p] # "unpublished"
     /\ close_stream
     /\ UNCHANGED events
  \/ /\ at[p] = "unpublished"
     /\ publish("unpub")
     /\ UNCHANGED registry

\* Mutant: the key is not freed.
cleanup_step_keeps(p) ==
  \/ /\ at[p] # "unpublished"
     /\ publish("unpub")
     /\ UNCHANGED registry
  \/ /\ at[p] = "unpublished"
     /\ UNCHANGED <<registry, events>>

\* cleanup of a publisher: StreamUnPublish, then close_stream by name.  WHIP
\* goes through "closing" first.
cleanup_step(p) ==
  \/ /\ at[p] # "unpublished"
     /\ publish("unpub")
     /\ UNCHANGED registry
  \/ /\ at[p] = "unpublished"
     /\ close_stream
     /\ UNCHANGED events

\* cleanup, first half; called by closeStream, deleteStream and TEARDOWN, which
\* keep the connection, and at its end.  is_publisher stays set, so it can be
\* called twice.
cleanup_begin(p) ==
  /\ proto[p] \in {"rtmp", "rtsp"}
  /\ \/ at[p] \in {"connected", "publishing", "player"}
     \/ at[p] = "created" /\ proto[p] = "rtsp"
  /\ isPub[p]
  /\ \E final \in BOOLEAN : leaving' = [leaving EXCEPT ![p] = final]
  /\ cleanup_step(p)
  /\ Move(p, "unpublished")
  /\ UNCHANGED <<isPub, own, proto, closes>>

cleanup_end(p) ==
  /\ proto[p] \in {"rtmp", "rtsp"}
  /\ at[p] = "unpublished"
  /\ cleanup_step(p)
  /\ leaving' = [leaving EXCEPT ![p] = FALSE]
  /\ Move(p, IF leaving[p] THEN "gone" ELSE "connected")
  /\ UNCHANGED <<isPub, own, proto, closes>>

\* PLAY on the publisher's connection takes is_publisher back, and the connection
\* goes on, at least when the play is refused.
handle_play(p) ==
  /\ proto[p] \in {"rtmp", "rtsp"}
  /\ \/ at[p] \in {"connected", "publishing", "player"}
     \/ at[p] = "created" /\ proto[p] = "rtsp"
  /\ isPub[p]
  /\ isPub' = [isPub EXCEPT ![p] = FALSE]
  /\ Move(p, "player")
  /\ UNCHANGED <<registry, own, leaving, events, proto, closes>>

\* A connection that never tried to publish ends.
Disconnect(p) ==
  /\ at[p] = "connected"
  /\ ~ isPub[p]
  /\ Move(p, "gone")
  /\ UNCHANGED <<registry, isPub, own, leaving, events, proto, closes>>

\* WhipSession::close, by DELETE or when the peer connection failed: the event,
\* the session's own source, and (after pc.close().await) the key by name.
WhipUnpublish(p) ==
  /\ proto[p] = "whip"
  /\ at[p] = "publishing"
  /\ publish("unpub")
  /\ Move(p, "unpublished")
  /\ UNCHANGED <<registry, isPub, own, leaving, proto, closes>>

WhipCloseOwn(p) ==
  /\ proto[p] = "whip"
  /\ at[p] = "unpublished"
  /\ closed' = [closed EXCEPT ![own[p]] = TRUE]
  /\ Move(p, "closing")
  /\ UNCHANGED <<src, made, isPub, own, leaving, events, proto, closes>>

WhipCloseKey(p) ==
  /\ at[p] = "closing"
  /\ close_stream
  /\ own' = [own EXCEPT ![p] = 0]
  /\ Move(p, "gone")
  /\ UNCHANGED <<isPub, leaving, events, proto, closes>>

\* The ends that skip the cleanup: a response that cannot be written makes
\* RtspSession::run return early, a failed negotiation answers 500, and an SRT
\* connection only closes its socket.
Drop(p) ==
  /\ \/ proto[p] = "rtsp" /\ at[p] \in {"connected", "created", "publishing", "player"} /\ isPub[p]
     \/ proto[p] = "whip" /\ at[p] = "created"
     \/ at[p] = "silent"
  /\ own' = [own EXCEPT ![p] = 0]
  /\ Move(p, "dropped")
  /\ UNCHANGED <<registry, isPub, leaving, events, proto, closes>>

\* The closeStream API.
api_closeStream ==
  /\ closes < MaxCloses
  /\ src # 0
  /\ close_stream
  /\ closes' = closes + 1
  /\ UNCHANGED <<session, events>>

SessionStep(p) ==
  \/ rtmp_handle_publish(p) \/ handle_announce(p) \/ whip_handle_publish(p)
  \/ handle_srt_connection(p) \/ announce(p)
  \/ cleanup_begin(p) \/ cleanup_end(p) \/ handle_play(p) \/ Disconnect(p)
  \/ WhipUnpublish(p) \/ WhipCloseOwn(p) \/ WhipCloseKey(p) \/ Drop(p)

PubNext == api_closeStream \/ \E p \in Sessions : SessionStep(p)

----------------------------------------------------------------------------
PubTypeOK ==
  /\ made \in 0 .. MaxSources
  /\ src \in 0 .. made
  /\ closed \in [SourceIds -> BOOLEAN]
  /\ proto \in [Sessions -> Protocols]
  /\ at \in [Sessions -> Places]
  /\ isPub \in [Sessions -> BOOLEAN]
  /\ own \in [Sessions -> 0 .. made]
  /\ leaving \in [Sessions -> BOOLEAN]
  /\ started \in Attached
  /\ bus \in [Watchers -> Seq(Event)] /\ \A w \in Watchers : Len(bus[w]) <= BusCap
  /\ missed \in [Watchers -> BOOLEAN]
  /\ last \in Event \cup {"none"}
  /\ closes \in 0 .. MaxCloses

\* No publisher leaves a source behind: when every session that tried to publish
\* ended through its cleanup, the key is free, in whatever order sessions of the
\* same key came, published again and went.
NoOrphan ==
  src # 0 => \E p \in Sessions : at[p] \in {"player", "dropped"} \/ (isPub[p] /\ at[p] # "gone")

\* p is neither between its source and its event nor within its cleanup, and it
\* feeds no source that it does not announce.
Settled(p) == at[p] \in {"connected", "publishing", "gone"}

\* The supervisors may trust an unpublish: when StreamUnPublish is the last event
\* and no session is in the middle of something, no source is registered.  The
\* event goes out before the key is freed, so a newcomer's StreamPublish for a
\* new source can not be followed by the event of the session it replaces.
UnpublishedIsGone ==
  last = "unpub" /\ (\A p \in Sessions : Settled(p)) => src = 0
=============================================================================
