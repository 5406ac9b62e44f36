------------------------- MODULE PublishingProofs ---------------------------
(***************************************************************************)
(* Proofs about the publisher sessions and what listens to them.  First    *)
(* what every step of the sessions preserves; then the pushers of          *)
(* StreamPusher, which miss no publication while they are parked; then     *)
(* Supervisors, one recording and one relay at a time; then the requests   *)
(* of Hooks and the table of transcodes.  For any number of sessions,      *)
(* pushers, recordings, relays, formats, settings, keys and calls and any  *)
(* capacity of the event bus.                                              *)
(***************************************************************************)
EXTENDS StreamPusher, Supervisors, Hooks, TranscodeTable, TLAPS

\* A hook call that has asked nothing.
LEMMA NothingAsked == 0 \in Nat /\ << >> \in Seq(HookUrls)
OBVIOUS

\* The inductive form of UnpublishedIsGone: a registered source was announced
\* last, or some session is in the middle of something.
Announced == src # 0 => last = "pub" \/ \E p \in Sessions : ~ Settled(p)

\* get_or_create keeps the types of the registry and of the handles.
LEMMA CreateType ==
  ASSUME PubTypeOK, NEW p \in Sessions, get_or_create(p)
  PROVE  /\ made' \in 0 .. MaxSources
         /\ src' \in 0 .. made'
         /\ closed' \in [SourceIds -> BOOLEAN]
         /\ own' \in [Sessions -> 0 .. made']
         /\ src' # 0
BY SourceBounds DEF PubTypeOK, get_or_create

\* close_stream keeps the types of the registry.
LEMMA CloseType ==
  ASSUME PubTypeOK, close_stream
  PROVE  /\ made' \in 0 .. MaxSources
         /\ src' = 0
         /\ closed' \in [SourceIds -> BOOLEAN]
         /\ made' = made
BY SourceBounds DEF PubTypeOK, close_stream, SourceIds

\* EventBus::publish keeps every queue within the capacity of the bus.
LEMMA PublishType ==
  ASSUME PubTypeOK, NEW e \in Event, publish(e)
  PROVE  /\ bus' \in [Watchers -> Seq(Event)]
         /\ \A w \in Watchers : Len(bus'[w]) <= BusCap
         /\ missed' \in [Watchers -> BOOLEAN]
         /\ last' \in Event \cup {"none"}
         /\ started' \in Attached
<1>1. \A w \in Watchers : bus'[w] \in Seq(Event) /\ Len(bus'[w]) <= BusCap
  <2> SUFFICES ASSUME NEW w \in Watchers
               PROVE  bus'[w] \in Seq(Event) /\ Len(bus'[w]) <= BusCap
    OBVIOUS
  <2>1. bus[w] \in Seq(Event) /\ Len(bus[w]) <= BusCap /\ Len(bus[w]) \in Nat
    BY DEF PubTypeOK
  <2>2. CASE w \notin started
    BY <2>1, <2>2 DEF publish
  <2>3. CASE w \in started /\ Len(bus[w]) < BusCap
    <3>1. bus'[w] = Append(bus[w], e)
      BY <2>3 DEF publish
    <3>2. QED
      BY <2>1, <2>3, <3>1, BusAssumption
  <2>4. CASE w \in started /\ ~ (Len(bus[w]) < BusCap)
    <3>1. bus'[w] = Append(Tail(bus[w]), e)
      BY <2>4 DEF publish
    <3>2. bus[w] # << >>
      BY <2>1, <2>4, BusAssumption
    <3>3. Tail(bus[w]) \in Seq(Event) /\ Len(Tail(bus[w])) = Len(bus[w]) - 1
      BY <2>1, <3>2
    <3>4. QED
      BY <2>1, <3>1, <3>3, BusAssumption
  <2>5. QED
    BY <2>2, <2>3, <2>4
<1>2. QED
  BY <1>1 DEF PubTypeOK, publish

\* A step of a session or of the closeStream API keeps the types.
LEMMA PubTypeStep ==
  ASSUME PubTypeOK, PubNext
  PROVE  PubTypeOK'
<1>1. CASE api_closeStream
  BY <1>1, CloseType, SourceBounds DEF PubTypeOK, api_closeStream, session, events
<1>2. ASSUME NEW p \in Sessions, SessionStep(p)
      PROVE  PubTypeOK'
  <2>1. CASE rtmp_handle_publish(p) \/ handle_announce(p) \/ whip_handle_publish(p)
    <3>1. CASE Refused(p)
      BY <3>1 DEF Refused, PubTypeOK, registry, events
    <3>2. CASE Accepted(p)
      BY <3>2, CreateType DEF Accepted, Move, Places, PubTypeOK, events
    <3>3. QED
      BY <2>1, <3>1, <3>2 DEF rtmp_handle_publish, handle_announce, whip_handle_publish
  <2>2. CASE handle_srt_connection(p)
    BY <2>2, CreateType DEF handle_srt_connection, Move, Places, PubTypeOK, events
  <2>3. CASE announce(p)
    BY <2>3, PublishType DEF announce, Move, Places, Event, PubTypeOK, registry
  <2>4. CASE cleanup_begin(p) \/ cleanup_end(p)
    <3>1. PICK place \in Places : at' = [at EXCEPT ![p] = place]
      BY <2>4 DEF cleanup_begin, cleanup_end, Move, Places, PubTypeOK
    <3>2. /\ at' \in [Sessions -> Places]
          /\ UNCHANGED <<isPub, proto, closes>>
          /\ leaving' \in [Sessions -> BOOLEAN]
          /\ own' \in [Sessions -> 0 .. made]
      <4>1. at' \in [Sessions -> Places] /\ UNCHANGED <<isPub, proto, closes>>
        BY <2>4, <3>1 DEF cleanup_begin, cleanup_end, PubTypeOK
      <4>2. leaving' \in [Sessions -> BOOLEAN]
        <5>1. PICK final \in BOOLEAN : leaving' = [leaving EXCEPT ![p] = final]
          BY <2>4, Zenon DEF cleanup_begin, cleanup_end
        <5>2. QED
          BY <5>1 DEF PubTypeOK
      <4>3. own' \in [Sessions -> 0 .. made]
        BY <2>4 DEF cleanup_begin, cleanup_end, PubTypeOK
      <4>4. QED
        BY <4>1, <4>2, <4>3
    <3>3. CASE publish("unpub") /\ UNCHANGED registry
      BY <3>2, <3>3, PublishType DEF Event, PubTypeOK, registry
    <3>4. CASE close_stream /\ UNCHANGED events
      BY <3>2, <3>4, CloseType, SourceBounds DEF PubTypeOK, events
    <3>5. QED
      BY <2>4, <3>3, <3>4 DEF cleanup_begin, cleanup_end, cleanup_step
  <2>5. CASE Disconnect(p) \/ handle_play(p)
    BY <2>5, SourceBounds, Zenon DEF Disconnect, handle_play, Move, Places, PubTypeOK, registry, events
  <2>6. CASE WhipUnpublish(p)
    BY <2>6, PublishType DEF WhipUnpublish, Move, Places, Event, PubTypeOK, registry
  <2>7. CASE WhipCloseOwn(p)
    BY <2>7, Zenon DEF WhipCloseOwn, Move, Places, PubTypeOK, events
  <2>8. CASE WhipCloseKey(p)
    BY <2>8, CloseType, SourceBounds DEF WhipCloseKey, Move, Places, PubTypeOK, events
  <2>9. CASE Drop(p)
    <3>1. own' = [own EXCEPT ![p] = 0] /\ 0 \in 0 .. made
      BY <2>9, SourceBounds DEF Drop, PubTypeOK
    <3> QED BY <2>9, <3>1, Zenon DEF Drop, Move, Places, PubTypeOK, registry, events
  <2>10. QED
    BY <1>2, <2>1, <2>2, <2>3, <2>4, <2>5, <2>6, <2>7, <2>8, <2>9 DEF SessionStep
<1>3. QED
  BY <1>1, <1>2 DEF PubNext

\* Sources are numbered upwards, and no session starts or ends a supervisor.
LEMMA PubMonotone ==
  ASSUME PubTypeOK, PubNext
  PROVE  made \in Nat /\ made' \in Nat /\ made <= made' /\ started' = started
<1> USE DEF PubNext, api_closeStream, SessionStep, rtmp_handle_publish, handle_announce,
      whip_handle_publish, Refused, Accepted, handle_srt_connection, announce, cleanup_begin,
      cleanup_end, cleanup_step, handle_play, Disconnect, WhipUnpublish, WhipCloseOwn, WhipCloseKey, Drop
<1>1. made' = made \/ made' = made + 1
  BY Zenon DEF get_or_create, close_stream, registry
<1>2. started' = started
  BY Zenon DEF publish, events
<1>3. made \in Nat
  BY ONLY PubTypeOK, SourceBounds DEF PubTypeOK
<1>4. QED
  BY ONLY <1>1, <1>2, <1>3

\* What a step of a session or of the API does to the key and to the bus, seen
\* from a supervisor: it frees the key; or it touches neither; or it leaves some
\* session in the middle of something; or it announces.
LEMMA PubStepKinds ==
  ASSUME PubTypeOK, PubNext
  PROVE  \/ src' = 0
         \/ /\ UNCHANGED <<src, events>>
            /\ \A p \in Sessions : Settled(p)' => Settled(p)
         \/ \E p \in Sessions : ~ Settled(p)'
         \/ publish("pub") /\ UNCHANGED src
<1>1. CASE api_closeStream
  BY <1>1 DEF api_closeStream, close_stream
<1>2. ASSUME NEW p \in Sessions, SessionStep(p)
      PROVE  \/ src' = 0
             \/ /\ UNCHANGED <<src, events>>
                /\ \A q \in Sessions : Settled(q)' => Settled(q)
             \/ \E q \in Sessions : ~ Settled(q)'
             \/ publish("pub") /\ UNCHANGED src
  <2>1. CASE rtmp_handle_publish(p) \/ handle_announce(p) \/ whip_handle_publish(p)
    <3>1. CASE Refused(p)
      BY <3>1 DEF Refused, registry, Settled
    <3>2. CASE Accepted(p)
      BY <3>2 DEF Accepted, Move, PubTypeOK, Settled
    <3>3. QED
      BY <2>1, <3>1, <3>2 DEF rtmp_handle_publish, handle_announce, whip_handle_publish
  <2>2. CASE handle_srt_connection(p)
    BY <2>2 DEF handle_srt_connection, Move, PubTypeOK, Settled
  <2>3. CASE announce(p)
    BY <2>3 DEF announce, registry
  <2>4. CASE cleanup_begin(p)
    BY <2>4 DEF cleanup_begin, Move, PubTypeOK, Settled
  <2>5. CASE cleanup_end(p)
    BY <2>5 DEF cleanup_end, cleanup_step, close_stream
  <2>6. CASE Disconnect(p) \/ handle_play(p)
    BY <2>6 DEF Disconnect, handle_play, Move, PubTypeOK, Settled, registry
  <2>7. CASE WhipUnpublish(p) \/ WhipCloseOwn(p) \/ Drop(p)
    BY <2>7, Zenon DEF WhipUnpublish, WhipCloseOwn, Drop, Move, PubTypeOK, Settled
  <2>8. CASE WhipCloseKey(p)
    BY <2>8 DEF WhipCloseKey, close_stream
  <2>9. QED
    BY <1>2, <2>1, <2>2, <2>3, <2>4, <2>5, <2>6, <2>7, <2>8 DEF SessionStep
<1>3. QED
  BY <1>1, <1>2 DEF PubNext

\* The order of the events keeps up with the registry.
LEMMA AnnouncedStep ==
  ASSUME PubTypeOK, Announced, PubNext
  PROVE  Announced'
BY PubStepKinds DEF Announced, publish, events, Settled

\* No step leaves a registered source without a session that answers for it: a
\* session that ends by its cleanup frees the key with its last step.
LEMMA NoOrphanStep ==
  ASSUME PubTypeOK, NoOrphan, PubNext
  PROVE  NoOrphan'
<1>1. CASE api_closeStream
  BY <1>1 DEF api_closeStream, close_stream, NoOrphan
<1>2. ASSUME NEW p \in Sessions, SessionStep(p)
      PROVE  NoOrphan'
  <2>1. CASE rtmp_handle_publish(p) \/ handle_announce(p) \/ whip_handle_publish(p)
    <3>1. CASE Refused(p)
      BY <3>1 DEF Refused, registry, NoOrphan, PubTypeOK
    <3>2. CASE Accepted(p)
      BY <3>2 DEF Accepted, Move, PubTypeOK, NoOrphan
    <3>3. QED
      BY <2>1, <3>1, <3>2 DEF rtmp_handle_publish, handle_announce, whip_handle_publish
  <2>2. CASE handle_srt_connection(p)
    BY <2>2 DEF handle_srt_connection, Move, PubTypeOK, NoOrphan
  <2>3. CASE announce(p)
    BY <2>3 DEF announce, registry, Move, PubTypeOK, NoOrphan
  <2>4. CASE cleanup_begin(p)
    BY <2>4, Zenon DEF cleanup_begin, cleanup_step, close_stream, registry, Move, PubTypeOK, NoOrphan
  <2>5. CASE cleanup_end(p)
    BY <2>5 DEF cleanup_end, cleanup_step, close_stream, NoOrphan
  <2>6. CASE Disconnect(p) \/ handle_play(p)
    BY <2>6 DEF Disconnect, handle_play, Move, PubTypeOK, NoOrphan, registry
  <2>7. CASE WhipUnpublish(p) \/ WhipCloseOwn(p) \/ Drop(p)
    BY <2>7 DEF WhipUnpublish, WhipCloseOwn, Drop, Move, PubTypeOK, NoOrphan, registry
  <2>8. CASE WhipCloseKey(p)
    BY <2>8 DEF WhipCloseKey, close_stream, NoOrphan
  <2>9. QED
    BY <1>2, <2>1, <2>2, <2>3, <2>4, <2>5, <2>6, <2>7, <2>8 DEF SessionStep
<1>3. QED
  BY <1>1, <1>2 DEF PubNext

\* The invariants hold of an empty registry.
LEMMA PubInitInv ==
  ASSUME PubInit
  PROVE  PubTypeOK /\ NoOrphan /\ Announced
BY SourceBounds, BusAssumption DEF PubInit, PubTypeOK, NoOrphan, Announced, Places, Event, SourceIds

\* A step that leaves the sessions, the registry and the last event alone keeps
\* them; the supervisors take such steps.
LEMMA PubStutter ==
  ASSUME PubTypeOK, NoOrphan, Announced,
         UNCHANGED <<registry, session, started, missed, last, closes>>,
         bus' \in [Watchers -> Seq(Event)], \A w \in Watchers : Len(bus'[w]) <= BusCap
  PROVE  PubTypeOK' /\ NoOrphan' /\ Announced'
BY DEF PubTypeOK, NoOrphan, Announced, Settled, registry, session

----------------------------------------------------------------------------
\* StreamPusher.

\* Commands and parked pushers exist only where the supervisor runs, that is,
\* where events are queued for it.
Watching == cmds # << >> \/ pending # NoPusher => "pusher" \in started

PushInv == PusherTypeOK /\ NoOrphan /\ Announced /\ Watching /\ NoMissedPublish

\* The supervisor's own step on its event queue keeps the queue's type.
LEMMA TakeEventBus ==
  ASSUME PubTypeOK, TakeEvent
  PROVE  /\ bus' \in [Watchers -> Seq(Event)]
         /\ \A w \in Watchers : Len(bus'[w]) <= BusCap
<1>1. /\ bus["pusher"] \in Seq(Event) /\ bus["pusher"] # << >>
      /\ Len(bus["pusher"]) <= BusCap
  BY PusherWatches DEF PubTypeOK, TakeEvent
<1>2. /\ Tail(bus["pusher"]) \in Seq(Event)
      /\ Len(Tail(bus["pusher"])) = Len(bus["pusher"]) - 1
  BY <1>1
<1>3. bus' = [bus EXCEPT !["pusher"] = Tail(bus["pusher"])]
  BY DEF TakeEvent
<1>4. Len(Tail(bus["pusher"])) <= BusCap
  BY <1>1, <1>2, BusAssumption
<1>5. QED
  BY <1>2, <1>3, <1>4, Zenon DEF PubTypeOK

\* The types hold along every step.
LEMMA PushTypeStep ==
  ASSUME PusherTypeOK, NoOrphan, Announced, PusherNext
  PROVE  PusherTypeOK' /\ NoOrphan' /\ Announced'
<1> USE DEF PushPlaces
<1>1. CASE PubNext /\ UNCHANGED pushVars
  <2>1. PubTypeOK' /\ NoOrphan' /\ Announced'
    BY <1>1, PubTypeStep, NoOrphanStep, AnnouncedStep DEF PusherTypeOK
  <2>2. made \in Nat /\ made' \in Nat /\ made <= made'
    BY <1>1, PubMonotone DEF PusherTypeOK
  <2>3. feed' \in [Pushers -> 0 .. made']
    BY <1>1, <2>2 DEF PusherTypeOK, pushVars
  <2>4. QED
    BY <1>1, <2>1, <2>3 DEF PusherTypeOK, pushVars
<1>2. ASSUME UNCHANGED pubVars
      PROVE  PubTypeOK' /\ NoOrphan' /\ Announced'
  BY <1>2, PubStutter DEF PusherTypeOK, PubTypeOK, pubVars, registry, session
<1>3. ASSUME NEW t \in Pushers, add(t)
      PROVE  PusherTypeOK' /\ NoOrphan' /\ Announced'
  BY <1>2, <1>3 DEF add, PusherTypeOK, pubVars
<1>4. CASE remove
  BY <1>2, <1>4 DEF remove, PusherTypeOK, pubVars
<1>5. CASE TakeCmd
  <2>1. cmds \in Seq(Pushers) /\ cmds # << >>
    BY <1>5 DEF TakeCmd, PusherTypeOK
  <2>2. Head(cmds) \in Pushers /\ Tail(cmds) \in Seq(Pushers)
    BY <2>1
  <2>3. QED
    BY <1>2, <1>5, <2>2, Zenon DEF TakeCmd, PusherTypeOK, pubVars
<1>6. CASE TakeEvent
  <2>1. PubTypeOK' /\ NoOrphan' /\ Announced'
    BY <1>6, TakeEventBus, PubStutter DEF TakeEvent, PusherTypeOK
  <2>2. QED
    BY <1>6, <2>1 DEF TakeEvent, PusherTypeOK, registry
<1>7. ASSUME NEW t \in Pushers, PushStep(t)
      PROVE  PusherTypeOK' /\ NoOrphan' /\ Announced'
  <2>1. CASE StartPush(t)
    BY <1>2, <2>1, Zenon DEF StartPush, PusherTypeOK, PubTypeOK, pubVars
  <2>2. CASE CheckStopped(t) \/ SendFrame(t) \/ RecvClosed(t)
    BY <1>2, <2>2, Zenon DEF CheckStopped, SendFrame, RecvClosed, PusherTypeOK, pubVars
  <2>3. CASE FinishPush(t)
    BY <1>2, <2>3, SourceBounds DEF FinishPush, PusherTypeOK, PubTypeOK, pubVars
  <2>4. QED
    BY <1>7, <2>1, <2>2, <2>3 DEF PushStep
<1>8. QED
  BY <1>1, <1>3, <1>4, <1>5, <1>6, <1>7 DEF PusherNext

\* Only add sends commands and only a command is parked.
LEMMA WatchingStep ==
  ASSUME PusherTypeOK, Watching, PusherNext
  PROVE  Watching'
<1>1. CASE PubNext /\ UNCHANGED pushVars
  <2>1. started' = started
    BY <1>1, PubMonotone DEF PusherTypeOK
  <2>2. QED
    BY <1>1, <2>1 DEF Watching, pushVars
<1>2. CASE \E t \in Pushers : add(t)
  BY <1>2 DEF add, Watching, pubVars
<1>3. CASE remove \/ TakeCmd
  BY <1>3 DEF remove, TakeCmd, Watching, pubVars
<1>4. CASE TakeEvent
  BY <1>4, Zenon DEF TakeEvent, Watching
<1>5. CASE \E t \in Pushers : PushStep(t)
  BY <1>5 DEF PushStep, StartPush, CheckStopped, SendFrame, RecvClosed, FinishPush, Watching, pubVars
<1>6. QED
  BY <1>1, <1>2, <1>3, <1>4, <1>5 DEF PusherNext

\* A parked pusher is still followed by the event that will start it.
LEMMA NoMissedPublishStep ==
  ASSUME PusherTypeOK, Watching, NoMissedPublish, PusherNext
  PROVE  NoMissedPublish'
<1>1. CASE PubNext /\ UNCHANGED pushVars
  <2>1. CASE src' = 0 \/ \E p \in Sessions : ~ Settled(p)'
    BY <2>1, Zenon DEF NoMissedPublish
  <2>2. CASE /\ UNCHANGED <<src, events>>
             /\ \A p \in Sessions : Settled(p)' => Settled(p)
    BY <1>1, <2>2, Zenon DEF NoMissedPublish, events, pushVars
  <2>3. CASE publish("pub")
    <3> SUFFICES ASSUME pending' # NoPusher
                 PROVE  \E i \in 1 .. Len(bus'["pusher"]) : bus'["pusher"][i] = "pub"
      BY DEF NoMissedPublish
    <3>1. "pusher" \in started
      BY <1>1 DEF Watching, pushVars
    <3>2. PICK q \in Seq(Event) : bus'["pusher"] = Append(q, "pub")
      <4>1. bus["pusher"] \in Seq(Event) /\ Len(bus["pusher"]) \in Nat
        BY PusherWatches DEF PusherTypeOK, PubTypeOK
      <4>2. CASE Len(bus["pusher"]) < BusCap
        BY <2>3, <3>1, <4>1, <4>2, PusherWatches DEF publish
      <4>3. CASE ~ (Len(bus["pusher"]) < BusCap)
        <5>1. bus["pusher"] # << >>
          BY <4>1, <4>3, BusAssumption
        <5>2. Tail(bus["pusher"]) \in Seq(Event)
          BY <4>1, <5>1
        <5>3. QED
          BY <2>3, <3>1, <4>3, <5>2, PusherWatches, Zenon DEF publish
      <4>4. QED
        BY <4>2, <4>3
    <3>3. /\ Len(Append(q, "pub")) \in 1 .. Len(Append(q, "pub"))
          /\ Append(q, "pub")[Len(Append(q, "pub"))] = "pub"
      BY <3>2
    <3>4. QED
      BY <3>2, <3>3
  <2>4. QED
    BY <1>1, <2>1, <2>2, <2>3, PubStepKinds DEF PusherTypeOK
<1>2. CASE (\E t \in Pushers : add(t)) \/ remove
  BY <1>2, Zenon DEF add, remove, NoMissedPublish, Settled, pubVars
<1>3. CASE TakeCmd
  BY <1>3, Zenon DEF TakeCmd, NoMissedPublish, Settled, pubVars
<1>4. CASE TakeEvent
  <2> SUFFICES ASSUME pending' # NoPusher, src' # 0, ~ missed'["pusher"],
                      \A p \in Sessions : Settled(p)'
               PROVE  \E i \in 1 .. Len(bus'["pusher"]) : bus'["pusher"][i] = "pub"
    BY DEF NoMissedPublish
  <2>1. /\ pending' = pending /\ src' = src /\ missed' = missed /\ at' = at
        /\ Head(bus["pusher"]) # "pub"
        /\ bus["pusher"] \in Seq(Event) /\ bus["pusher"] # << >>
        /\ bus'["pusher"] = Tail(bus["pusher"])
    BY <1>4, PusherWatches DEF TakeEvent, registry, session, PusherTypeOK, PubTypeOK
  <2>2. PICK i \in 1 .. Len(bus["pusher"]) : bus["pusher"][i] = "pub"
    BY <2>1, Zenon DEF NoMissedPublish, Settled
  <2>3. i # 1
    BY <2>1, <2>2
  <2>4. i - 1 \in 1 .. Len(Tail(bus["pusher"])) /\ Tail(bus["pusher"])[i - 1] = "pub"
    BY ONLY <2>1, <2>2, <2>3
  <2>5. QED
    BY <2>1, <2>4, Zenon
<1>5. CASE \E t \in Pushers : PushStep(t)
  BY <1>5, Zenon DEF PushStep, StartPush, CheckStopped, SendFrame, RecvClosed, FinishPush,
       NoMissedPublish, Settled, pubVars
<1>6. QED
  BY <1>1, <1>2, <1>3, <1>4, <1>5 DEF PusherNext

\* The conjunction is inductive.
THEOREM PushInvariant == PusherSpec => []PushInv
<1>1. PusherInit => PushInv
  <2> SUFFICES ASSUME PusherInit PROVE PushInv
    OBVIOUS
  <2>1. PubTypeOK /\ NoOrphan /\ Announced
    BY PubInitInv DEF PusherInit
  <2>2. PusherTypeOK
    BY <2>1, SourceBounds DEF PusherInit, PubTypeOK, PusherTypeOK, PushPlaces
  <2>3. Watching /\ NoMissedPublish
    BY Zenon DEF PusherInit, Watching, NoMissedPublish
  <2>4. QED
    BY <2>1, <2>2, <2>3 DEF PushInv
<1>2. PushInv /\ [PusherNext]_pusherVars => PushInv'
  <2> SUFFICES ASSUME PushInv, [PusherNext]_pusherVars PROVE PushInv'
    OBVIOUS
  <2>1. CASE PusherNext
    BY <2>1, PushTypeStep, WatchingStep, NoMissedPublishStep, Zenon DEF PushInv
  <2>2. CASE UNCHANGED pusherVars
    BY <2>2 DEF PushInv, PusherTypeOK, PubTypeOK, NoOrphan, Announced, Watching, NoMissedPublish,
         Settled, pusherVars, pubVars, pushVars
  <2>3. QED
    BY <2>1, <2>2
<1>3. QED
  BY <1>1, <1>2, PTL DEF PusherSpec

\* A pusher parked until its stream is published misses no publication that is
\* announced, unless the bus overran the supervisor.
THEOREM ParkedPusherTheorem == PusherSpec => []NoMissedPublish
<1>1. PushInv => NoMissedPublish
  BY DEF PushInv
<1>2. QED
  BY <1>1, PushInvariant, PTL

\* When StreamUnPublish is the last event and nobody is in the middle of
\* something, the key is free.
THEOREM UnpublishTheorem == PusherSpec => []UnpublishedIsGone
<1>1. PushInv => UnpublishedIsGone
  BY DEF PushInv, Announced, UnpublishedIsGone
<1>2. QED
  BY <1>1, PushInvariant, PTL

\* Sessions that end by their cleanup leave no source behind.
THEOREM OrphanTheorem == PusherSpec => []NoOrphan
<1>1. PushInv => NoOrphan
  BY DEF PushInv
<1>2. QED
  BY <1>1, PushInvariant, PTL

\* Every variable of pushers, sessions and the bus keeps its type, for any bounds
\* (run_pusher_supervisor and the sessions that publish).
THEOREM PushTypeTheorem == PusherSpec => []PusherTypeOK
<1>1. PushInv => PusherTypeOK
  BY DEF PushInv
<1>2. QED
  BY <1>1, PushInvariant, PTL

----------------------------------------------------------------------------
\* Supervisors.

\* A supervisor's step on its event queue keeps the type of the bus.
LEMMA TakeFromBus ==
  ASSUME PubTypeOK, NEW w \in Watchers, bus[w] # << >>,
         bus' = [bus EXCEPT ![w] = Tail(@)],
         UNCHANGED <<registry, session, started, missed, last, closes>>
  PROVE  PubTypeOK'
<1>1. bus[w] \in Seq(Event) /\ Len(bus[w]) <= BusCap
  BY DEF PubTypeOK
<1>2. Tail(bus[w]) \in Seq(Event) /\ Len(Tail(bus[w])) = Len(bus[w]) - 1
  BY <1>1
<1>3. Len(Tail(bus[w])) <= BusCap
  BY <1>1, <1>2, BusAssumption
<1>4. bus' \in [Watchers -> Seq(Event)] /\ \A v \in Watchers : Len(bus'[v]) <= BusCap
  BY <1>2, <1>3 DEF PubTypeOK
<1>5. QED
  BY <1>4 DEF PubTypeOK, registry, session

\* Starting recorders keeps the types, and the one recording.
LEMMA StartRecordingStep ==
  ASSUME PubTypeOK, RecTypeOK, OneRecording,
         NEW formats \in SUBSET Formats, StartRecording(formats),
         recCmds' \in Seq(SUBSET Formats), cmdCount' \in 0 .. MaxCmds, made' = made
  PROVE  RecTypeOK' /\ OneRecording'
<1>1. CASE UNCHANGED <<stops, state, rec, taken, told>>
  BY <1>1 DEF RecTypeOK, OneRecording, Running
<1>2. CASE /\ formats # {} /\ stops = NoRecording /\ src # 0
           /\ state' = formats /\ UNCHANGED told
           /\ \E r \in Recordings :
                /\ stops' = r
                /\ taken' = [taken EXCEPT ![r] = src]
                /\ rec' = [rec EXCEPT ![r] =
                             [f \in Formats |-> IF f \in formats THEN "starting" ELSE "none"]]
  <2>1. PICK r \in Recordings :
          /\ stops' = r
          /\ taken' = [taken EXCEPT ![r] = src]
          /\ rec' = [rec EXCEPT ![r] =
                       [f \in Formats |-> IF f \in formats THEN "starting" ELSE "none"]]
    BY <1>2, Zenon
  <2>2. RecTypeOK'
    BY <1>2, <2>1 DEF RecTypeOK, RecPlaces, PubTypeOK
  <2>3. \A q \in Recordings : q # r => rec'[q] = rec[q]
    BY <2>1, Zenon DEF RecTypeOK
  <2>4. OneRecording'
    BY <1>2, <2>1, <2>3, NoRecordingAssumption, Zenon DEF OneRecording, Running
  <2>5. QED
    BY <2>2, <2>4
<1>3. QED
  BY <1>1, <1>2 DEF StartRecording

\* Forgetting the recording keeps the types, and leaves none that was not told.
LEMMA StopRecordingStep ==
  ASSUME RecTypeOK, OneRecording, StopRecording,
         recCmds' \in Seq(SUBSET Formats), cmdCount' \in 0 .. MaxCmds, made' = made
  PROVE  RecTypeOK' /\ OneRecording'
<1>1. RecTypeOK'
  BY DEF RecTypeOK, RecPlaces, StopRecording
<1>2. OneRecording'
  BY Zenon DEF RecTypeOK, OneRecording, Running, StopRecording
<1>3. QED
  BY <1>1, <1>2

\* Every step of the recorders and of their supervisor.
LEMMA RecNextStep ==
  ASSUME PubTypeOK, RecTypeOK, OneRecording, RecNext
  PROVE  PubTypeOK' /\ RecTypeOK' /\ OneRecording' /\ made' = made
<1>1. ASSUME UNCHANGED pubVars
      PROVE  PubTypeOK' /\ made' = made
  BY <1>1 DEF PubTypeOK, pubVars
<1>2. CASE SendRecorderCommand
  <2>1. recCmds' \in Seq(SUBSET Formats) /\ cmdCount' \in 0 .. MaxCmds
    BY <1>2, AutoAssumption DEF SendRecorderCommand, RecTypeOK
  <2>2. QED
    BY <1>1, <1>2, <2>1 DEF SendRecorderCommand, RecTypeOK, OneRecording, Running
<1>3. CASE TakeRecorderEvent
  <2>1. PubTypeOK' /\ made' = made /\ UNCHANGED <<recCmds, cmdCount>>
    BY <1>3, TakeFromBus, RecorderWatches, Zenon DEF TakeRecorderEvent, registry
  <2>2. StartRecording(AutoRecord) \/ StopRecording
    BY <1>3 DEF TakeRecorderEvent
  <2>3. recCmds' \in Seq(SUBSET Formats) /\ cmdCount' \in 0 .. MaxCmds
    BY <2>1 DEF RecTypeOK
  <2>4. QED
    BY <2>1, <2>2, <2>3, StartRecordingStep, StopRecordingStep, AutoAssumption
<1>4. CASE TakeRecorderCmd
  <2>1. recCmds \in Seq(SUBSET Formats) /\ recCmds # << >>
    BY <1>4 DEF TakeRecorderCmd, RecTypeOK
  <2>2. Head(recCmds) \in SUBSET Formats /\ Tail(recCmds) \in Seq(SUBSET Formats)
    BY <2>1
  <2>3. /\ recCmds' \in Seq(SUBSET Formats) /\ cmdCount' \in 0 .. MaxCmds
        /\ UNCHANGED pubVars
    BY <1>4, <2>2 DEF TakeRecorderCmd, RecTypeOK
  <2>4. StartRecording(Head(recCmds)) \/ StopRecording
    BY <1>4 DEF TakeRecorderCmd
  <2>5. QED
    BY <1>1, <2>2, <2>3, <2>4, StartRecordingStep, StopRecordingStep
<1>5. ASSUME NEW r \in Recordings, NEW f \in Formats, RecStep(r, f)
      PROVE  PubTypeOK' /\ RecTypeOK' /\ OneRecording' /\ made' = made
  <2>1. PICK place \in {"busy", "parked", "ended"} : GoRec(r, f, place)
    BY <1>5, Zenon DEF RecStep, RecStart, RecFrame, RecWritten, RecClosed
  <2>2. Running(r, f)
    BY <1>5 DEF RecStep, RecStart, RecFrame, RecWritten, RecClosed, Running
  <2>3. RecTypeOK' /\ UNCHANGED <<pubVars, stops, told>>
    BY <1>1, <2>1 DEF GoRec, RecTypeOK, RecPlaces
  <2>4. \A q \in Recordings, g \in Formats : Running(q, g)' => Running(q, g) \/ q = r
    BY <2>1 DEF GoRec, RecTypeOK, Running
  <2>5. OneRecording'
    BY <2>2, <2>3, <2>4 DEF OneRecording
  <2>6. QED
    BY <1>1, <2>3, <2>5
<1>6. QED
  BY <1>2, <1>3, <1>4, <1>5 DEF RecNext

\* Every step of the relays and of their supervisor.
LEMMA RelayNextStep ==
  ASSUME PubTypeOK, RelayTypeOK, OneRelay, RelayNext
  PROVE  PubTypeOK' /\ RelayTypeOK' /\ OneRelay' /\ made' = made
<1>1. ASSUME UNCHANGED pubVars
      PROVE  PubTypeOK' /\ made' = made
  BY <1>1 DEF PubTypeOK, pubVars
<1>2. CASE TakeRelayEvent
  <2>1. PubTypeOK' /\ made' = made /\ UNCHANGED source
    BY <1>2, TakeFromBus, RelayWatches, Zenon DEF TakeRelayEvent, registry
  <2>2. CASE RelayPublish
    BY <2>1, <2>2, NoRelayAssumption DEF RelayPublish, RelayTypeOK, RelayPlaces, OneRelay, Relaying
  <2>3. CASE RelayUnPublish
    <3>1. RelayTypeOK'
      BY <2>1, <2>3 DEF RelayUnPublish, RelayTypeOK, RelayPlaces
    <3>2. OneRelay'
      BY <2>3, Zenon DEF RelayUnPublish, RelayTypeOK, OneRelay, Relaying
    <3>3. QED
      BY <2>1, <3>1, <3>2
  <2>4. QED
    BY <1>2, <2>2, <2>3 DEF TakeRelayEvent
<1>3. ASSUME NEW t \in Relays, RelayStep(t) \/ RelayPeerLost(t)
      PROVE  PubTypeOK' /\ RelayTypeOK' /\ OneRelay' /\ made' = made
  <2> USE DEF RelayStep, RelayPeerLost, RelayCheck, RelayWait, RelayDial, RelayPush, RelayFailed,
        RelayRetry
  <2>1. PICK place \in RelayPlaces : GoRelay(t, place)
    BY <1>3, Zenon DEF RelayPlaces
  <2>2. Relaying(t)
    BY <1>3 DEF Relaying
  <2>3. source' \in [Relays -> 0 .. made]
    <3>1. source' = source \/ source' = [source EXCEPT ![t] = src] \/ source' = [source EXCEPT ![t] = 0]
      BY <1>3
    <3>2. 0 \in 0 .. made /\ src \in 0 .. made
      BY SourceBounds DEF PubTypeOK
    <3>3. QED
      BY <3>1, <3>2, Zenon DEF RelayTypeOK
  <2>4. RelayTypeOK' /\ OneRelay'
    BY <1>1, <2>1, <2>2, <2>3, Zenon DEF GoRelay, RelayTypeOK, OneRelay, Relaying
  <2>5. QED
    BY <1>1, <2>1, <2>4, Zenon DEF GoRelay
<1>4. QED
  BY <1>2, <1>3 DEF RelayNext

\* The types, the one recording and the one relay are inductive together.
THEOREM SupervisorsInvariant == Spec => [](TypeOK /\ OneRecording /\ OneRelay)
<1> DEFINE Inv == TypeOK /\ OneRecording /\ OneRelay
<1>1. Init => Inv
  <2> SUFFICES ASSUME Init PROVE Inv
    OBVIOUS
  <2>1. PubTypeOK /\ made \in Nat
    BY PubInitInv DEF Init, PubInit
  <2>2. RecTypeOK /\ OneRecording
    BY <2>1, AutoAssumption DEF Init, RecInit, RecTypeOK, RecPlaces, OneRecording, Running
  <2>3. RelayTypeOK /\ OneRelay
    BY <2>1 DEF Init, RelayInit, RelayTypeOK, RelayPlaces, OneRelay, Relaying
  <2>4. QED
    BY <2>1, <2>2, <2>3 DEF TypeOK
<1>2. Inv /\ [Next]_vars => Inv'
  <2> SUFFICES ASSUME Inv, [Next]_vars PROVE Inv'
    OBVIOUS
  <2>1. ASSUME UNCHANGED recVars, made \in Nat, made' \in Nat, made <= made'
        PROVE  RecTypeOK' /\ OneRecording'
    BY <2>1 DEF TypeOK, RecTypeOK, OneRecording, Running, recVars
  <2>2. ASSUME UNCHANGED relayVars, made \in Nat, made' \in Nat, made <= made'
        PROVE  RelayTypeOK' /\ OneRelay'
    BY <2>2 DEF TypeOK, RelayTypeOK, OneRelay, Relaying, relayVars
  <2>3. made \in Nat /\ made <= made
    BY SourceBounds DEF TypeOK, PubTypeOK
  <2>4. CASE PubNext /\ UNCHANGED <<recVars, relayVars>>
    BY <2>1, <2>2, <2>4, PubMonotone, PubTypeStep DEF TypeOK
  <2>5. CASE RecNext /\ UNCHANGED relayVars
    BY <2>2, <2>3, <2>5, RecNextStep DEF TypeOK
  <2>6. CASE RelayNext /\ UNCHANGED recVars
    BY <2>1, <2>3, <2>6, RelayNextStep, Zenon DEF TypeOK
  <2>7. CASE UNCHANGED vars
    BY <2>1, <2>2, <2>3, <2>7 DEF vars, TypeOK, PubTypeOK, pubVars
  <2>8. QED
    BY <2>4, <2>5, <2>6, <2>7 DEF Next
<1>3. QED
  BY <1>1, <1>2, PTL DEF Spec

\* At most one recording of a stream is under way that was not told to stop: it
\* is the one run_recorder_supervisor holds.
THEOREM OneRecordingTheorem == Spec => []OneRecording
BY SupervisorsInvariant, PTL

\* At most one relay of a stream to a peer runs that was not told to stop: it is
\* the one in the tasks of run_cluster_push_relay.
THEOREM OneRelayTheorem == Spec => []OneRelay
BY SupervisorsInvariant, PTL

\* Every variable of sessions, recorders and relays keeps its type, for any
\* bounds (run_recorder_supervisor and run_cluster_push_relay).
THEOREM SupervisorsTypeTheorem == Spec => []TypeOK
BY SupervisorsInvariant, PTL

-----------------------------------------------------------------------------
(* The hook client. *)

HkSpec == HkInit /\ [][HkNext]_hkVars

HkSettings ==
  [pc : {"idle", "revise", "runtime"}, key : {"url", "retry", "interval"},
   value : HookUrls \cup Retries \cup Intervals \cup {NoUrl}, changed : BOOLEAN]
HkRequests ==
  [pc : {"idle", "attempt", "over"}, config : Values \cup {0}, attempt : Nat,
   asked : Seq(HookUrls), answer : {"none", "allow", "deny"}]

HkTypeOK ==
  /\ hkConfig \in Values
  /\ hkRevision \in Nat
  /\ hkSets \in [Setters -> HkSettings]
  /\ hkFlow \in [pc : {"loop", "sleep", "report"}, interval : Intervals \cup {0}, seen : Nat]
  /\ hkCalls \in [HookCalls -> HkRequests]

\* What a call has done so far: one attempt more than it failed, all at the URL
\* that it copied.
HkCallOK ==
  \A c \in HookCalls :
    hkCalls[c].pc # "idle" =>
      /\ hkCalls[c].config \in Values
      /\ Len(hkCalls[c].asked) = hkCalls[c].attempt
      /\ hkCalls[c].attempt <= hkCalls[c].config.retry + 1
      /\ \A i \in 1 .. Len(hkCalls[c].asked) : hkCalls[c].asked[i] = hkCalls[c].config.url
      /\ hkCalls[c].pc = "attempt" =>
           /\ hkCalls[c].attempt <= hkCalls[c].config.retry
           /\ hkCalls[c].config.url # NoUrl
           /\ hkCalls[c].answer = "allow"
      /\ hkCalls[c].answer = "deny" => hkCalls[c].config.url # NoUrl

\* A sleep on an interval that was replaced is about to be broken off: by a
\* revision that the task has not seen, or by one on its way.
HkWoken ==
  /\ hkFlow.seen <= hkRevision
  /\ hkFlow.pc = "sleep" /\ hkFlow.interval # hkConfig.interval =>
       \/ hkFlow.seen # hkRevision
       \/ \E s \in Setters : hkSets[s].pc = "revise" /\ hkSets[s].changed

\* The inductive invariant.
HkInv == HkTypeOK /\ HkWoken /\ HkCallOK

\* A setting changes the configuration and says so, or leaves it as it was.
LEMMA HkSetStep ==
  ASSUME HkInv, NEW s \in Setters, NEW k \in {"url", "retry", "interval"},
         NEW v \in HookUrls \cup Retries \cup Intervals,
         k = "url" => v \in HookUrls, k = "retry" => v \in Retries,
         k = "interval" => v \in Intervals,
         set_config_value(s, k, v)
  PROVE  HkInv'
<1> USE DEF HkInv, HkTypeOK, Values
<1>1. /\ hkSets[s].pc = "idle"
      /\ hkConfig' = [hkConfig EXCEPT ![k] = v]
      /\ hkSets' = [hkSets EXCEPT ![s] = [pc |-> "revise", key |-> k, value |-> v,
                                          changed |-> hkConfig[k] # v]]
      /\ UNCHANGED <<hkRevision, hkCalls, hkFlow>>
  BY DEF set_config_value, is_changed
<1>2. HkTypeOK'
  <2>1. hkConfig' \in Values
    BY <1>1
  <2>2. [pc |-> "revise", key |-> k, value |-> v, changed |-> hkConfig[k] # v] \in HkSettings
    BY Zenon DEF HkSettings
  <2>3. hkSets' \in [Setters -> HkSettings]
    BY <1>1, <2>2
  <2> QED BY <1>1, <2>1, <2>3
<1>3. HkWoken'
  <2>1. CASE hkConfig'.interval = hkConfig.interval
    <3>1. \A q \in Setters : hkSets[q].pc = "revise" => hkSets'[q] = hkSets[q]
      BY <1>1, Zenon
    <3> QED BY <2>1, <3>1, <1>1 DEF HkWoken
  <2>2. CASE hkConfig'.interval # hkConfig.interval
    <3>1. k = "interval" /\ hkConfig[k] # v
      BY <2>2, <1>1
    <3>2. hkSets'[s].pc = "revise" /\ hkSets'[s].changed
      BY <3>1, <1>1, Zenon
    <3> QED BY <3>2, <1>1 DEF HkWoken
  <2> QED BY <2>1, <2>2
<1>4. HkCallOK'
  BY <1>1 DEF HkCallOK
<1> QED BY <1>1, <1>2, <1>3, <1>4, Zenon

\* An attempt asks the URL of the call, and is the last unless one is left.
LEMMA HkTryStep ==
  ASSUME HkInv, NEW c \in HookCalls, NEW a \in {"allow", "deny", "error"}, try_call(c, a)
  PROVE  HkInv'
<1> DEFINE call == hkCalls[c]
<1>1. /\ call.pc = "attempt"
      /\ hkCalls' = [hkCalls EXCEPT ![c] =
           [call EXCEPT !.asked = Append(call.asked, call.config.url), !.attempt = @ + 1,
                        !.pc = IF a # "error" \/ call.attempt >= call.config.retry
                               THEN "over" ELSE "attempt",
                        !.answer = IF a = "error" THEN "allow" ELSE a]]
      /\ UNCHANGED <<hkConfig, hkRevision, hkSets, hkFlow>>
  BY DEF try_call, config_of
<1>2. /\ call.config \in Values
      /\ call.attempt \in Nat
      /\ call.asked \in Seq(HookUrls)
      /\ Len(call.asked) = call.attempt
      /\ \A i \in 1 .. Len(call.asked) : call.asked[i] = call.config.url
      /\ call.attempt <= call.config.retry
      /\ call.config.url # NoUrl
  BY <1>1 DEF HkInv, HkTypeOK, HkRequests, HkCallOK
<1>3. call.config.url \in HookUrls /\ call.config.retry \in Nat
  BY <1>2, RetriesAssumption, Zenon DEF Values
<1>4. hkCalls'[c] = [pc |-> IF a # "error" \/ call.attempt >= call.config.retry
                            THEN "over" ELSE "attempt",
                     config |-> call.config, attempt |-> call.attempt + 1,
                     asked |-> Append(call.asked, call.config.url),
                     answer |-> IF a = "error" THEN "allow" ELSE a]
  BY <1>1, Zenon DEF HkInv, HkTypeOK, HkRequests
<1>5. /\ Append(call.asked, call.config.url) \in Seq(HookUrls)
      /\ Len(Append(call.asked, call.config.url)) = call.attempt + 1
      /\ \A i \in 1 .. (call.attempt + 1) :
           Append(call.asked, call.config.url)[i] = call.config.url
  BY <1>2, <1>3
<1>6. HkTypeOK'
  <2>1. hkCalls'[c] \in HkRequests
    <3> DEFINE asked == Append(call.asked, call.config.url)
    <3>1. asked \in Seq(HookUrls) /\ call.attempt + 1 \in Nat
      BY <1>2, <1>5
    <3>2. call.config \in Values /\ (a = "error" \/ a \in {"allow", "deny"})
      BY <1>1, <1>2
    <3> HIDE DEF asked
    <3> QED BY <1>4, <3>1, <3>2 DEF HkRequests, asked
  <2>2. hkCalls' = [hkCalls EXCEPT ![c] = hkCalls'[c]]
    BY <1>1 DEF HkInv, HkTypeOK
  <2> QED BY <1>1, <2>1, <2>2, Zenon DEF HkInv, HkTypeOK
<1>7. HkWoken'
  BY <1>1 DEF HkInv, HkWoken
<1>8. HkCallOK'
  <2> SUFFICES ASSUME NEW d \in HookCalls PROVE HkCallOK!(d)'
    BY Zenon DEF HkCallOK
  <2>1. CASE d = c
    <3> DEFINE asked == Append(call.asked, call.config.url)
               place == IF a # "error" \/ call.attempt >= call.config.retry THEN "over" ELSE "attempt"
               config == call.config
               tries == call.attempt + 1
               answer == IF a = "error" THEN "allow" ELSE a
    <3>1. hkCalls'[c] = [pc |-> place, config |-> config, attempt |-> tries, asked |-> asked, answer |-> answer]
      BY <1>4, Zenon
    <3>2. Len(asked) = tries /\ \A i \in 1 .. Len(asked) : asked[i] = config.url
      BY <1>5, Zenon
    <3>3. /\ config \in Values /\ config.url # NoUrl /\ tries <= config.retry + 1
          /\ place = "attempt" => tries <= config.retry /\ answer = "allow"
      BY <1>2, <1>3
    <3> HIDE DEF asked, place, config, tries, answer
    <3>4. /\ hkCalls'[c].pc = place /\ hkCalls'[c].config = config /\ hkCalls'[c].attempt = tries
          /\ hkCalls'[c].asked = asked /\ hkCalls'[c].answer = answer
      BY ONLY <3>1
    <3> QED BY <2>1, <3>2, <3>3, <3>4, Zenon
  <2>2. CASE d # c
    <3>1. hkCalls'[d] = hkCalls[d]
      BY <2>2, <1>1 DEF HkInv, HkTypeOK
    <3> QED BY <3>1, Zenon DEF HkInv, HkCallOK
  <2> QED BY <2>1, <2>2, Zenon
<1> QED BY <1>6, <1>7, <1>8 DEF HkInv

\* Every step of settings, calls and the flow report task keeps the invariant.
LEMMA HkStep == HkInv /\ [HkNext]_hkVars => HkInv'
<1> SUFFICES ASSUME HkInv, [HkNext]_hkVars PROVE HkInv'
  OBVIOUS
<1>1. ASSUME NEW s \in Setters, NEW v \in HookUrls, set_config_value(s, "url", v) PROVE HkInv'
  BY <1>1, HkSetStep
<1>2. ASSUME NEW s \in Setters, NEW v \in Retries, set_config_value(s, "retry", v) PROVE HkInv'
  BY <1>2, HkSetStep
<1>3. ASSUME NEW s \in Setters, NEW v \in Intervals, set_config_value(s, "interval", v)
      PROVE  HkInv'
  BY <1>3, HkSetStep
<1>4. ASSUME NEW s \in Setters, send_revision(s) PROVE HkInv'
  <2>1. HkTypeOK'
    <3>1. [hkSets[s] EXCEPT !.pc = "runtime"] \in HkSettings
      BY DEF HkInv, HkTypeOK, HkSettings
    <3> QED BY <3>1, <1>4 DEF send_revision, HkInv, HkTypeOK
  <2>2. HkWoken'
    <3>1. CASE hkSets[s].changed
      BY <3>1, <1>4 DEF send_revision, HkInv, HkTypeOK, HkWoken
    <3>2. CASE ~ hkSets[s].changed
      <4>1. \A q \in Setters : hkSets[q].changed => hkSets'[q] = hkSets[q]
        BY <3>2, <1>4 DEF send_revision, HkInv, HkTypeOK
      <4> QED BY <4>1, <3>2, <1>4 DEF send_revision, HkInv, HkWoken
    <3> QED BY <3>1, <3>2
  <2>3. HkCallOK'
    BY <1>4 DEF send_revision, HkInv, HkCallOK
  <2> QED BY <2>1, <2>2, <2>3 DEF HkInv
<1>5. ASSUME NEW s \in Setters, set_runtime_config(s) PROVE HkInv'
  <2>1. HkTypeOK'
    <3>1. IdleSet \in HkSettings
      BY Zenon DEF IdleSet, HkSettings
    <3> QED BY <3>1, <1>5 DEF set_runtime_config, HkInv, HkTypeOK
  <2>2. \A q \in Setters : hkSets[q].pc = "revise" => hkSets'[q] = hkSets[q]
    BY <1>5, Zenon DEF set_runtime_config, HkInv, HkTypeOK
  <2>3. HkWoken'
    BY <1>5, <2>2, Zenon DEF set_runtime_config, HkInv, HkWoken
  <2>4. HkCallOK'
    BY <1>5, Zenon DEF set_runtime_config, HkInv, HkCallOK
  <2> QED BY <2>1, <2>3, <2>4 DEF HkInv
<1>6. ASSUME NEW c \in HookCalls, on_hook(c) PROVE HkInv'
  <2>1. HkTypeOK'
    <3>1. [pc |-> IF hkConfig.url = NoUrl THEN "over" ELSE "attempt", config |-> hkConfig,
           attempt |-> 0, asked |-> <<>>, answer |-> "allow"] \in HkRequests
      <4>1. hkConfig \in Values
        BY Zenon DEF HkInv, HkTypeOK
      <4> QED BY <4>1, NothingAsked, Zenon DEF HkRequests
    <3> QED BY <3>1, <1>6, Zenon DEF on_hook, HkInv, HkTypeOK
  <2>2. HkWoken'
    BY <1>6 DEF on_hook, HkInv, HkWoken
  <2>3. HkCallOK'
    <3> SUFFICES ASSUME NEW d \in HookCalls PROVE HkCallOK!(d)'
      BY Zenon DEF HkCallOK
    <3>1. CASE d = c
      <4>1. hkCalls'[c] = [pc |-> IF hkConfig.url = NoUrl THEN "over" ELSE "attempt",
                           config |-> hkConfig, attempt |-> 0, asked |-> <<>>,
                           answer |-> "allow"]
        BY <1>6 DEF on_hook, HkInv, HkTypeOK
      <4>2. hkConfig \in Values /\ hkConfig.retry \in Nat
        BY RetriesAssumption, Zenon DEF HkInv, HkTypeOK, Values
      <4> QED BY <3>1, <4>1, <4>2
    <3>2. CASE d # c
      <4>1. hkCalls'[d] = hkCalls[d]
        BY <3>2, <1>6 DEF on_hook, HkInv, HkTypeOK
      <4> QED BY <4>1, Zenon DEF HkInv, HkCallOK
    <3> QED BY <3>1, <3>2, Zenon
  <2> QED BY <2>1, <2>2, <2>3 DEF HkInv
<1>7. ASSUME NEW c \in HookCalls, NEW a \in {"allow", "deny", "error"}, try_call(c, a)
      PROVE  HkInv'
  BY <1>7, HkTryStep
<1>8. CASE flow_sleep
  BY <1>8, Zenon DEF flow_sleep, HkInv, HkTypeOK, HkWoken, HkCallOK, Values
<1>9. CASE flow_timer \/ flow_changed \/ flow_reported
  <2>1. UNCHANGED <<hkConfig, hkRevision, hkSets, hkCalls>>
    BY <1>9 DEF flow_timer, flow_changed, flow_reported
  <2>2. /\ hkFlow' \in [pc : {"loop", "report"}, interval : Intervals \cup {0}, seen : Nat]
        /\ hkFlow'.seen <= hkRevision
    <3>1. /\ hkFlow \in [pc : {"loop", "sleep", "report"}, interval : Intervals \cup {0},
                         seen : Nat]
          /\ hkRevision \in Nat /\ hkFlow.seen <= hkRevision
      BY DEF HkInv, HkTypeOK, HkWoken
    <3>2. CASE flow_timer
      BY <3>1, <3>2 DEF flow_timer
    <3>3. CASE flow_changed
      <4>1. hkFlow' = [pc |-> "loop", interval |-> hkFlow.interval, seen |-> hkRevision]
        BY <3>1, <3>3, Zenon DEF flow_changed
      <4> QED BY <4>1, <3>1
    <3>4. CASE flow_reported
      BY <3>1, <3>4 DEF flow_reported
    <3> QED BY <1>9, <3>2, <3>3, <3>4
  <2> QED BY <2>1, <2>2, Zenon DEF HkInv, HkTypeOK, HkWoken, HkCallOK
<1>10. CASE UNCHANGED hkVars
  BY <1>10, Zenon DEF hkVars, HkInv, HkTypeOK, HkWoken, HkCallOK
<1> QED BY <1>1, <1>2, <1>3, <1>4, <1>5, <1>6, <1>7, <1>8, <1>9, <1>10 DEF HkNext

\* The invariant holds in every reachable state.
THEOREM HkInvariant == HkSpec => []HkInv
<1>1. IdleSet \in HkSettings
  BY Zenon DEF IdleSet, HkSettings
<1>2. IdleCall \in HkRequests
  BY NothingAsked, Zenon DEF IdleCall, HkRequests
<1>3. HkInit => HkInv
  <2> SUFFICES ASSUME HkInit PROVE HkInv
    OBVIOUS
  <2>1. HkTypeOK
    BY <1>1, <1>2, NothingAsked, Zenon DEF HkInit, HkTypeOK
  <2>2. HkWoken
    <3>1. hkFlow = [pc |-> "loop", interval |-> 0, seen |-> 0] /\ hkRevision = 0
      BY Zenon DEF HkInit
    <3> QED BY ONLY <3>1 DEF HkWoken
  <2>3. HkCallOK
    <3>1. \A c \in HookCalls : hkCalls[c].pc = "idle"
      BY DEF HkInit, IdleCall
    <3> QED BY <3>1, Zenon DEF HkCallOK
  <2> QED BY <2>1, <2>2, <2>3, Zenon DEF HkInv
<1> QED BY <1>3, HkStep, PTL DEF HkSpec

\* A hook call is decided under the configuration that it started with, and the
\* flow report task never sleeps on an interval that was replaced, for any number
\* of calls, settings, URLs and retries (HookClient::call_hook, main.rs:616).
THEOREM HookTheorem == HkSpec => []HookConsistent
<1>1. HkInv => HookOneConfig
  BY Zenon DEF HkInv, HkTypeOK, HkRequests, HkCallOK, HookOneConfig
<1>2. HkInv => HookTimerFresh
  BY DEF HkInv, HkWoken, HookTimerFresh
<1>3. HkInv => HookConsistent
  BY <1>1, <1>2 DEF HookConsistent
<1> QED BY <1>3, HkInvariant, PTL

-----------------------------------------------------------------------------
(* Transcoding sessions. *)

TtSpec == TtInit /\ [][TtNext]_ttVars

TtTypeOK ==
  /\ ttTasks \in Seq({"running", "over"})
  /\ ttTable \in 0 .. Len(ttTasks)
  /\ ttStops \in SUBSET (1 .. Len(ttTasks))
  /\ ttAdds \in [TtCalls -> [pc : {"idle", "insert", "report"}, session : 0 .. Len(ttTasks)]]

\* The inductive invariant.
TtInv == TtTypeOK /\ TtReachable

\* Aborting a task leaves the others alone.
LEMMA TtDropped ==
  ASSUME TtTypeOK, NEW s \in 0 .. Len(ttTasks)
  PROVE  /\ dropped(s) \in Seq({"running", "over"})
         /\ Len(dropped(s)) = Len(ttTasks)
         /\ \A i \in 1 .. Len(ttTasks) :
              dropped(s)[i] = IF i = s THEN "over" ELSE ttTasks[i]
BY DEF TtTypeOK, dropped

\* Every step of the calls, the tasks and their stops keeps the invariant.
LEMMA TtStep == TtInv /\ [TtNext]_ttVars => TtInv'
<1> SUFFICES ASSUME TtInv, [TtNext]_ttVars PROVE TtInv'
  OBVIOUS
<1> USE DEF TtInv, TtTypeOK
<1>1. ASSUME NEW c \in TtCalls, add_transcode(c) PROVE TtInv'
  <2>1. /\ ttTasks' \in Seq({"running", "over"})
        /\ Len(ttTasks') = Len(ttTasks) + 1
        /\ \A i \in 1 .. Len(ttTasks) : ttTasks'[i] = ttTasks[i]
    BY <1>1 DEF add_transcode
  <2>2. /\ ttAdds[c].pc = "idle"
        /\ ttAdds' = [ttAdds EXCEPT ![c] = [pc |-> "insert", session |-> Len(ttTasks) + 1]]
        /\ ttTable' = ttTable /\ ttStops' = ttStops
    BY <1>1, Zenon DEF add_transcode
  <2>3. TtTypeOK'
    BY <2>1, <2>2
  <2>4. TtReachable'
    <3> SUFFICES ASSUME NEW s \in 1 .. Len(ttTasks'), ttTasks'[s] = "running"
                 PROVE  \/ s = ttTable'
                        \/ s \in ttStops'
                        \/ \E d \in TtCalls : ttAdds'[d] = [pc |-> "insert", session |-> s]
      BY Zenon DEF TtReachable
    <3>1. CASE s = Len(ttTasks) + 1
      BY <3>1, <2>2, Zenon
    <3>2. CASE s # Len(ttTasks) + 1
      <4>1. s \in 1 .. Len(ttTasks) /\ ttTasks[s] = "running"
        BY <3>2, <2>1
      <4>2. \/ s = ttTable
            \/ s \in ttStops
            \/ \E d \in TtCalls : ttAdds[d] = [pc |-> "insert", session |-> s]
        BY <4>1 DEF TtReachable
      <4>3. \A d \in TtCalls : ttAdds[d].pc = "insert" => ttAdds'[d] = ttAdds[d]
        BY <2>2
      <4> QED BY <4>2, <4>3, <2>2
    <3> QED BY <3>1, <3>2
  <2> QED BY <2>3, <2>4, Zenon
<1>2. ASSUME NEW c \in TtCalls, insert_session(c) PROVE TtInv'
  <2>1. /\ ttAdds[c].pc = "insert"
        /\ ttTasks' = dropped(ttTable)
        /\ ttTable' = ttAdds[c].session
        /\ ttAdds' = [ttAdds EXCEPT ![c].pc = "report"]
        /\ ttStops' = ttStops
    BY <1>2 DEF insert_session
  <2>2. /\ ttTasks' \in Seq({"running", "over"})
        /\ Len(ttTasks') = Len(ttTasks)
        /\ \A i \in 1 .. Len(ttTasks) :
             ttTasks'[i] = IF i = ttTable THEN "over" ELSE ttTasks[i]
    BY <2>1, TtDropped
  <2>3. TtTypeOK'
    BY <2>1, <2>2, Zenon
  <2>4. TtReachable'
    <3> SUFFICES ASSUME NEW s \in 1 .. Len(ttTasks), ttTasks'[s] = "running", s # ttTable'
                 PROVE  \/ s \in ttStops
                        \/ \E d \in TtCalls : ttAdds'[d] = [pc |-> "insert", session |-> s]
      BY <2>1, <2>2, Zenon DEF TtReachable
    <3>1. s # ttTable /\ ttTasks[s] = "running"
      BY <2>2
    <3>2. CASE \E d \in TtCalls : ttAdds[d] = [pc |-> "insert", session |-> s]
      <4>1. PICK d \in TtCalls : ttAdds[d] = [pc |-> "insert", session |-> s]
        BY <3>2
      <4>2. d # c
        BY <4>1, <2>1
      <4> QED BY <4>1, <4>2, <2>1
    <3> QED BY <3>1, <3>2 DEF TtReachable
  <2> QED BY <2>3, <2>4
<1>3. ASSUME NEW c \in TtCalls, report_session(c) PROVE TtInv'
  <2>1. TtTypeOK'
    BY <1>3 DEF report_session, IdleAdd
  <2>2. \A d \in TtCalls : ttAdds[d].pc = "insert" => ttAdds'[d] = ttAdds[d]
    BY <1>3 DEF report_session
  <2>3. /\ ttAdds[c].pc = "report"
        /\ ttTable' = ttTable /\ ttTasks' = ttTasks /\ ttStops' = ttStops
    BY <1>3, Zenon DEF report_session
  <2>4. TtReachable'
    <3> SUFFICES ASSUME NEW s \in 1 .. Len(ttTasks), ttTasks[s] = "running",
                        s # ttTable, s \notin ttStops
                 PROVE  \E d \in TtCalls : ttAdds'[d] = [pc |-> "insert", session |-> s]
      BY <2>3, Zenon DEF TtReachable
    <3>1. PICK d \in TtCalls : ttAdds[d] = [pc |-> "insert", session |-> s]
      BY Zenon DEF TtReachable
    <3>2. ttAdds'[d] = ttAdds[d]
      BY <3>1, <2>2
    <3> QED BY <3>1, <3>2
  <2> QED BY <2>1, <2>4
<1>4. CASE del_transcode
  BY <1>4 DEF del_transcode, TtReachable
<1>5. ASSUME NEW s \in 1 .. MaxSessions, stop_session(s) PROVE TtInv'
  <2>1. /\ s \in ttStops /\ s \in 0 .. Len(ttTasks)
        /\ ttStops' = ttStops \ {s}
        /\ ttTasks' = dropped(s)
        /\ ttTable' = ttTable /\ ttAdds' = ttAdds
    BY <1>5 DEF stop_session
  <2>2. /\ ttTasks' \in Seq({"running", "over"})
        /\ Len(ttTasks') = Len(ttTasks)
        /\ \A i \in 1 .. Len(ttTasks) : ttTasks'[i] = IF i = s THEN "over" ELSE ttTasks[i]
    BY <2>1, TtDropped, Zenon
  <2> QED BY <2>1, <2>2 DEF TtReachable
<1>6. ASSUME NEW s \in 1 .. MaxSessions, task_ends(s) PROVE TtInv'
  BY <1>6 DEF task_ends, TtReachable
<1>7. CASE UNCHANGED ttVars
  BY <1>7 DEF ttVars, TtReachable
<1> QED BY <1>1, <1>2, <1>3, <1>4, <1>5, <1>6, <1>7 DEF TtNext

\* A task that transcodes can be stopped, for any number of concurrent
\* additions and deletions (TranscodeManager::add_transcode, del_transcode).
THEOREM TtReachableTheorem == TtSpec => []TtReachable
<1>1. TtInit => TtInv
  BY DEF TtInit, TtInv, TtTypeOK, TtReachable, IdleAdd
<1>2. TtInv => TtReachable
  BY DEF TtInv
<1> QED BY <1>1, <1>2, TtStep, PTL DEF TtSpec

=============================================================================
