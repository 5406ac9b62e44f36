---------------------------- MODULE MediaSource ----------------------------
(***************************************************************************)
(* One live source (core/src/media_source.rs): publishers cache a frame    *)
(* and then send it on a bounded broadcast channel; consumers replay the   *)
(* cache and read the channel.  The two steps of publish_and_cache, and    *)
(* the startup steps of a consumer, are separate actions: each takes its   *)
(* own lock and other tasks run in between.                                *)
(*                                                                         *)
(* A consumer is described by its profile (module Consumers):              *)
(*   startup      the order in which it subscribes and reads the cache     *)
(*   on_lag       what it does when the channel overran it                 *)
(*   live_config  whether it forwards configuration frames it receives     *)
(*                                                                         *)
(* Byte counters, track descriptors and the subscriber set are left out:   *)
(* delivery does not depend on them.                                       *)
(***************************************************************************)
EXTENDS GopCache, FiniteSets

CONSTANTS Publishers,   \* tasks that call publish_and_cache, one per track
          Emits,          \* the kinds of frame each of them publishes
          Readers,        \* consumers of the source
          Profile,        \* how each consumer starts and what it skips
          ChannelCap,     \* capacity of the broadcast channel (256)
          MaxFrames       \* bound: frames published in a behaviour

StartupSteps == {"subscribe", "config", "gop", "media"}
Profiles == [startup : Seq(StartupSteps), on_lag : {"continue", "end"},
             live_config : BOOLEAN]

ASSUME EmitsAssumption == Emits \in [Publishers -> SUBSET Kinds]
ASSUME ProfileAssumption == DOMAIN Profile = Readers /\ \A r \in Readers : Profile[r] \in Profiles
ASSUME BoundsAssumption == ChannelCap \in Nat \ {0} /\ MaxFrames \in Nat

VARIABLES cache,      \* gop_cache
          open,       \* frame_tx is Some
          inHand,     \* inHand[p]: the frame p cached and has not sent yet
          cached,     \* history: every frame cached, in order
          sent,       \* history: every frame sent; the channel is its tail
          step,       \* step[r]: next startup step of r; past the last: live
          sub,        \* sub[r]: Len(sent) when r subscribed
          next,       \* next[r]: place in sent of the frame r reads next
          got,        \* got[r]: frames r replayed and received, in order
          snap,       \* snap[r]: Len(cached) when r read the cached GOP
          lagged,     \* lagged[r]: r was told that it lost frames
          ended       \* ended[r]: r left its loop

vars == <<cache, open, inHand, cached, sent, step, sub, next, got, snap,
          lagged, ended>>
sourceVars == <<cache, open, inHand, cached, sent>>
readerVars == <<step, sub, next, got, snap, lagged, ended>>

Frame == [id : 1 .. MaxFrames, kind : Kinds, track : Publishers]
Cache == [metadata : Seq(Frame), video_config : Seq(Frame),
          audio_config : Seq(Frame), frames : Seq(Frame)]

Plan(r) == Profile[r].startup
Live(r) == step[r] > Len(Plan(r)) /\ ~ ended[r]
\* The messages of the channel that r has not taken yet.
Backlog(r) == Len(sent) - next[r] + 1

Init ==
  /\ cache = NewCache
  /\ open = TRUE
  /\ inHand = [p \in Publishers |-> << >>]
  /\ cached = << >>
  /\ sent = << >>
  /\ step = [r \in Readers |-> 1]
  /\ sub = [r \in Readers |-> 0]
  /\ next = [r \in Readers |-> 1]
  /\ got = [r \in Readers |-> << >>]
  /\ snap = [r \in Readers |-> 0]
  /\ lagged = [r \in Readers |-> FALSE]
  /\ ended = [r \in Readers |-> FALSE]

----------------------------------------------------------------------------
\* Publishers.

\* publish_and_cache, first half: the frame enters the cache.
PublishCache(p, k) ==
  /\ inHand[p] = << >>
  /\ Len(cached) < MaxFrames
  /\ LET f == [id |-> Len(cached) + 1, kind |-> k, track |-> p]
     IN  /\ cache' = cache_frame(cache, f)
         /\ cached' = Append(cached, f)
         /\ inHand' = [inHand EXCEPT ![p] = <<f>>]
  /\ UNCHANGED <<open, sent, readerVars>>

\* publish_and_cache, second half: the frame is sent unless the source closed.
PublishSend(p) ==
  /\ inHand[p] # << >>
  /\ sent' = IF open THEN sent \o inHand[p] ELSE sent
  /\ inHand' = [inHand EXCEPT ![p] = << >>]
  /\ UNCHANGED <<cache, open, cached, readerVars>>

\* close: the sender is dropped; receivers drain the channel and then end.
close ==
  /\ open
  /\ open' = FALSE
  /\ UNCHANGED <<cache, inHand, cached, sent, readerVars>>

----------------------------------------------------------------------------
\* Consumers.

\* subscribe: a receiver that sees what is sent from now on.  After close it is
\* a receiver whose channel has no sender.
subscribe(r) ==
  /\ sub' = [sub EXCEPT ![r] = Len(sent)]
  /\ next' = [next EXCEPT ![r] = Len(sent) + 1]
  /\ UNCHANGED <<got, snap>>

ReadConfig(r) ==
  /\ got' = [got EXCEPT ![r] = @ \o get_config_frames(cache)]
  /\ UNCHANGED <<sub, next, snap>>

ReadGop(r) ==
  /\ got' = [got EXCEPT ![r] = @ \o get_latest_gop_frames(cache)]
  /\ snap' = [snap EXCEPT ![r] = Len(cached)]
  /\ UNCHANGED <<sub, next>>

\* The cached GOP without its configuration frames.
ReadMedia(r) ==
  /\ got' = [got EXCEPT ![r] = @ \o (cache.metadata \o LatestGop(cache.frames))]
  /\ snap' = [snap EXCEPT ![r] = Len(cached)]
  /\ UNCHANGED <<sub, next>>

StartupStep(r) ==
  /\ ~ ended[r]
  /\ step[r] <= Len(Plan(r))
  /\ CASE Plan(r)[step[r]] = "subscribe" -> subscribe(r)
       [] Plan(r)[step[r]] = "config"    -> ReadConfig(r)
       [] Plan(r)[step[r]] = "gop"       -> ReadGop(r)
       [] Plan(r)[step[r]] = "media"     -> ReadMedia(r)
  /\ step' = [step EXCEPT ![r] = @ + 1]
  /\ UNCHANGED <<sourceVars, lagged, ended>>

\* recv() = Ok(frame)
RecvFrame(r) ==
  /\ Live(r)
  /\ Backlog(r) \in 1 .. ChannelCap
  /\ got' = IF IsConfig(sent[next[r]]) /\ ~ Profile[r].live_config
            THEN got
            ELSE [got EXCEPT ![r] = Append(@, sent[next[r]])]
  /\ next' = [next EXCEPT ![r] = @ + 1]
  /\ UNCHANGED <<sourceVars, step, sub, snap, lagged, ended>>

\* recv() = Err(Lagged): the receiver moves to the oldest frame still held.
RecvLagged(r) ==
  /\ Live(r)
  /\ Backlog(r) > ChannelCap
  /\ next' = [next EXCEPT ![r] = Len(sent) - ChannelCap + 1]
  /\ lagged' = [lagged EXCEPT ![r] = TRUE]
  /\ ended' = [ended EXCEPT ![r] = Profile[r].on_lag = "end"]
  /\ UNCHANGED <<sourceVars, step, sub, got, snap>>

\* Mutant: Err(Closed) is handled like Err(Lagged), by going round the loop.
RecvClosed_continues(r) == Live(r) /\ ~ open /\ Backlog(r) = 0 /\ UNCHANGED vars

\* recv() = Err(Closed)
RecvClosed(r) ==
  /\ Live(r)
  /\ ~ open
  /\ Backlog(r) = 0
  /\ ended' = [ended EXCEPT ![r] = TRUE]
  /\ UNCHANGED <<sourceVars, step, sub, next, got, snap, lagged>>

\* The consumer goes away by itself: its peer left, a write failed.
Leave(r) ==
  /\ ~ ended[r]
  /\ ended' = [ended EXCEPT ![r] = TRUE]
  /\ UNCHANGED <<sourceVars, step, sub, next, got, snap, lagged>>

----------------------------------------------------------------------------
Publish == \E p \in Publishers : PublishSend(p) \/ \E k \in Emits[p] : PublishCache(p, k)
Receive(r) == RecvFrame(r) \/ RecvLagged(r) \/ RecvClosed(r)
Consume == \E r \in Readers : StartupStep(r) \/ Receive(r) \/ Leave(r)

Next == Publish \/ close \/ Consume

Spec == Init /\ [][Next]_vars

\* A consumer's task is scheduled until it leaves its loop, and a publisher that
\* cached a frame goes on to send it.  Nobody is obliged to publish or to close.
Fairness ==
  /\ \A r \in Readers : WF_vars(StartupStep(r) \/ Receive(r))
  /\ \A p \in Publishers : WF_vars(PublishSend(p))

FairSpec == Spec /\ Fairness

----------------------------------------------------------------------------
\* Properties.

\* The type invariant.
TypeOK ==
  /\ cache \in Cache
  /\ open \in BOOLEAN
  /\ inHand \in [Publishers -> Seq(Frame)]
  /\ cached \in Seq(Frame)
  /\ sent \in Seq(Frame)
  /\ step \in [Readers -> Nat \ {0}]
  /\ sub \in [Readers -> Nat]
  /\ next \in [Readers -> Nat \ {0}]
  /\ got \in [Readers -> Seq(Frame)]
  /\ snap \in [Readers -> Nat]
  /\ lagged \in [Readers -> BOOLEAN]
  /\ ended \in [Readers -> BOOLEAN]

\* Among the first n frames cached, f is media of the last group of pictures:
\* some key frame comes at or before it and none after it.
InLastGop(f, n) ==
  /\ IsGop(f)
  /\ f.id <= n
  /\ \E k \in 1 .. f.id : IsKey(cached[k])
  /\ \A k \in f.id + 1 .. n : ~ IsKey(cached[k])

\* What a late joiner is given is exactly the media cached since the last key
\* frame, whatever the eviction in cache_frame dropped: nothing of the current
\* group of pictures is missing, nothing of an older one is left.
GopIsExact ==
  Range(LatestGop(cache.frames)) = {f \in Range(cached) : InLastGop(f, Len(cached))}

\* Once r is live, it has every media frame taken from the channel so far that
\* belongs to the GOP it replayed or was cached after it read the cache.
NoGapFor(r) ==
  step[r] > Len(Plan(r)) /\ ~ lagged[r] =>
    \A i \in 1 .. next[r] - 1 :
      IsGop(sent[i]) /\ (sent[i].id > snap[r] \/ InLastGop(sent[i], snap[r]))
        => sent[i] \in Range(got[r])

SubscribesFirst(r) ==
  /\ Len(Plan(r)) > 0 /\ Plan(r)[1] = "subscribe"
  /\ \A i \in 2 .. Len(Plan(r)) : Plan(r)[i] # "subscribe"
  /\ \E i \in 2 .. Len(Plan(r)) : Plan(r)[i] \in {"gop", "media"}

\* A consumer that subscribes before it reads the cached GOP, and that the
\* channel did not overrun, misses no media frame from the first frame of its
\* replay on ("Subscribe first so we never miss a frame published after this
\* point", flv/src/recorder.rs:43), whatever runs between the two steps of
\* publish_and_cache.
NoGap == \A r \in Readers : SubscribesFirst(r) => NoGapFor(r)

\* "Replay the latest cached GOP before subscribing so frames published between
\* task creation and receiver registration are not lost"
\* (mp4/src/recorder.rs:51): the same of a consumer that subscribes last.
ReplayLosesNothing == \A r \in Readers : NoGapFor(r)

ConfigFirstFor(r) ==
  ~ lagged[r] =>
    \A v \in DOMAIN got[r] : got[r][v].kind \in {"key", "video"} =>
      \A c \in 1 .. got[r][v].id - 1 :
        cached[c].kind = "video_config" /\ cached[c].track = got[r][v].track =>
          \E u \in 1 .. v - 1 : got[r][u].kind = "video_config" /\ got[r][u].id >= c

ForwardsConfig(r) ==
  /\ SubscribesFirst(r) /\ Profile[r].live_config
  /\ \A i \in 1 .. Len(Plan(r)) : Plan(r)[i] # "media"

\* No video frame reaches a consumer that subscribes first and forwards the
\* configuration frames of the replay and of the channel (FlvRecorder, the SDK, the
\* SRT and WHIP pushers, the RTP sender; overrun ones aside) before a decoder
\* configuration at least as new as the one in force when it was published.
ConfigFirst == \A r \in Readers : ForwardsConfig(r) => ConfigFirstFor(r)

\* Closing a source ends every consumer of it, those included that were still
\* starting, that subscribed after the close or that the channel overran.
CloseEndsReaders == \A r \in Readers : ~ open ~> ended[r]
=============================================================================
