--------------------------- MODULE SegmentCaches ---------------------------
(***************************************************************************)
(* The segment caches of the HTTP server for one stream: HLS_SEGMENTS,     *)
(* CMAF_SEGMENTS with CMAF_INIT_CACHE, and DASH_SEGMENTS.  The first       *)
(* request of a viewer starts the task that fills the cache from the       *)
(* source of the moment; the task takes its entry out again when that      *)
(* source is closed.  A source closed and published again is a new one     *)
(* under the same key.                                                     *)
(*                                                                         *)
(* A frame is a configuration (flagged as key frame, as RTMP delivers it), *)
(* a key frame or another one, and its time is its number.  The maps are   *)
(* DashMaps: a viewer keeps the entry locked until it has its answer, and  *)
(* the lock of the segments while it writes one to its client.             *)
(***************************************************************************)
EXTENDS Integers, Sequences, FiniteSets, Functions

CONSTANTS SegKinds,   \* the caches looked at, a subset of {"hls", "cmaf", "dash"}
          Viewers,    \* HTTP sessions
          Scripts,    \* the frames of the sources published one after the other
          MaxRequests,\* bound: requests of a viewer
          MaxTasks,   \* bound: tasks started
          SegWindow,  \* segments kept (10)
          Target,     \* target duration of a TS segment (4 s)
          AskedFor    \* numbers of segments that viewers ask for

ASSUME SegScripts == Scripts \subseteq Seq(Seq({"cfg", "key", "other"}))

VARIABLES
  segKind,    \* the cache looked at
  gen,        \* sources published so far; the last one may be registered
  registered, \* the last one is in the manager
  script,     \* the frames each source is going to publish
  log,        \* frames published by each source
  segEntry,   \* HLS_SEGMENTS etc.: the task whose segments the map holds, or 0
  initEntry,  \* CMAF_INIT_CACHE: the task whose cell the map holds, or 0
  segTask,    \* the tasks, in the order they were started
  viewer      \* the requests in progress

segVars == <<segKind, gen, registered, script, log, segEntry, initEntry, segTask, viewer>>

Request(pc, g, n) == [pc |-> pc, gen |-> g, task |-> 0, seq |-> 0, list |-> << >>, n |-> n]

SegInit ==
  /\ segKind \in SegKinds
  /\ gen = 0 /\ registered = FALSE
  /\ script \in Scripts
  /\ log = [g \in DOMAIN script |-> << >>]
  /\ segEntry = 0 /\ initEntry = 0
  /\ segTask = << >>
  /\ viewer = [v \in Viewers |-> Request("idle", 0, 0)]

----------------------------------------------------------------------------
\* The sources

seg_publish ==
  /\ ~ registered /\ gen < Len(script)
  /\ gen' = gen + 1 /\ registered' = TRUE
  /\ UNCHANGED <<segKind, script, log, segEntry, initEntry, segTask, viewer>>

seg_frame ==
  /\ registered
  /\ Len(log[gen]) < Len(script[gen])
  /\ log' = [log EXCEPT ![gen] = Append(@, script[gen][Len(@) + 1])]
  /\ UNCHANGED <<segKind, gen, registered, script, segEntry, initEntry, segTask, viewer>>

seg_close ==
  /\ registered
  /\ registered' = FALSE
  /\ UNCHANGED <<segKind, gen, script, log, segEntry, initEntry, segTask, viewer>>

SourceClosed(g) == g < gen \/ ~ registered

Latest(is) == CHOOSE i \in is : \A j \in is : j <= i

\* The last configuration among the first n frames, and the cached GOP.
LastConfig(g, n) ==
  LET c == {i \in 1 .. n : log[g][i] = "cfg"} IN
  IF c = {} THEN << >> ELSE <<Latest(c)>>

CachedGop(g) ==
  LET keys == {i \in DOMAIN log[g] : log[g][i] = "key"}
      from == Latest(keys)
  IN IF keys = {} THEN << >>
     ELSE SelectSeq([i \in 1 .. Len(log[g]) - from + 1 |-> from + i - 1],
                    LAMBDA i : log[g][i] # "cfg")

----------------------------------------------------------------------------
\* The locks

\* Viewers with a guard on the entry, with the segments' read lock, and with a guard
\* on the init segment's entry.
Guarding == {v \in Viewers : viewer[v].pc \in {"count", "list", "respond", "write"}}
Writing == {v \in Viewers : viewer[v].pc = "write"
                            \/ (viewer[v].pc = "respond" /\ segKind = "cmaf")}
ReadingInit == {v \in Viewers : viewer[v].pc = "write_init"}

----------------------------------------------------------------------------
\* The requests.  A viewer looks the source up first and uses what it found later.

\* get_or_pull or get finds the registered source, for a playlist, a segment or, in
\* CMAF, the init segment.
view_lookup(v) ==
  /\ viewer[v].pc = "idle" /\ registered /\ viewer[v].n < MaxRequests
  /\ \E pc \in {"ensure", "segment"} \cup {x \in {"init"} : segKind = "cmaf"} :
       viewer' = [viewer EXCEPT ![v] = Request(pc, gen, viewer[v].n + 1)]
  /\ UNCHANGED <<segKind, gen, registered, script, log, segEntry, initEntry, segTask>>

NewSegTask(g) ==
  [gen |-> g, pc |-> "begin", pos |-> 0, got |-> << >>, frames |-> << >>, cfg |-> << >>,
   index |-> 0, segs |-> << >>, init |-> FALSE, made |-> << >>]

\* entry(key).or_insert_with: the task in the map, or a new one of the source found.
\* For CMAF the init segment's entry is written as well, when nobody reads it.
or_insert(v, pc) ==
  /\ viewer[v].pc = "ensure"
  /\ Guarding = {}
  /\ LET new == segEntry = 0
         t   == IF new THEN Len(segTask) + 1 ELSE segEntry
     IN /\ new => Len(segTask) < MaxTasks
        /\ new /\ segKind = "cmaf" => ReadingInit = {}
        /\ segTask' = IF new THEN Append(segTask, NewSegTask(viewer[v].gen)) ELSE segTask
        /\ segEntry' = t
        /\ initEntry' = IF new /\ segKind = "cmaf" THEN t ELSE initEntry
        /\ viewer' = [viewer EXCEPT ![v].task = t, ![v].pc = pc]
  /\ UNCHANGED <<segKind, gen, registered, script, log>>

handle_hls_playlist(v) == segKind = "hls" /\ or_insert(v, "count")
handle_cmaf_playlist(v) == segKind = "cmaf" /\ or_insert(v, "list")

\* The init segment of CMAF is written to the client under a guard, if it is there.
\* (If not, the request goes on as one for DASH, in another map.)
handle_cmaf_init(v) ==
  /\ viewer[v].pc = "init"
  /\ viewer' = [viewer EXCEPT ![v] =
                  IF initEntry # 0 /\ segTask[initEntry].init
                  THEN Request("write_init", 0, viewer[v].n) ELSE Request("idle", 0, viewer[v].n)]
  /\ UNCHANGED <<segKind, gen, registered, script, log, segEntry, initEntry, segTask>>

\* The init segment of DASH is made from the cached configuration, not by the task.
handle_dash_init(v) == segKind = "dash" /\ or_insert(v, "respond")

Indices(segs) == [i \in DOMAIN segs |-> segs[i].index]

\* handle_hls_playlist reads the media sequence number under one read lock ...
playlist_count(v) ==
  /\ viewer[v].pc = "count"
  /\ LET segs == segTask[viewer[v].task].segs IN
     viewer' = [viewer EXCEPT ![v].pc = IF segs = << >> THEN "respond" ELSE "list",
                              ![v].seq = IF segs = << >> THEN 0 ELSE segs[1].index]
  /\ UNCHANGED <<segKind, gen, registered, script, log, segEntry, initEntry, segTask>>

\* ... and the segments under another.
playlist_list(v) ==
  /\ viewer[v].pc = "list" /\ segKind = "hls"
  /\ viewer' = [viewer EXCEPT ![v].pc = "respond",
                              ![v].list = Indices(segTask[viewer[v].task].segs)]
  /\ UNCHANGED <<segKind, gen, registered, script, log, segEntry, initEntry, segTask>>

\* build_cmaf_playlist reads both under one, which is held for the answer.
build_cmaf_playlist(v) ==
  /\ viewer[v].pc = "list" /\ segKind = "cmaf"
  /\ LET list == Indices(segTask[viewer[v].task].segs) IN
     viewer' = [viewer EXCEPT ![v].pc = "respond", ![v].list = list,
                              ![v].seq = IF list = << >> THEN 0 ELSE list[1]]
  /\ UNCHANGED <<segKind, gen, registered, script, log, segEntry, initEntry, segTask>>

\* A segment among those in choice is written to the client, or 404 if there is none.
serve(v, choice) ==
  /\ viewer[v].pc = "segment"
  /\ \A w \in Guarding : viewer[w].pc = "write"
  /\ \/ \E i \in choice :
          viewer' = [viewer EXCEPT ![v].pc = "write", ![v].task = segEntry, ![v].list = <<i>>]
     \/ choice = {} /\ viewer' = [viewer EXCEPT ![v] = Request("idle", 0, viewer[v].n)]
  /\ UNCHANGED <<segKind, gen, registered, script, log, segEntry, initEntry, segTask>>

Cached == IF segEntry = 0 THEN << >> ELSE Indices(segTask[segEntry].segs)

\* The segment asked for, if it is in the cache.
handle_hls_segment(v) ==
  segKind = "hls" /\ \E i \in AskedFor : serve(v, {i} \cap Range(Cached))
handle_cmaf_segment(v) ==
  segKind = "cmaf" /\ \E i \in AskedFor : serve(v, {i} \cap Range(Cached))

\* The last one, whatever is asked for.
handle_dash_segment(v) ==
  segKind = "dash" /\ serve(v, IF Cached = << >> THEN {} ELSE {Cached[Len(Cached)]})

\* The answer is written, the guards are dropped.
respond(v) ==
  /\ viewer[v].pc \in {"respond", "write", "write_init"}
  /\ viewer' = [viewer EXCEPT ![v] = Request("idle", 0, viewer[v].n)]
  /\ UNCHANGED <<segKind, gen, registered, script, log, segEntry, initEntry, segTask>>

----------------------------------------------------------------------------
\* The tasks

SegStep(t, rec) ==
  /\ segTask' = [segTask EXCEPT ![t] = rec]
  /\ UNCHANGED <<segKind, gen, registered, script, log, segEntry, initEntry, viewer>>

\* start_hls_task replays the configuration and subscribes afterwards.
start_hls_task(t) ==
  /\ segTask[t].pc = "begin" /\ segKind = "hls"
  /\ LET s == segTask[t]
         c == LastConfig(s.gen, Len(log[s.gen]))
     IN SegStep(t, [s EXCEPT !.pc = "replayed", !.frames = c, !.got = c])

hls_subscribe(t) ==
  /\ segTask[t].pc = "replayed"
  /\ LET s == segTask[t] IN
     SegStep(t, [s EXCEPT !.pc = "loop", !.pos = Len(log[s.gen])])

\* The others subscribe first.
fmp4_subscribe(t) ==
  /\ segTask[t].pc = "begin" /\ segKind # "hls"
  /\ LET s == segTask[t] IN
     SegStep(t, [s EXCEPT !.pc = "subscribed", !.pos = Len(log[s.gen])])

WithConfig(s) == [s EXCEPT !.pc = "gop", !.cfg = LastConfig(s.gen, Len(log[s.gen]))]
WithGop(s) == [s EXCEPT !.pc = "loop", !.frames = CachedGop(s.gen), !.got = CachedGop(s.gen)]

\* A segment goes to the end of the queue; the first ones leave when it is too long.
\* (made keeps all of them, with the number of frames received by then.)
PushSeg(s, keep) ==
  LET seg  == [index |-> s.index, cfg |-> s.cfg, frames |-> s.frames, upto |-> Len(s.got)]
      segs == Append(s.segs, seg)
  IN [s EXCEPT !.segs = IF Len(segs) > keep THEN Tail(segs) ELSE segs,
               !.made = Append(@, seg), !.index = @ + 1, !.frames = << >>]

\* The replayed configuration of CMAF becomes the init segment, stored once.
cmaf_config(t) ==
  /\ segTask[t].pc = "subscribed" /\ segKind = "cmaf"
  /\ SegStep(t, [WithConfig(segTask[t]) EXCEPT !.init = TRUE])

cmaf_gop(t) ==
  /\ segTask[t].pc = "gop" /\ segKind = "cmaf"
  /\ SegStep(t, WithGop(segTask[t]))

\* The replayed GOP of DASH is its first segment.
dash_config(t) ==
  /\ segTask[t].pc = "subscribed" /\ segKind = "dash"
  /\ SegStep(t, WithConfig(segTask[t]))

dash_gop(t) ==
  /\ segTask[t].pc = "gop" /\ segKind = "dash" /\ Writing = {}
  /\ LET s == WithGop(segTask[t]) IN
     SegStep(t, IF s.frames = << >> THEN s ELSE PushSeg(s, SegWindow))

\* mux_segment looks for configurations among the frames of the segment first.
MuxConfig(s) ==
  LET c == {k \in DOMAIN s.frames : log[s.gen][s.frames[k]] = "cfg"} IN
  [s EXCEPT !.cfg = IF c = {} THEN @ ELSE <<s.frames[Latest(c)]>>]

\* Mutant: the frame at which a segment was cut is in neither segment.
hls_push_frame_lost(s, i) ==
  IF /\ s.frames # << >> /\ log[s.gen][i] # "other" /\ i - s.frames[1] >= Target
  THEN PushSeg(MuxConfig(s), SegWindow)
  ELSE [s EXCEPT !.frames = Append(@, i)]

\* HlsMuxer::push_frame: a key frame ends a segment that is long enough.
hls_push_frame(s, i) ==
  LET cut == /\ s.frames # << >> /\ log[s.gen][i] # "other" /\ i - s.frames[1] >= Target
      r   == IF cut THEN PushSeg(MuxConfig(s), SegWindow) ELSE s
  IN [r EXCEPT !.frames = Append(@, i)]

\* The loop receives the next frame, or finds that it was overrun.
hls_recv(t) ==
  /\ segTask[t].pc = "loop" /\ segKind = "hls" /\ Writing = {}
  /\ LET s == segTask[t]
         i == s.pos + 1
     IN /\ i <= Len(log[s.gen])
        /\ SegStep(t, [hls_push_frame(s, i) EXCEPT !.pos = i, !.got = Append(@, i)])

\* A configuration is not forwarded to a muxer of fMP4.
fmp4_recv(t) ==
  /\ segTask[t].pc = "loop" /\ segKind # "hls"
  /\ LET s == segTask[t]
         i == s.pos + 1
     IN /\ i <= Len(log[s.gen])
        /\ SegStep(t, IF log[s.gen][i] = "cfg" THEN [s EXCEPT !.pos = i]
                      ELSE [s EXCEPT !.pos = i, !.frames = Append(@, i), !.got = Append(@, i)])

seg_lagged(t) ==
  /\ segTask[t].pc = "loop"
  /\ LET s == segTask[t] IN
     s.pos + 1 < Len(log[s.gen]) /\ SegStep(t, [s EXCEPT !.pos = @ + 1])

\* The flush interval of CMAF or DASH is over.
cmaf_flush(t) ==
  /\ segTask[t].pc = "loop" /\ segKind = "cmaf" /\ Writing = {} /\ segTask[t].frames # << >>
  /\ SegStep(t, PushSeg(segTask[t], SegWindow))

dash_flush(t) ==
  /\ segTask[t].pc = "loop" /\ segKind = "dash" /\ Writing = {} /\ segTask[t].frames # << >>
  /\ SegStep(t, PushSeg(segTask[t], SegWindow))

\* The channel is closed and empty: HLS flushes what it has, without trimming.
Drained(t) == /\ segTask[t].pc = "loop" /\ SourceClosed(segTask[t].gen)
              /\ segTask[t].pos = Len(log[segTask[t].gen])

hls_closed(t) ==
  /\ Drained(t) /\ segKind = "hls" /\ Writing = {}
  /\ LET s == [segTask[t] EXCEPT !.pc = "stop"] IN
     SegStep(t, IF s.frames = << >> THEN s ELSE PushSeg(MuxConfig(s), SegWindow + 1))

fmp4_closed(t) ==
  Drained(t) /\ segKind # "hls" /\ SegStep(t, [segTask[t] EXCEPT !.pc = "stop"])

\* Mutant: the callback of HLS leaves the entry.
on_stop_kept(t) ==
  /\ segTask[t].pc = "stop"
  /\ segEntry' = IF segKind = "hls" THEN segEntry ELSE 0
  /\ segTask' = [segTask EXCEPT ![t].pc = IF segKind = "cmaf" THEN "stop_init" ELSE "ended"]
  /\ UNCHANGED <<segKind, gen, registered, script, log, initEntry, viewer>>

\* on_stop removes the key, once nobody holds a guard; CMAF has a second map.
on_stop(t) ==
  /\ segTask[t].pc = "stop" /\ Guarding = {}
  /\ segEntry' = 0
  /\ segTask' = [segTask EXCEPT ![t].pc = IF segKind = "cmaf" THEN "stop_init" ELSE "ended"]
  /\ UNCHANGED <<segKind, gen, registered, script, log, initEntry, viewer>>

on_stop_init(t) ==
  /\ segTask[t].pc = "stop_init" /\ ReadingInit = {}
  /\ initEntry' = 0
  /\ segTask' = [segTask EXCEPT ![t].pc = "ended"]
  /\ UNCHANGED <<segKind, gen, registered, script, log, segEntry, viewer>>

ViewStep(v) ==
  \/ handle_hls_playlist(v) \/ handle_cmaf_playlist(v) \/ handle_cmaf_init(v)
  \/ handle_dash_init(v)
  \/ playlist_count(v) \/ playlist_list(v) \/ build_cmaf_playlist(v)
  \/ handle_hls_segment(v) \/ handle_cmaf_segment(v) \/ handle_dash_segment(v)
  \/ respond(v)

SegTaskStep(t) ==
  \/ start_hls_task(t) \/ hls_subscribe(t) \/ hls_recv(t) \/ hls_closed(t)
  \/ fmp4_subscribe(t) \/ cmaf_config(t) \/ cmaf_gop(t) \/ dash_config(t) \/ dash_gop(t)
  \/ fmp4_recv(t) \/ fmp4_closed(t)
  \/ on_stop(t) \/ on_stop_init(t)

SegNext ==
  \/ seg_publish \/ seg_frame \/ seg_close
  \/ \E v \in Viewers : view_lookup(v) \/ ViewStep(v)
  \/ \E t \in DOMAIN segTask : SegTaskStep(t) \/ seg_lagged(t) \/ cmaf_flush(t) \/ dash_flush(t)

\* A task is scheduled by tokio, and gets a lock that is free again and again.  The
\* viewers are not fair: a client may never read its answer, which has no timeout.
SegFairness ==
  \A t \in 1 .. MaxTasks : SF_segVars(t \in DOMAIN segTask /\ SegTaskStep(t))

----------------------------------------------------------------------------
\* The stream has at most one running task, and it is the one the map names: a
\* task is neither started twice for concurrent viewers nor left running where no
\* viewer can reach it.
TaskReachable ==
  \A t \in DOMAIN segTask : segTask[t].pc \notin {"stop_init", "ended"} => segEntry = t

\* The frames that the first k segments of a task were cut from.
Cut(s, k) == IF k = 0 THEN 0 ELSE s.made[k].upto

\* Every frame the HLS muxer was given is in exactly one segment or still to be
\* written, in order; a segment after the first begins where a decoder can, and
\* carries the last configuration the muxer has seen by then.
SegmentsExact ==
  \A t \in DOMAIN segTask :
    LET s == segTask[t] IN
    segKind = "hls" =>
      /\ s.frames = SubSeq(s.got, Cut(s, Len(s.made)) + 1, Len(s.got))
      /\ \A k \in DOMAIN s.made :
           s.made[k].frames = SubSeq(s.got, Cut(s, k - 1) + 1, Cut(s, k))
      /\ \A k \in 2 .. Len(s.made) : log[s.gen][s.made[k].frames[1]] # "other"
      /\ \A k \in DOMAIN s.made :
           LET cfgs == {i \in 1 .. Cut(s, k) : log[s.gen][s.got[i]] = "cfg"} IN
           IF cfgs = {} THEN s.made[k].cfg = << >>
           ELSE \E i \in cfgs : s.made[k].cfg = <<s.got[i]>> /\ \A j \in cfgs : s.got[j] <= s.got[i]

\* A playlist lists consecutive segments, and its media sequence number is never
\* that of a later one than the first listed.  (The two are read under two locks:
\* the number may be an earlier one.)
PlaylistOrdered ==
  \A v \in Viewers :
    LET l == viewer[v].list IN
    viewer[v].pc = "respond" /\ l # << >> =>
      /\ viewer[v].seq <= l[1]
      /\ segKind = "cmaf" => viewer[v].seq = l[1]
      /\ \A i \in 1 .. Len(l) - 1 : l[i + 1] = l[i] + 1

\* What viewers are served comes from the one task of the stream, is complete and
\* in order.
CacheConsistent == TaskReachable /\ SegmentsExact /\ PlaylistOrdered

\* When a source is closed, the cache filled from it gives up its entry, so that
\* viewers of the next source under the same name are served from that one, provided
\* that the entry's lock is free again and again.  (A client that does not read holds
\* the lock for ever, and workers that block on it may leave nobody to run the others.)
CacheFollowsSource ==
  []<>(Guarding = {}) =>
    \A t \in 1 .. MaxTasks :
      (t \in DOMAIN segTask /\ SourceClosed(segTask[t].gen)) ~> (segEntry # t)

\* "stores them (plus the init segment) in the provided caches": what the playlist
\* names as init segment can be fetched as long as the task runs.
CmafInitReachable ==
  \A t \in DOMAIN segTask : segTask[t].init /\ segTask[t].pc = "loop" => initEntry = t
=============================================================================
