# A TLA+ model of the media server

This directory models the server in TLA+: how frames get from a publisher to its
consumers; how pull tasks, pushers, recorders, relays, FFmpeg sources, transcoders,
RTP senders and receivers, WebRTC sessions, GB28181 dialogs and segment caches are
started, listed and ended; and what the muxers, packetizers and demuxers make of the
media on its way. TLC checks the modules on small instances; TLAPS proves the main
safety properties of the control tables, of the way from publisher to consumer, of the
segment caches and of two media paths for every instance. `PROJECT.json` maps each
definition to the lines it models and lists runs, hazards, findings and theorems.

## The system

The server is a tokio program of twelve crates. Everything meets in
`core/src/media_source.rs`: a registry (`MediaSourceManager`, a `DashMap`) of
sources, each with a GOP cache, a broadcast channel of 256 frames and a set of
subscribers. Publishers (RTMP, RTSP, SRT, WHIP, GB28181, pull clients, the SDK)
write into a source; players, recorders, pushers and muxers read from it. Control
tables (proxies, pushers, FFmpeg sources, recordings) sit between the HTTP API and
supervisor tasks in `server/src/main.rs`, which react to commands on unbounded
queues and to events on a lossy event bus.

| Part | State | Operations | What makes it hard |
|---|---|---|---|
| GOP cache | configuration frames, queue | `cache_frame`, two reads | eviction by count, at key frames only |
| Media source | cache, channel, subscribers | publish, subscribe, close, register | cache and send are two steps; receivers lag; close while a consumer starts |
| Registry | source per key | get_or_create, get, close_stream, get_or_pull | close by key; single-flight lock across waits |
| Stream proxies | table entry, queue, stop flag | add, remove, list, spawn, end | old task ends after a new one took the key; notification without a permit |
| No-reader supervisor | delayed stops | StreamPlay, NoReader, delayed stop | abort acts at awaits only; test and act are apart; events reordered or lost |
| Pushers | table, pending map | add, remove, publish event | as proxies, with an unconditional final remove |
| Recorders | stop handles, recording state | publish, unpublish, start, stop | stop without a flag; close without an event |
| FFmpeg sources | table, children | add, remove, reap | the table and the processes drift apart |
| Cluster relay | task per peer | publish, unpublish, retry | tasks that ended by themselves |
| RTP senders | table, task, sequence numbers | start, stop, send | check then insert; stop between test and wait; wrap at 2^16 |
| RTP receivers | port table, reorder buffer | open, connect, close, ingest | a closed port's task is still reading; loss, duplicates, reordering, wrap |
| Transcoder | session table, child's pipes | add, del, feed, recv | both pipes full; a destination left registered |
| WHIP and WHEP | resource table, peers | publish, play, patch, delete | watchers attached late; close by key |
| RTMP and RTSP sessions | command state, source | connect, publish, play, cleanup | cleanup by key |
| GB28181 SIP | devices, dialogs, queries | register, invite, bye, talk, expire | UDP messages late or twice; media opened before the dialog exists |
| SRT | connections | accept, read, write | blocking threads; input in any pieces |
| Segment caches | segments per stream | playlist, segment, cleanup | a cache that outlives its source; entry locks held while answering |
| Hooks | configuration, revision | call, retry, set, flow report | configuration replaced during a call; a sleep on an old interval |
| Containers | muxer tables, demuxer buffers | mux, demux, resync, seek | reads that end anywhere; sizes, offsets and times with a width |
| Pull clients | body, playlist position | fetch, feed, publish | a window that slides on; early close |
| Codecs, configuration, authentication | none | parse, hash | data, not control |

## Modules

Control: how tasks, tables and events interact.

| Module | Models |
|---|---|
| `GopCache` | `core/src/gop_cache.rs` as operators on a cache record |
| `MediaSource` | one source with its publishers and consumers |
| `Consumers` | the 23 consumers of a source, one profile each |
| `TaskTable` | abstract: what a control table promises of one key |
| `StreamProxy` | proxy table, queue, supervisor, pull tasks, registry slot |
| `EdgePull` | `StreamProxy` with players, `get_or_pull` and the no-reader supervisor |
| `Publishing` | publisher sessions of a key (RTMP, RTSP, WHIP, SRT), registry slot, event bus |
| `StreamPusher` | pusher table, supervisor with its pending map, push tasks, over `Publishing` |
| `Recording`, `ClusterRelay` | recorder and relay: control, supervisor, tasks |
| `Supervisors` | `Recording` and `ClusterRelay` on one event bus |
| `FfmpegSources` | FFmpeg source table, queue, supervisor, child processes |
| `TranscodeTable` | concurrent `add_transcode` and `del_transcode` |
| `TranscodePipe` | one transcoding session: channels, tasks, pipes, child |
| `Hooks` | hook calls, `setServerConfig`, the flow report task |
| `SipServer` | GB28181 devices, dialogs, queries, their ports and senders |
| `SegmentCaches` | HLS, CMAF and DASH caches, the tasks that fill them, viewers |
| `RtpSending` | RTP sender table and tasks of one source |
| `RtpPorts` | RTP server table, receiving tasks, port numbers |
| `WebRtcSessions` | WHEP and WHIP resources: POST, PATCH, DELETE, watchers |

Media: what is written, what happens to it on the way, what is read back.

| Module | Writer | On the way | Reader |
|---|---|---|---|
| `RtpPath` | RTP packetizer (`core`) | loss, duplicates, reordering | reorder buffer, depacketizers (`srt/gb28181`) |
| `PsPath` | PS muxer (`core`) or a camera | any pieces, loss | PS demuxer (`codec`), NAL split |
| `TsPath` | TS muxer (`hls`) | any pieces or whole messages (SRT), loss, a torn start, bytes that look like sync | TS demuxer (`srt`) |
| `Mp4Path` | MP4 muxer or a foreign file | a file cut short | demuxer, VOD playback and seek (`mp4`) |
| `FragmentPath` | fMP4 muxer | segments | fragmented demuxer (`mp4`) |
| `FlvPath` | FLV muxer | chunked or plain body, early close | HTTP body, FLV demuxer |
| `RtmpChunks` | chunk encoder or a foreign peer | any pieces | chunk parser (`rtmp`) |
| `HlsPull` | an upstream's sliding playlist | expired segments | HLS pull client (`http`) |

Proofs:

| Module | Proofs about |
|---|---|
| `MediaSourceProofs` | `GopCache`, `MediaSource`: the cache, the consumers without a gap |
| `ConfigFirstProofs` | `MediaSource`: configuration before what needs it |
| `EdgePullProofs` | `StreamProxy`, `EdgePull`, `FfmpegSources` |
| `PublishingProofs` | `Publishing`, `StreamPusher`, `Supervisors`, `Hooks`, `TranscodeTable` |
| `IngestProofs` | `HlsPull`, `RtpPorts`, `TranscodePipe` |
| `SessionsProofs` | `RtpSending`, `WebRtcSessions`, `SipServer` |
| `SegmentCachesProofs` | `SegmentCaches` |
| `PsPathProofs` | `PsPath` |

The modules named `MC...` are instances for TLC. `MCMediaFormats`, `MCSessions` and
`MCServices` put components that share no state side by side: a variable says which
component a behaviour follows, the others stay in one first state. TLC visits the sum
of the state spaces; the product would say nothing more. The components that do share
state are composed for real: `EdgePull` over `StreamProxy`, `StreamPusher` and
`Supervisors` over `Publishing`.

**MediaSource.** A frame is an id (its place in the order of caching), a kind and
the publisher, which stands for the track. `publish_and_cache` is `PublishCache`
then `PublishSend`: the first runs under the cache's lock, the second under the
sender's, and other tasks run in between. `cached` and `sent` are histories; the
channel is the last `ChannelCap` frames of `sent`, so a receiver is one number
and lag is arithmetic. `close` drops the sender; receivers drain what is left. A
consumer walks through its profile's startup steps and then receives.

The profiles differ in three ways that decide what a consumer sees: whether it
subscribes before or after it reads the cache, whether lag ends it, and whether
it forwards configuration frames that arrive live.

**StreamProxy.** One key: keys share nothing. A task stands for the `stop` and
`stopped` Arcs that identify a `ProxyEntry`; a source is named after the task that
created it. `pull[t]` follows the task from the queue through the client
(`connecting`, `registered`, and the loop `check`, `arming`, `parked`) to the end
of the supervisor's block (`exiting`, `closing`). The clients share that shape:
connect, `get_or_create`, then a loop that tests `stopped` and waits in `select!`.
`arming` is the time between the test and the first poll of `notified()`, in which
`notify_waiters` finds nobody. `remove` is one step although the code stores the
flag after it removed the entry; the properties speak of the states between calls.

**EdgePull.** Adds every step of `get_or_pull` (lookup, lock, second lookup, test
of the table, each origin, each poll), registration of subscribers with the event
after the lock, and the supervisor: the delayed stop reads the registry, the
subscribers and the table, calls the hook, reads them again, removes and closes,
each as its own step. `Aborted` says where `JoinHandle::abort` can still act. A
player in `Transient` is a playlist request: it pulls and never registers.

**Publishing.** One key. A source is the number of its creation. Taking the source
(`get_or_create`), announcing it (`StreamPublish`), announcing its end and closing
it by name are steps of their own, because the code awaits in between; sessions of
the same key interleave at each of them. A session is in the place "dropped" when
the code ends it without cleanup (an RTSP response that cannot be written, a failed
WHIP negotiation, any SRT connection) and "player" after a PLAY on a publishing
connection, which takes `is_publisher` back. The bus is one queue of at most
`BusCap` events per supervisor; a full queue loses its oldest event, and `missed`
remembers it. Only the two events of publishers are on it; other events, which
make an overrun more likely, are left out.

**StreamPusher.** `TakeCmd` looks at the registry and starts or parks the pusher;
`TakeEvent` starts the parked one. `FinishPush` clears the entry without asking
whose it is, and `remove` does not reach into `pending`, both as in the code. The
four push clients share one shape; where they differ (RTSP and SRT read the flag
after a wait only) the model allows both.

**Recording, ClusterRelay.** A recording stands for the `Notify` that its recorders
share: a recorder that is writing when it is signalled goes on. A relay has a flag
as well and is waiting for its signal during a whole attempt and a whole backoff;
"entering" and "resting" are the moments before, when the signal finds nobody.
`state` is what `is_recording` answers.

**FfmpegSources, TranscodeTable.** Handlers and supervisors are separate processes
joined by a queue or a lock; a handler reads the table, waits, and writes it. A
process or a transcoding task ends when it likes. The end of a task whose receiver was
dropped, and the reaping of a finished child, are part of the step that causes them.

**TranscodePipe.** Session, writer task, child, reader task in a row, with a bounded
channel or pipe between each two. The session feeds and drains in turn, which is how
everybody can wait for everybody. It may be overrun by its source, and it may be
stopped, which aborts it at any await.

**Hooks.** A call takes the configuration once and makes its attempts under it.
`setServerConfig` stores the configuration and then raises the revision, as two steps.

**SipServer.** The receive loop takes one message at a time and waits inside INVITE
and talk; the API and the maintainer run beside it. Any message a device can have
sent arrives late, again or never. `receiver` is the table of `RtpServerManager`, which
`stopRtp` and `closeRtpServer` of the API empty as well, whoever opened the port;
`apiClosed` remembers those. `stopRtp` closes the port, then looks for the dialog, then
ends it, each as a step of its own, and `bye_dialog` goes on with the context it copied
(`byes`) even when the dialog has ended or begun anew meanwhile. The port counter is a
static `AtomicU16`: it wraps, and the port it is added to stops at the last one, so
that late dialogs get port numbers which others have. A device may offer a stream again
on a Call-ID that has ended. The sender of a talk is found by stream and SSRC, as
`RtpSending` does; what ports and senders do is in `RtpPorts` and `RtpSending`.

**SegmentCaches.** One stream whose source may be closed and published again, three
kinds of cache. A viewer locks the entry, starts the task if there is none, reads
playlist, init segment or segment, and writes the answer while it holds the lock. The
task stores a segment under the lock of the segments and removes its entry when nobody
holds the entry. A client need not read its answer: that write has no timeout, so
viewers are not fair.

**RtpSending, RtpPorts.** A sender or receiver is the call that made it. Between the
test of the table and the insertion stands the opening of the transport, so calls
overlap. The task tests its flag and then arms its wait. The muxer may refuse a frame
and a write may fail; either ends the task, in the replay as in the loop.

**WebRtcSessions.** The peer connection is external: its state changes and the end of
its candidate gathering come when they come. The table, the watcher with its grace
period, `close` and the lock of ICE restarts are the server's.

**The media modules.** Bytes are identities (whose byte, and which), never values, so
that a wrong offset, size, order or loss is visible. Sizes of headers and packets are
scaled down with their proportions kept; widths (sequence numbers, time stamps,
offsets) are constants, so that wrap-around and saturation happen. The parsing of
headers is abstract; when a parser waits for more, skips, resynchronises or gives up is
exact.

- In `PsPath` the four bytes of a start code are bytes like others: a piece may end
  inside one, a loss may leave half of one or put two halves together, and the search
  works on what is there. A header with foreign bytes in it has any length. A payload
  holds no start code, and one of open length does not end with a zero byte, which the
  code would take for part of the next start code.
- In `TsPath` any byte may look like a sync byte. The SRT server gives each message to
  the demuxer as it is (`direct`); the pull clients go through `feed`. What the demuxer
  makes of bytes that are no packet is not followed, nor what comes after them.
- In `RtmpChunks` the parser applies a Set Chunk Size as it comes, and the session the
  last one of a read once more (`handle_message`). A message may be empty.
- In `HlsPull` any request may fail, and a segment that has left the playlist may still
  be served.

## Runs

| Run | Expect | Checks |
|---|---|---|
| `MediaFormats_exact` | pass | `GopIsExact`, `NoGap`, `ConfigFirst`, `RtpExact`, `PsExact`, `PsSkipsNoStart`, `TsExact`, `Mp4Exact`, `Mp4SeekComplete`, `FragExact`, `FlvExact`, `RtmpExact`, `HlsExact` |
| `Sessions_end` | pass | `SendersAccounted`, `ReceiversAccounted`, `TpConserved`, `WrSessionsExact`, `CloseEndsReaders`, `SendersEndWithSource`, `ClosedEnds`, `TpDeathEnds`, `WrGoneCleaned` |
| `Services_tables` | pass | `FfAccounted`, `TtReachable`, `HookConsistent`, `DialogMediaOwned`, `CacheConsistent`, `CacheFollowsSource` |
| `StreamProxy_table` | pass | `TableHonest`, `TableRefined`, `StopEndsTask` |
| `EdgePull_table` | pass | `PullsOwned` |
| `EdgePull_answer` | pass | `EveryCallReturns` |
| `StreamPusher_pending` | pass | `NoOrphan`, `UnpublishedIsGone`, `NoMissedPublish` |
| `Supervisors_one` | pass | `OneRecording`, `OneRelay`, `RecordersEnd`, `RelayStops` |
| `MediaSource_mp4` | violation | `ReplayLosesNothing` |
| `StreamProxy_feeds` | violation | `PullFeedsRegistry` |
| `EdgePull_return` | violation | `ReturningPlayerIsSafe` |
| `WebRtcSessions_answer` | violation | `WrPostAnswered` |

A property named `...Exact`, `...Accounted`, `...Consistent` or `...Owned` is a
conjunction whose parts are defined and explained just above it in its module.

What they show:

- **MediaFormats_exact.** A late joiner's GOP is exactly the media cached since the
  last key frame; a consumer that subscribes first loses nothing between replay and
  live frames; configuration comes before the video that needs it. *RTP*: packets
  leave the reorder buffer in order, across the wrap of the sequence number; what is
  missing is counted, without loss every unit is whole, and an H.265 unit always has
  its header. *PS, TS*: packets survive every way of cutting the stream; buffers stay
  bounded. Without loss a PS packet has exactly its payload; a resynchronisation drops
  no start code that has arrived whole, except directly after one that lost its id. A
  TS stream that begins with a packet is read packet by packet, and one that does not
  from the first packet on that is taken from its first byte; without loss a unit begins
  with its frame and lacks at most what the demuxer skips; with or without, a time
  stamp is that of the frame it is given to. *MP4, fMP4*: each sample is
  found at the place and with the size it was written with, and on the video clock with
  its time; a file cut short is refused; segments tile the timeline; a seek leaves out
  nothing after the place it chose. (The clock of an audio track with another timescale
  is not looked at.) *FLV*: tags come out as they
  went in, as soon as they are there, with signed and saturated offsets. *RTMP*:
  interleaved chunk streams and a change of chunk size keep the boundaries. *HLS*: a
  segment is taken once, none is skipped, and each is read with its own range and key,
  and with the last map of the playlist it was listed in, which is the only one that
  the parser keeps.
- **Sessions_end.** Senders: what is listed runs, the source counts no reader that is
  gone, a stop takes effect within one packet, and a sender ends with its source.
  Receivers: a UDP receiver that was not closed is listed, a closed one takes one more
  packet at most, and its task ends. Transcoder: no frame is lost or
  duplicated between session and child, and the child's death releases everybody, also
  when all buffers are full. WebRTC: a
  restart is answered with the answer made for it, no reader is counted for a closed
  peer, and a peer that is gone is cleaned up. A close of a source reaches every
  consumer, also one still starting, one overrun and one that subscribes afterwards.
- **Services_tables.** A listed FFmpeg source has a command or a process behind it and
  a stream has one process at most; a transcoding task that runs can be stopped; a
  hook call is decided under one configuration and the flow report never sleeps on a
  replaced interval. GB28181: an active dialog's port is open and open for it, unless
  the API closed it or the port numbers have run out; no port receives for a dialog of
  the platform that has ended, whoever ended it; a talk sender has an active dialog.
  Caches: a task can be reached through its entry, segments hold what the source sent,
  playlists list consecutive segments with a sequence number that is not too high (for
  CMAF the right one; HLS reads it under another lock than the segments and may give an
  earlier one), and a cache gives way to the next source if its lock is free again and
  again.
- **StreamProxy_table.** The table lists a task exactly while it runs and was not
  stopped; an old task's end leaves a newer entry alone; the registry never holds a
  closed source; a stopped task ends if its upstream keeps sending or hangs up.
- **EdgePull_table, EdgePull_answer.** The table's guarantees hold with players, idle
  stops, lost events and the API at once; the single-flight lock keeps one player's
  failed attempt from stopping another's pull; each call returns.
- **StreamPusher_pending.** A pusher is parked beside a live source only while the
  event that will start it is on its way, unless the bus overran the supervisor or a
  session never announces. When `StreamUnPublish` is the last event and all sessions
  are at rest, the key is free. A source outlives the sessions that cleaned up only if
  some session left without cleanup.
- **Supervisors_one.** At most one recording and one relay of a stream are under way
  that were not told to stop, although an old one may still be ending beside its
  successor. A recorder ends with its source, and a relay that missed its signal
  still ends.
- **MediaSource_mp4.** The MP4 recorder can lose frames between its replay and its
  subscription, against its comment. (`ConfigFirst` is checked for consumers that
  forward live configuration. With the profile `HttpFlv`, which drops it, TLC refutes
  it: a player that joins before the configuration frame never gets it.)
- **StreamProxy_feeds.** Giving up the entry and closing the stream are two steps, so
  an ending task can close the source of the task that follows it.
- **EdgePull_return.** A player that registers after the last count is closed anyway.
- **WebRtcSessions_answer.** The end of candidate gathering is signalled with
  `notify_waiters`; when it comes before the request waits, the POST is never answered.

### Known disagreements

These definitions state what a comment or a document says, and TLC refutes each under
the constants of the run of its module. They have no run of their own, except that
`EdgePull_idle.cfg` and `Supervisors_relay.cfg` are kept for the first two.

| Definition | Module | What happens |
|---|---|---|
| `IdleEnds` | `EdgePull` | a StreamPlay event that is handled late aborts the delayed stop that came after it; the idle pull stays |
| `RelayWhilePublished` | `ClusterRelay` | a relay task that finds no source ends and leaves its entry in `tasks`; after closeStream a stream published again on the same connection is not relayed |
| `FfDelStops` | `FfmpegSources` | delFFmpegSource empties the table and leaves the process running |
| `TtPlayable` | `TranscodeTable` | a stopped session leaves its closed destination in the registry, where its successor finds it |
| `TpPipeDrains` | `TranscodePipe` | the reader task fills the channel to a session that is itself waiting to feed; the child's output blocks |
| `ByeFindsTheStream` | `SipServer` | `bye` looks among the active dialogs, not among the pending ones |
| `CmafInitReachable` | `SegmentCaches` | the end of an old task removes the init segment of its successor |
| `NalusWhole` | `PsPath` | the last NAL unit of a PES packet loses its last bytes, since the search for start codes stops before the end |
| `PmtNamesCodec` | `TsPath` | the PMT written at the start of a stream may name another codec than the video has |
| `Mp4SeekOnKey` | `Mp4Path` | the muxer writes no `stss`, so every sample counts as a key frame and a seek may start anywhere |
| `RtmpOwnAligned` | `RtmpChunks` | the push client sends with a chunk size that the session's parser does not use |
| `RtmpTimeKept` | `RtmpChunks` | an absolute time is taken for a delta once a message has a second chunk |

`RtmpExact` leaves out four cases in which the parser loses the chunk boundaries: a
read that ends inside a payload (`rcTorn`), an extended time stamp (`rcExt`), a
peer that sends with a chunk size it did not announce, and a header that refers to an
empty message, which the parser drops together with its header (`Forgotten`).
`PsSkipsNoStart` speaks of start codes that have arrived whole: the first half of one
that is still arriving is dropped when a resynchronisation clears the buffer.

### Bounds

Each bound is a constant named in the cfg. They are small, and large enough for the
case that the property is about:

- *Source* (`MediaFormats_exact`): two publishers (video with configuration, audio),
  one consumer, four frames, a cache trimmed at two and a channel of two: a key frame,
  eviction at a second one and a frame after it, two frames in hand in either order,
  an overrun. In `Sessions_end`: two consumers, one of which ends on lag, two frames,
  a channel of one.
- *RTP*: sequence numbers modulo 16 from 0 and 14, a window of 3, fragments of 5
  bytes, two copies of a packet: the wrap, late packets and a full buffer occur.
- *PS, TS*: pieces of 1, 3, 4 bytes and of 7, 12, 24 bytes cut start codes, headers,
  payloads and packets in every place that the parser tells apart; one loss. A message of
  SRT is one packet or two.
- *MP4, fMP4*: four frames, two segments; a foreign file, the same file cut short, and
  one whose time table is too short. *FLV*: times modulo 16 and offsets up to 7, pieces of 7 and 40
  bytes. *RTMP*: chunk sizes 2 and 4, two chunk streams, messages of none to
  three chunks. *HLS*: a window of three segments and a memory of three, which is cleared
  once before the last poll (`MaxClears`).
- *Sessions*: three senders (two with one SSRC), two receivers, channels and pipes of
  one with a GOP of 0, 2 or 9 frames, so that all are full at once; one WebRTC
  session with two PATCH requests and three changes of the peer's state.
- *Services*: two FFmpeg keys and calls, two transcode calls, one hook call and two
  settings, two calls of one device, with a port counter that begins at 0 or at
  the last of three ports, two viewers of each kind of cache, two tasks. The queries of the
  SIP server are followed apart from its dialogs, which they do not touch.
- *Tables*: `StreamProxy_table` three tasks, so that an old, a current and a next
  owner exist at once; `EdgePull_table` two players (one transient), three tasks (one
  by the API), one origin, one play each; `EdgePull_answer` and the violation runs two
  players, two tasks; `StreamPusher_pending` two sessions of every pair of announcing
  protocols, two sources, one closeStream, two pushers, a bus of one event, which
  overruns at the second (the theorems hold for any capacity); `Supervisors_one` one
  session, RTMP or SRT, within two sources, two recordings and two relays for an old one and its successor, one API
  command. One supervisor is attached at a time, since supervisors do not touch each
  other's state.

Once all tasks, processes or relays are used up the next start is blocked; this is
the bound and not the code. Deadlock is not checked: a behaviour ends when its bounds
are used up and every task has ended. The invariants proved below do not depend on
these bounds.

### Fairness

Weak fairness of the server's own tasks only: tokio schedules a task that is ready.
Publishers need not publish, players need not leave, devices need not answer, nobody
need call the API.

- `StopEndsTask`: fairness of the upstream as well (`TalkingProxySpec`). Without it
  the notification that finds no waiter is lost and a silent upstream never lets the
  loop reach its next test.
- `EveryCallReturns`: strong fairness of `WaitFails`: the deadline of a wait passes,
  however often the 25 ms poll is taken before it.
- `CloseEndsReaders`: fairness of a publisher that has a frame in hand, which is a
  task between two of its own statements.
- `RecordersEnd`, `RelayStops`: each supervisor, recorder and relay; it is assumed that
  writing a file and connecting to a peer come to an end, with success or an error.
- `SendersEndWithSource`: the sender's task; the end of a packet in flight is fair for
  UDP only, since a TCP write may block on its peer.
- `ClosedEnds`: the steps of a receiver that have a timeout. A TCP peer that stops in
  the middle of a packet is excluded, because that read has none.
- `TpDeathEnds`: session, writer, reader and child.
- `WrGoneCleaned`, `WrPostAnswered`: the request, the gathering callback, the watcher,
  `close`.
- `CacheFollowsSource`: the task strongly, because viewers take the lock of the entry
  again and again and a lock is granted in the end; viewers not at all, since a client
  may never read its answer. The property has the premise that the lock is free again
  and again, and says nothing of a client that holds it for ever.

## Proofs

For any publishers, consumers, profiles, channel capacity and cache size
(assuming that the constants have their types and the sizes are positive):

- `ExactGop`: `GopIsExact`. The invariant `SourceInv` says that ids are places in
  the history `cached`; that the queue holds media in that order; and that for
  some `n` the last key frame is the `n`-th frame cached and all media from there
  on is in the queue. The last part survives eviction because `PopOld` runs only
  when a key frame is about to become the new `n`.
- `GapFree`: `NoGap`. `NoGap` is not inductive: while a consumer is starting it
  says nothing. `ReadersInv` adds where a consumer is in its plan, that all media
  of the GOP at the time of its snapshot which was sent before it subscribed is in
  what it replayed, and that it has everything it took from the channel. The
  heart is that a frame sent before the subscription was cached before it, hence
  before the snapshot.
- `ConfigFirstTheorem`: `ConfigFirst`. To `SourceInv` it adds `HandOK` (what is cached was
  sent or is in its publisher's hand, and a frame is sent after those that its publisher
  cached before it), `SlotsOK` (the cache holds the newest configuration) and `ForwardOK`
  for every consumer that forwards configurations: it has one as new as the newest of the
  moment it read the cache and those it took from the channel, and every video frame it
  has comes after one new enough (`Led`). Lag is the only way out.

For any set of tasks and any number of calls:

- `HonestTheorem`: `TableHonest`, from `ProxyInv`, which adds that the queue holds each
  unspawned task once, that an unused identity was never stopped and that an
  unregistered task names no source.
- `TableTheorem`: `StreamProxy` implements `TaskTable`, with `active` as owner and
  a task's life read off its place and its stop flag.

For any sessions, protocols, pushers, recordings, formats, relays and bus capacity:

- `OrphanTheorem`, `UnpublishTheorem`: `NoOrphan` and `UnpublishedIsGone`. The
  second follows from `Announced`, its inductive form: a registered source was
  announced last, or some session is in the middle of something. It holds because
  the event goes out before the key is freed.
- `ParkedPusherTheorem`: `NoMissedPublish`. Beside the types it needs `Watching`:
  pushers are parked only where the supervisor is subscribed, so that a
  StreamPublish enters its queue. A step that settles a session either publishes
  that event or frees the key.
- `OneRecordingTheorem`, `OneRelayTheorem`: `OneRecording` and `OneRelay`. Both are
  inductive together with the types: a start requires that the supervisor holds
  nothing, and whatever it lets go of it has told to stop.

For any players, origins, tasks and lost events:

- `PullsTheorem`: `PullsOwned`, the table's guarantees under `EdgePull` and
  `GivesUpOwnPull`. `EdgeInv` consists of `ProxyInv`, the types, `LockOK` (who is past
  the lock holds it, so there is one at most), `AttemptOK` (the entry that the holder
  would remove is one it added itself, or the API's), `HoldOK` and `UnkilledOK`. The heart is
  that the unconditional `remove` after a failed attempt is under the lock, and that
  the other ways to add an entry find it taken.

For any keys, calls, settings and retries:

- `FfTheorem`: `FfAccounted`. `FfInv` adds that a running process is the child kept
  for its key and that a child belongs to the key it is kept under.
- `TtReachableTheorem`: `TtReachable` is inductive with its types: the insertion that
  displaces a session drops its stop handle, which stops the task.
- `HookTheorem`: `HookConsistent`. `HkWoken` is its inductive form: a sleep on an old
  interval is ended by a revision not yet seen, or by one on its way.

- `DialogMediaTheorem`: `DialogMediaOwned`, for any dialogs, ports, size of the port
  counter and calls of the API. `SipInv` adds what is known of a call by where it is
  (`CallKnown`); that until the port numbers have run out no two calls were given the
  same one (`NumbersUnique`), so that a late `bye_dialog` closes nobody else's port, and
  a dialog keeps the port it has opened unless the API closed it (`PortsHeld`); and that
  a port which receives for a call of the platform is the one in its context, with the
  call not yet ended (`ReceiverKnown`). The last needs no premise on the numbers, and
  with it every end of a dialog closes what is open for it.

For any sender requests, packets, sessions, PATCH requests, ports and frames:

- `SendersTheorem`: `SendersAccounted`. `SendInv` adds that a sender not yet started
  was not stopped and that after a late packet it can only find that it was.
- `WebRtcTheorem`: `WrSessionsExact`. `WrPlaces` says that where a session is decides
  whether it is listed, read and connected; `WrSerial` says that one PATCH at a time is inside the
  restart of a session, and that the peer's descriptions are its own.

- `ReceiversTheorem`: `ReceiversAccounted`. `PortsInv` adds `CallOrder` (a call settles on
  a port before it binds and has a task only afterwards) and `TooLateIsLast` (after a packet
  that came too late the task can only find out that it is closed).
- `TpConservedTheorem`: `TpConserved`. The frames on their way through a transcode
  session are one sequence, cut at the channels, the pipes and the child. `TpInv` adds
  `TpAlive`: the session holds a frame only while it feeds, the tasks at the pipes live as
  long as ffmpeg does, and the end of the session kills ffmpeg.

For any sources, frames, viewers and window sizes:

- `CacheTheorem`: `CacheConsistent`. `SegInv` says of every task that its segments and
  frames are what it received, piece by piece, in the order of publication, that segments
  after the first begin where a decoder can and carry the configuration of their time
  (`Exact`), and that the segments kept are the last ones (`SegsOK`); of every viewer that
  the sequence number it read is not above the first segment kept (`ViewerOK`); and it
  contains `TaskReachable`.

For any playlist window, first sequence number, size of `seen` and number of times it is
cleared, and any upstream in which no two segments have the same URI, offset and length, and
an offset that is left out is the end of the range before it (`HlsUpstreams`):

- `HlsTheorem`: `HlsExact`. `HpInv` names the first and last segment of the playlist in
  hand and the next one to fetch (`Listed`). A segment is remembered exactly when it was
  demuxed since `seen` was cleared, and with it those listed before it (`SeenOK`); those
  before the next are done (`DoneOK`); and the end that is kept for a URI is that of its
  last range (`EndOK`), so that a range without an offset is fetched where it begins.

For any frames, sizes (`PsSizes`: a header holds a start code, the limit of a PES packet is
positive, a piece fits into the buffer), pieces and losses:

- `PsTheorem`: `PsExact`. `PsInv` consists of `PsBase` (types and the bound of the
  buffer), `PsMapped` (a map with its track goes before every PES packet),
  `PsPacketsExact` and, without loss, `Lossless(end, h)` for some `end` and `h`: the
  entities lie on the wire one after the other and end where `end` says (`Layout`), `h`
  of them are done (`Through`), and the buffer begins where the `h`-th ends.
- `PsResyncTheorem`: `PsSkipsNoStart`, with `PsTorn`: when the demuxer has passed over
  something, the buffer begins with a start code that lost its id. The search goes on at
  its least hit, so what it drops before that is no start code or was stepped over
  (`SteppedOver`), and the step that does so begins at a torn one.

Type correctness is proved along with each (`TypeCorrect`, `ProxyTypeTheorem`,
`EdgeTypeTheorem`, `PushTypeTheorem`, `SupervisorsTypeTheorem`, and inside `FfInv`,
`TtInv`, `HkInv`, `SendInv`, `WrInv`, `SipInv`, `PortsInv`, `TpInv`, `SegInv`, `HpInv`,
`PsInv`). The recursion-free form of `StartIdx` (the loop
of `get_latest_gop_frames` as the index it ends with) is what makes the proofs about
the cache possible.

### What is only model-checked

- All liveness: `CloseEndsReaders`, `StopEndsTask`, `EveryCallReturns`, `RecordersEnd`,
  `RelayStops`, `SendersEndWithSource`, `ClosedEnds`, `TpDeathEnds`, `WrGoneCleaned`,
  `CacheFollowsSource`. The prover has no rules for fairness and ENABLED.
- `RtpExact`, `Mp4Exact`, `Mp4SeekComplete`, `FragExact`, `FlvExact`, `RtmpExact`. These
  modules are folds over whole files and buffers, several of them written with RECURSIVE
  operators.
- `TsExact`. The argument would follow that of `PsExact`, with one unit in progress per
  track and losses within a unit; it is several times as long.

Induction over data is done where a proof needs it (the boundaries of PS packets, the
segments of a cache) by taking a least counterexample
among the natural numbers. An induction theorem with an operator as parameter cannot be
instantiated by the provers, so what an arbitrary fold returns is not proved.

## Not modelled

- Contents of frames, track descriptors, byte counters, URLs, HTTP answers and
  logging: no property looks at them.
- Codecs: bit-level parsing of parameter sets without state. Configuration,
  authentication, XML, SDP, AMF, HTTP request parsing, digests: parsing and hashing.
- The session registry: a map whose `kick` aborts a task, which is the end of a
  session in `Publishing`.
- DTLS, ICE and SRTP (the `webrtc` crate), the SRT protocol (a C library behind
  blocking threads), ffmpeg itself: external. Their effects on the server are inputs.
- The handshakes of the RTSP, RTMP, SRT and WHEP pull and push clients; RTSP DESCRIBE
  and SETUP. They change nothing that another task sees.
- `packetize_audio` and audio depacketizing (one packet per frame); continuity
  counters of TS packets, which are written and never read.
- `HlsDemuxer` and `VideoTranscoder`: nothing in the server calls them.
