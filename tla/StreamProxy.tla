---------------------------- MODULE StreamProxy ----------------------------
(***************************************************************************)
(* The stream proxies of one stream key: the control table of              *)
(* core/src/stream_proxy.rs, its command queue, run_proxy_supervisor of    *)
(* server/src/main.rs, the pull tasks it spawns (one shape for the RTSP,   *)
(* RTMP, HTTP, SRT and WHEP clients) and the registry slot that they fill  *)
(* (MediaSourceManager, core/src/media_source.rs).  Keys do not interact.  *)
(*                                                                         *)
(* A task stands for the two Arcs of a ProxyEntry (stop, stopped), which   *)
(* are its identity; a source is named after the task that created it.     *)
(* remove is one step: removing the entry, storing stopped and waking the  *)
(* waiters commute with every step a task can take in between.             *)
(***************************************************************************)
EXTENDS Integers, Sequences, FiniteSets

CONSTANTS Tasks,      \* the identities of the tasks of a behaviour
          NoTask,
          MaxApiAdds,    \* bound: addStreamProxy calls
          MaxApiCloses   \* bound: closeStream calls

ASSUME NoTaskAssumption == NoTask \notin Tasks
ASSUME ApiBounds == MaxApiAdds \in Nat /\ MaxApiCloses \in Nat

VARIABLES active,     \* the table entry of the key: its task, or NoTask
          onDemand,   \* onDemand[t]: the entry was made by add_on_demand
          queue,      \* commands on their way to the supervisor
          receiver,   \* "up", or "gone" when nobody holds the queue's receiver
          pull,       \* pull[t]: where task t is
          stopped,    \* stopped[t]: its stop flag
          src,        \* the registered source of the key, or NoTask
          own,        \* own[t]: the source that t publishes into
          closed,     \* closed[s]: source s lost its sender
          frames,     \* frames[s]: the cached GOP of s is not empty
          apiAdds, apiCloses

tableVars == <<active, onDemand, queue, stopped>>
registryVars == <<src, closed, frames>>
proxyVars == <<active, onDemand, queue, receiver, pull, stopped, src, own,
               closed, frames, apiAdds, apiCloses>>

\* A task runs the client ("connecting" .. "parked"), then the rest of the
\* supervisor's spawned block ("exiting", "closing").
PullStates == {"new", "queued", "rollback", "connecting", "registered", "check",
               "arming", "parked", "exiting", "closing", "ended"}
Ended(t) == pull[t] \in {"closing", "ended"}
InLoop(t) == pull[t] \in {"check", "arming", "parked"}

ProxyInit ==
  /\ active = NoTask
  /\ onDemand = [t \in Tasks |-> FALSE]
  /\ queue = << >>
  /\ receiver \in {"up", "gone"}
  /\ pull = [t \in Tasks |-> "new"]
  /\ stopped = [t \in Tasks |-> FALSE]
  /\ src = NoTask
  /\ own = [t \in Tasks |-> NoTask]
  /\ closed = [t \in Tasks |-> FALSE]
  /\ frames = [t \in Tasks |-> FALSE]
  /\ apiAdds = 0
  /\ apiCloses = 0

----------------------------------------------------------------------------
\* StreamProxyControl.  These are called by the API, by players and by the
\* no-reader supervisor.

\* add_inner on a vacant key: the entry is inserted and the command sent; when
\* the receiver is gone the entry is there until the rollback.
add_inner(t, on_demand) ==
  /\ active = NoTask
  /\ pull[t] = "new"
  /\ active' = t
  /\ onDemand' = [onDemand EXCEPT ![t] = on_demand]
  /\ queue' = IF receiver = "up" THEN Append(queue, t) ELSE queue
  /\ pull' = [pull EXCEPT ![t] = IF receiver = "up" THEN "queued" ELSE "rollback"]
  /\ UNCHANGED <<receiver, stopped, registryVars, own>>

\* Mutant: active.remove(&key), whoever owns the entry.
remove_any(t) == active' = NoTask

\* remove_if(belongs_to): an entry is given up only by the task it belongs to.
remove_if_belongs_to(t) == active' = IF active = t THEN NoTask ELSE active

rollback(t) ==
  /\ pull[t] = "rollback"
  /\ remove_if_belongs_to(t)
  /\ pull' = [pull EXCEPT ![t] = "ended"]
  /\ UNCHANGED <<onDemand, queue, receiver, stopped, registryVars, own, apiAdds, apiCloses>>

\* remove: drops whatever entry there is, sets its flag and wakes its task if
\* the task is parked in select!; a notification that finds no waiter is lost.
remove ==
  /\ active' = NoTask
  /\ stopped' = [t \in Tasks |-> stopped[t] \/ t = active]
  /\ pull' = [t \in Tasks |-> IF t = active /\ pull[t] = "parked" THEN "exiting" ELSE pull[t]]
  /\ UNCHANGED <<onDemand, queue, receiver, own>>

\* MediaSourceManager::close_stream
close_stream ==
  /\ src' = NoTask
  /\ closed' = [s \in Tasks |-> closed[s] \/ s = src]
  /\ UNCHANGED frames

----------------------------------------------------------------------------
\* The API.

addStreamProxy ==
  /\ apiAdds < MaxApiAdds
  /\ \E t \in Tasks : add_inner(t, FALSE)
  /\ apiAdds' = apiAdds + 1
  /\ UNCHANGED apiCloses

delStreamProxy ==
  /\ active # NoTask
  /\ remove
  /\ UNCHANGED <<registryVars, apiAdds, apiCloses>>

closeStream ==
  /\ apiCloses < MaxApiCloses
  /\ src # NoTask
  /\ close_stream
  /\ apiCloses' = apiCloses + 1
  /\ UNCHANGED <<tableVars, receiver, pull, own, apiAdds>>

----------------------------------------------------------------------------
\* run_proxy_supervisor and the tasks it spawns.

SpawnPull ==
  /\ receiver = "up"
  /\ queue # << >>
  /\ queue' = Tail(queue)
  /\ pull' = [pull EXCEPT ![Head(queue)] = "connecting"]
  /\ UNCHANGED <<active, onDemand, receiver, stopped, registryVars, own, apiAdds, apiCloses>>

Move(t, from, to) ==
  /\ pull[t] \in from
  /\ pull' = [pull EXCEPT ![t] = to]

Stay == UNCHANGED <<tableVars, receiver, apiAdds, apiCloses>>

\* get_or_create: the registered source, or a new one.  No client looks at
\* stopped before this point.
Register(t) ==
  /\ Move(t, {"connecting"}, "registered")
  /\ src' = IF src = NoTask THEN t ELSE src
  /\ own' = [own EXCEPT ![t] = src']
  /\ Stay /\ UNCHANGED <<closed, frames>>

\* The client enters its read loop: with a test of stopped (RTSP, RTMP, SRT,
\* WHEP) or straight into select! (HTTP-FLV, HTTP-TS).
StartLoop(t) ==
  /\ Move(t, {"registered"}, "check") \/ Move(t, {"registered"}, "arming")
  /\ Stay /\ UNCHANGED <<registryVars, own>>

\* Mutant: the loop relies on the notification alone.
CheckStopped_never(t) ==
  /\ Move(t, {"check"}, "arming")
  /\ Stay /\ UNCHANGED <<registryVars, own>>

CheckStopped(t) ==
  /\ Move(t, {"check"}, IF stopped[t] THEN "exiting" ELSE "arming")
  /\ Stay /\ UNCHANGED <<registryVars, own>>

\* select! creates the notified() future: from here on notify_waiters wakes it.
Park(t) ==
  /\ Move(t, {"arming"}, "parked")
  /\ Stay /\ UNCHANGED <<registryVars, own>>

\* Data from upstream, with or without a frame for publish_and_cache; then the
\* loop starts over.
UpstreamData(t) ==
  /\ Move(t, {"parked"}, "check")
  /\ frames' \in {frames, [frames EXCEPT ![own[t]] = TRUE]}
  /\ Stay /\ UNCHANGED <<src, closed, own>>

\* The connection fails or ends, in the handshake or in the loop.
UpstreamEnd(t) ==
  /\ Move(t, {"connecting", "registered", "parked"}, "exiting")
  /\ Stay /\ UNCHANGED <<registryVars, own>>

\* The spawned block after the client: remove_if, and close_stream only when
\* the entry was this task's.
RemoveEntry(t) ==
  /\ Move(t, {"exiting"}, IF active = t THEN "closing" ELSE "ended")
  /\ remove_if_belongs_to(t)
  /\ UNCHANGED <<onDemand, queue, receiver, stopped, registryVars, own, apiAdds, apiCloses>>

CloseOwnStream(t) ==
  /\ Move(t, {"closing"}, "ended")
  /\ close_stream
  /\ Stay /\ UNCHANGED own

----------------------------------------------------------------------------
ApiNext == addStreamProxy \/ delStreamProxy \/ closeStream
PullStep(t) == Register(t) \/ StartLoop(t) \/ CheckStopped(t) \/ Park(t)
                 \/ RemoveEntry(t) \/ CloseOwnStream(t) \/ rollback(t)
Upstream(t) == UpstreamData(t) \/ UpstreamEnd(t)
ServerNext == SpawnPull \/ \E t \in Tasks : PullStep(t)

ProxyNext == ApiNext \/ ServerNext \/ \E t \in Tasks : Upstream(t)

ProxySpec == ProxyInit /\ [][ProxyNext]_proxyVars

\* The runtime schedules the supervisor and every task that is not waiting for
\* its upstream; an upstream may stay silent for ever.
ProxyFairness ==
  /\ WF_proxyVars(SpawnPull)
  /\ \A t \in Tasks : WF_proxyVars(PullStep(t))

FairProxySpec == ProxySpec /\ ProxyFairness

\* With an upstream that never stays silent: it sends or it hangs up.
TalkingProxySpec == FairProxySpec /\ \A t \in Tasks : WF_proxyVars(Upstream(t))

----------------------------------------------------------------------------
\* Properties.

\* The type invariant; a connected task has a source to publish into.
ProxyTypeOK ==
  /\ active \in Tasks \cup {NoTask}
  /\ onDemand \in [Tasks -> BOOLEAN]
  /\ queue \in Seq(Tasks)
  /\ receiver \in {"up", "gone"}
  /\ pull \in [Tasks -> PullStates]
  /\ stopped \in [Tasks -> BOOLEAN]
  /\ src \in Tasks \cup {NoTask}
  /\ own \in [Tasks -> Tasks \cup {NoTask}]
  /\ \A t \in Tasks : pull[t] = "registered" \/ InLoop(t) => own[t] \in Tasks
  /\ closed \in [Tasks -> BOOLEAN]
  /\ frames \in [Tasks -> BOOLEAN]
  /\ apiAdds \in 0 .. MaxApiAdds
  /\ apiCloses \in 0 .. MaxApiCloses

\* How the table and the tasks look to a user of the table.
Life(t) == IF pull[t] = "new" THEN "new"
           ELSE IF Ended(t) THEN "done"
           ELSE IF stopped[t] THEN "cancelled" ELSE "active"

\* The proxies implement the table specification: one owner per key, the entry
\* is the running task that nobody stopped, and a late end of an old task
\* leaves a newer entry alone.
Table == INSTANCE TaskTable WITH owner <- active, life <- [t \in Tasks |-> Life(t)]
TableRefined == Table!TableSpec

\* "When a task finishes ... its entry is removed from the shared active table
\* so `getStreamProxyList` reflects reality" (server/src/main.rs:885): the list
\* names a task exactly while the task runs and was not stopped.
ListReflectsReality ==
  \A t \in Tasks : active = t <=> pull[t] # "new" /\ ~ Ended(t) /\ ~ stopped[t]

\* A task that republishes for the listed proxy feeds the source that players
\* find under the key ("republishes it locally under `(vhost, app,
\* stream_name)` so it can be consumed by any protocol this server supports",
\* rtsp/src/pull_client.rs:14).
PullFeedsRegistry ==
  \A t \in Tasks : active = t /\ InLoop(t) => src = own[t] /\ ~ closed[own[t]]

\* Whoever is in the registry still has its sender: "New players fail because
\* the source is also removed from the manager" (core/src/media_source.rs:391),
\* and no source comes back after its close.
RegisteredIsOpen == src # NoTask => ~ closed[src]

\* What getStreamProxyList and the registry say is so: the list names the tasks
\* that run, the registry holds no dead source.
TableHonest == ListReflectsReality /\ RegisteredIsOpen

\* A task told to stop ends ("Runs until `stop` is signalled or the upstream
\* connection drops", rtsp/src/pull_client.rs:16).
StopEndsTask == \A t \in Tasks : stopped[t] ~> pull[t] = "ended"
=============================================================================
