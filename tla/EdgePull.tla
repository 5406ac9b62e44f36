------------------------------ MODULE EdgePull ------------------------------
(***************************************************************************)
(* An edge node around the stream proxies of one key: players that call    *)
(* MediaSourceManager::get_or_pull and register as subscribers, and        *)
(* run_no_reader_supervisor, which stops an on-demand pull some time after *)
(* its last player left.  Every read of the table or the registry that     *)
(* other tasks can invalidate is a step of its own.                        *)
(***************************************************************************)
EXTENDS StreamProxy

CONSTANTS Players,
          Transient,     \* players that never register (playlist requests)
          NumOrigins,    \* configured origins
          MaxPlays,      \* bound: play requests per player
          Lossy          \* the supervisor's event receiver may be overrun

ASSUME PlayersAssumption ==
  /\ Transient \subseteq Players
  /\ Players \cap {"free", "api", "reaper", "nobody"} = {}
ASSUME EdgeBounds == NumOrigins \in Nat /\ MaxPlays \in Nat /\ Lossy \in BOOLEAN

Reapers == 1 .. MaxPlays * Cardinality(Players)

VARIABLES pc,        \* pc[p]: where player p is
          plays,     \* plays[p]: requests p made
          hold,      \* hold[p]: the source that p was given
          origin,    \* origin[p]: the origin that p tries
          flight,    \* holder of the key's single-flight lock, or "free"
          subs,      \* subs[s]: subscribers of source s
          events,    \* StreamPlay and NoReader events not read yet
          reaper,    \* reaper[k]: where the k-th delayed stop is
          target,    \* target[k]: the source that it looked up
          pending,   \* the delayed stop that an event would abort, 0 if none
          served,    \* history: sources that had a subscriber
          adder,     \* history: who added t: a player, "api", or "nobody"
          killer     \* history: who called remove while t was listed

edgeVars == <<pc, plays, hold, origin, flight, subs, events, reaper, target,
              pending, served, adder, killer>>
history == <<served, adder, killer>>
vars == <<proxyVars, edgeVars>>

PlayerStates == {"idle", "lock", "active", "wait_manual", "poll_manual", "try",
                 "wait_pull", "poll_pull", "give_up", "have", "announce_play",
                 "playing", "announce_leave", "not_found"}
ReaperStates == {"none", "sleep", "demand", "hook", "count", "demand_again",
                 "remove", "close", "done"}

Init ==
  /\ ProxyInit
  /\ receiver = "up"
  /\ pc = [p \in Players |-> "idle"]
  /\ plays = [p \in Players |-> 0]
  /\ hold = [p \in Players |-> NoTask]
  /\ origin = [p \in Players |-> 1]
  /\ flight = "free"
  /\ subs = [s \in Tasks |-> {}]
  /\ events = << >>
  /\ reaper = [k \in Reapers |-> "none"]
  /\ target = [k \in Reapers |-> NoTask]
  /\ pending = 0
  /\ served = {}
  /\ adder = [t \in Tasks |-> "nobody"]
  /\ killer = [t \in Tasks |-> "nobody"]

----------------------------------------------------------------------------
\* get_or_pull.

Goto(p, from, to) ==
  /\ pc[p] \in from
  /\ pc' = [pc EXCEPT ![p] = to]

NoProxyStep == UNCHANGED proxyVars
NoReaperStep == UNCHANGED <<reaper, target, pending>>

\* remove, with the caller noted.
RemovedBy(who) ==
  /\ remove
  /\ killer' = [t \in Tasks |-> IF t = active THEN who ELSE killer[t]]
  /\ UNCHANGED <<apiAdds, apiCloses, served, adder>>

\* add and add_on_demand: the identities of tasks are used in order.
AddedBy(who, on_demand) ==
  \E t \in Tasks :
    /\ \A u \in Tasks : pull[u] = "new" => t <= u
    /\ add_inner(t, on_demand)
    /\ adder' = [adder EXCEPT ![t] = who]
    /\ UNCHANGED <<served, killer>>

\* The caller leaves get_or_pull with the registered source.
Take(p, from) ==
  /\ src # NoTask
  /\ Goto(p, from, "have")
  /\ hold' = [hold EXCEPT ![p] = src]

\* The first lookup.
GetOrPull(p) ==
  /\ plays[p] < MaxPlays
  /\ plays' = [plays EXCEPT ![p] = @ + 1]
  /\ \/ Take(p, {"idle", "not_found"})
     \/ /\ src = NoTask
        /\ Goto(p, {"idle", "not_found"}, "lock")
        /\ UNCHANGED hold
  /\ origin' = [origin EXCEPT ![p] = 1]
  /\ NoProxyStep /\ NoReaperStep /\ UNCHANGED <<flight, subs, events, history>>

\* Mutant: no single-flight lock.
FlightLock_unlocked(p) ==
  /\ \/ Take(p, {"lock"}) /\ UNCHANGED flight
     \/ /\ src = NoTask
        /\ Goto(p, {"lock"}, "active")
        /\ flight' = p
        /\ UNCHANGED hold
  /\ NoProxyStep /\ NoReaperStep /\ UNCHANGED <<plays, origin, subs, events, history>>

\* The lock, and the second lookup under it.
FlightLock(p) ==
  /\ flight = "free"
  /\ \/ Take(p, {"lock"}) /\ UNCHANGED flight
     \/ /\ src = NoTask
        /\ Goto(p, {"lock"}, "active")
        /\ flight' = p
        /\ UNCHANGED hold
  /\ NoProxyStep /\ NoReaperStep /\ UNCHANGED <<plays, origin, subs, events, history>>

\* "A manually configured proxy may already be serving this stream."
CheckActive(p) ==
  /\ Goto(p, {"active"}, IF active # NoTask THEN "wait_manual" ELSE "try")
  /\ NoProxyStep /\ NoReaperStep
  /\ UNCHANGED <<plays, hold, origin, flight, subs, events, history>>

\* for origin in origins: add_on_demand, wait; or continue when it is refused.
TryOrigin(p) ==
  /\ pc[p] = "try"
  /\ origin[p] <= NumOrigins
  /\ \/ /\ AddedBy(p, TRUE)
        /\ Goto(p, {"try"}, "wait_pull")
        /\ UNCHANGED <<apiAdds, apiCloses, origin>>
     \/ /\ active # NoTask
        /\ origin' = [origin EXCEPT ![p] = @ + 1]
        /\ NoProxyStep /\ UNCHANGED <<pc, history>>
  /\ NoReaperStep /\ UNCHANGED <<plays, hold, flight, subs, events>>

\* wait_for_source_or_proxy_end, upper half: a source with a replayable GOP.
HasGop == src # NoTask /\ frames[src]

WaitLookup(p) ==
  /\ \/ HasGop /\ Take(p, {"wait_manual", "wait_pull"}) /\ flight' = "free"
     \/ /\ ~ HasGop
        /\ \/ Goto(p, {"wait_manual"}, "poll_manual")
           \/ Goto(p, {"wait_pull"}, "poll_pull")
        /\ UNCHANGED <<hold, flight>>
  /\ NoProxyStep /\ NoReaperStep /\ UNCHANGED <<plays, origin, subs, events, history>>

\* Lower half: the proxy is gone, or the deadline passed (at any time).
WaitFails(p) ==
  /\ \/ Goto(p, {"poll_manual"}, "try")
     \/ Goto(p, {"poll_pull"}, "give_up")
  /\ NoProxyStep /\ NoReaperStep
  /\ UNCHANGED <<plays, hold, origin, flight, subs, events, history>>

\* Lower half: sleep 25 ms and look again.
WaitAgain(p) ==
  /\ active # NoTask
  /\ \/ Goto(p, {"poll_manual"}, "wait_manual")
     \/ Goto(p, {"poll_pull"}, "wait_pull")
  /\ NoProxyStep /\ NoReaperStep
  /\ UNCHANGED <<plays, hold, origin, flight, subs, events, history>>

\* proxy.remove after a failed attempt, whatever entry is there by now.
GiveUpOrigin(p) ==
  /\ Goto(p, {"give_up"}, "try")
  /\ RemovedBy(p)
  /\ origin' = [origin EXCEPT ![p] = @ + 1]
  /\ NoReaperStep /\ UNCHANGED <<registryVars, plays, hold, flight, subs, events>>

\* Mutant: the early return forgets the lock.
NotFound_locked(p) ==
  /\ origin[p] > NumOrigins
  /\ Goto(p, {"try"}, "not_found")
  /\ NoProxyStep /\ NoReaperStep /\ UNCHANGED <<plays, hold, origin, flight, subs, events, history>>

\* All origins were tried: None.
NotFound(p) ==
  /\ origin[p] > NumOrigins
  /\ Goto(p, {"try"}, "not_found")
  /\ flight' = "free"
  /\ NoProxyStep /\ NoReaperStep /\ UNCHANGED <<plays, hold, origin, subs, events, history>>

----------------------------------------------------------------------------
\* Subscribers.

\* add_subscriber: under the lock, then the event.
AddSubscriber(p) ==
  /\ p \notin Transient
  /\ Goto(p, {"have"}, IF subs[hold[p]] = {} THEN "announce_play" ELSE "playing")
  /\ subs' = [subs EXCEPT ![hold[p]] = @ \cup {p}]
  /\ served' = served \cup {hold[p]}
  /\ NoProxyStep /\ NoReaperStep
  /\ UNCHANGED <<plays, hold, origin, flight, events, adder, killer>>

AnnouncePlay(p) ==
  /\ Goto(p, {"announce_play"}, "playing")
  /\ events' = Append(events, "StreamPlay")
  /\ NoProxyStep /\ NoReaperStep /\ UNCHANGED <<plays, hold, origin, flight, subs, history>>

\* remove_subscriber (the guard is dropped): under the lock, then the event.
RemoveSubscriber(p) ==
  /\ Goto(p, {"playing"}, IF subs[hold[p]] = {p} THEN "announce_leave" ELSE "idle")
  /\ subs' = [subs EXCEPT ![hold[p]] = @ \ {p}]
  /\ NoProxyStep /\ NoReaperStep /\ UNCHANGED <<plays, hold, origin, flight, events, history>>

AnnounceLeave(p) ==
  /\ Goto(p, {"announce_leave"}, "idle")
  /\ events' = Append(events, "NoReader")
  /\ NoProxyStep /\ NoReaperStep /\ UNCHANGED <<plays, hold, origin, flight, subs, history>>

\* A request that is served without registering a subscriber.
ServeTransient(p) ==
  /\ p \in Transient
  /\ Goto(p, {"have"}, "idle")
  /\ NoProxyStep /\ NoReaperStep
  /\ UNCHANGED <<plays, hold, origin, flight, subs, events, history>>

----------------------------------------------------------------------------
\* run_no_reader_supervisor.

\* JoinHandle::abort acts at an await: in the sleep, in the hook call, and
\* perhaps in the read lock of the second count.
Aborted(k) ==
  IF k = 0 THEN {reaper}
  ELSE {r \in {reaper, [reaper EXCEPT ![k] = "done"]} :
          /\ reaper[k] \in {"sleep", "hook"} => r[k] = "done"
          /\ reaper[k] \notin {"sleep", "hook", "count"} => r = reaper}

NoPlayerStep == UNCHANGED <<pc, plays, hold, origin, flight, subs>>

OnStreamPlay ==
  /\ events # << >> /\ Head(events) = "StreamPlay"
  /\ events' = Tail(events)
  /\ reaper' \in Aborted(pending)
  /\ pending' = 0
  /\ NoProxyStep /\ NoPlayerStep /\ UNCHANGED <<target, history>>

OnNoReader ==
  /\ events # << >> /\ Head(events) = "NoReader"
  /\ events' = Tail(events)
  /\ \E k \in Reapers : \E r \in Aborted(pending) :
       /\ reaper[k] = "none" /\ \A j \in 1 .. k - 1 : reaper[j] # "none"
       /\ reaper' = [r EXCEPT ![k] = "sleep"]
       /\ pending' = k
  /\ NoProxyStep /\ NoPlayerStep /\ UNCHANGED <<target, history>>

\* Lagged: a burst of other events overran the receiver.
LoseEvent ==
  /\ Lossy
  /\ events # << >>
  /\ events' = Tail(events)
  /\ NoProxyStep /\ NoPlayerStep /\ NoReaperStep /\ UNCHANGED history

Reap(k, from, to) ==
  /\ reaper[k] = from
  /\ reaper' = [reaper EXCEPT ![k] = to]
  /\ NoPlayerStep /\ UNCHANGED <<events, pending>>

\* After the delay: the source, its subscriber count.
ReaperWakes(k) ==
  /\ Reap(k, "sleep", IF src # NoTask /\ subs[src] = {} THEN "demand" ELSE "done")
  /\ target' = [target EXCEPT ![k] = src]
  /\ NoProxyStep /\ UNCHANGED history

IsOnDemand == active # NoTask /\ onDemand[active]

ReaperTestsDemand(k) ==
  /\ \/ Reap(k, "demand", IF IsOnDemand THEN "hook" ELSE "done")
     \/ Reap(k, "demand_again", IF IsOnDemand THEN "remove" ELSE "done")
  /\ NoProxyStep /\ UNCHANGED <<target, history>>

\* The on_stream_none_reader hook returned: still_same_source.
ReaperHookDone(k) ==
  /\ Reap(k, "hook", IF src = target[k] THEN "count" ELSE "done")
  /\ NoProxyStep /\ UNCHANGED <<target, history>>

ReaperCounts(k) ==
  /\ Reap(k, "count", IF subs[target[k]] = {} THEN "demand_again" ELSE "done")
  /\ NoProxyStep /\ UNCHANGED <<target, history>>

\* control.remove, and close_stream only if there was an entry.
ReaperRemoves(k) ==
  /\ Reap(k, "remove", IF active # NoTask THEN "close" ELSE "done")
  /\ RemovedBy("reaper")
  /\ UNCHANGED <<registryVars, target>>

ReaperCloses(k) ==
  /\ Reap(k, "close", "done")
  /\ close_stream
  /\ Stay /\ UNCHANGED <<pull, own, target, history>>

----------------------------------------------------------------------------
ProxyStep(A) == A /\ UNCHANGED edgeVars

\* The management API, when it is in use (MaxApiAdds > 0).
ApiAdd ==
  /\ apiAdds < MaxApiAdds
  /\ AddedBy("api", FALSE)
  /\ apiAdds' = apiAdds + 1
  /\ NoPlayerStep /\ NoReaperStep /\ UNCHANGED <<apiCloses, events>>
ApiRemove ==
  /\ active # NoTask
  /\ MaxApiAdds > 0
  /\ RemovedBy("api")
  /\ NoPlayerStep /\ NoReaperStep /\ UNCHANGED <<registryVars, events>>

PlayerStep(p) ==
  \/ FlightLock(p) \/ CheckActive(p) \/ TryOrigin(p) \/ WaitLookup(p) \/ WaitFails(p)
  \/ WaitAgain(p) \/ GiveUpOrigin(p) \/ NotFound(p) \/ AddSubscriber(p)
  \/ AnnouncePlay(p) \/ AnnounceLeave(p) \/ ServeTransient(p)
SupervisorStep == OnStreamPlay \/ OnNoReader
ReaperStep(k) ==
  \/ ReaperWakes(k) \/ ReaperTestsDemand(k) \/ ReaperHookDone(k) \/ ReaperCounts(k)
  \/ ReaperRemoves(k) \/ ReaperCloses(k)

Next ==
  \/ ProxyStep(closeStream) \/ ProxyStep(SpawnPull)
  \/ \E t \in Tasks : ProxyStep(PullStep(t)) \/ ProxyStep(Upstream(t))
  \/ ApiAdd \/ ApiRemove \/ SupervisorStep \/ LoseEvent
  \/ \E p \in Players : GetOrPull(p) \/ PlayerStep(p) \/ RemoveSubscriber(p)
  \/ \E k \in Reapers : ReaperStep(k)

Spec == Init /\ [][Next]_vars

\* The server's tasks are scheduled; a waiting player's deadline passes; a
\* playing player stays as long as it likes, an upstream may stay silent.
Fairness ==
  /\ WF_vars(ProxyStep(SpawnPull))
  /\ \A t \in Tasks : WF_vars(ProxyStep(PullStep(t)))
  /\ \A p \in Players : WF_vars(PlayerStep(p)) /\ SF_vars(WaitFails(p))
  /\ WF_vars(SupervisorStep)
  /\ \A k \in Reapers : WF_vars(ReaperStep(k))

FairSpec == Spec /\ Fairness

----------------------------------------------------------------------------
\* Properties.

EdgeTypes ==
  /\ pc \in [Players -> PlayerStates]
  /\ plays \in [Players -> 0 .. MaxPlays]
  /\ hold \in [Players -> Tasks \cup {NoTask}]
  /\ origin \in [Players -> 1 .. NumOrigins + 1]
  /\ flight \in Players \cup {"free"}
  /\ subs \in [Tasks -> SUBSET Players]
  /\ events \in Seq({"StreamPlay", "NoReader"})
  /\ reaper \in [Reapers -> ReaperStates]
  /\ target \in [Reapers -> Tasks \cup {NoTask}]
  /\ pending \in Reapers \cup {0}
  /\ served \subseteq Tasks
  /\ adder \in [Tasks -> Players \cup {"api", "nobody"}]
  /\ killer \in [Tasks -> Players \cup {"api", "reaper", "nobody"}]

\* The type invariant.
TypeOK == ProxyTypeOK /\ EdgeTypes

\* The unconditional remove at the end of a failed attempt in get_or_pull never
\* takes down a pull that another player started ("Per-stream single-flight
\* locks prevent concurrent play requests from racing through the origin
\* candidate list", core/src/media_source.rs:462).
GivesUpOwnPull ==
  \A t \in Tasks : killer[t] \in Players => adder[t] \in {killer[t], "api"}

\* With players that pull on demand and idle stops, list and registry keep telling
\* the truth and a player's failed attempt stops no pull but its own.
PullsOwned == TableHonest /\ GivesUpOwnPull

\* "A returning player cancels the pending stop" (server/src/main.rs:979): an
\* idle stop never closes a source that somebody is registered with.
ReturningPlayerIsSafe ==
  [][\A k \in Reapers : reaper[k] = "close" /\ reaper'[k] = "done" =>
       src = NoTask \/ subs[src] = {}]_vars

\* Every call of get_or_pull that has to queue returns, with a source or None,
\* whatever upstreams, other players and the idle stop do meanwhile.
EveryCallReturns == \A p \in Players : pc[p] = "lock" ~> pc[p] \in {"have", "not_found"}

\* An on-demand pull whose last registered player left does not stay idle for
\* ever: it is stopped, or ends, or a player comes back.
Idle == IsOnDemand /\ src # NoTask /\ src \in served /\ subs[src] = {}
IdleEnds == Idle ~> ~ Idle
=============================================================================
