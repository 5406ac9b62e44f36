-------------------------- MODULE EdgePullProofs ----------------------------
(***************************************************************************)
(* Proofs about streams that are pulled in.  StreamProxy and EdgePull, for *)
(* any players, tasks, origins and bounds: the proxy table and its tasks   *)
(* agree, which survives players and the idle stop, and the single-flight  *)
(* lock confines what a failed attempt removes.  FfmpegSources, for any    *)
(* keys and calls: the table lists what its children run.                  *)
(***************************************************************************)
EXTENDS EdgePull, FfmpegSources, TLAPS

-----------------------------------------------------------------------------
(* The proxies of a key. *)

\* A task that has not reached get_or_create yet.
Unspawned(t) == pull[t] \in {"new", "queued", "rollback", "connecting"}

\* A task is in the queue once, and only while the supervisor has not taken it.
QueueOK ==
  /\ \A i \in 1 .. Len(queue) : pull[queue[i]] = "queued"
  /\ \A i, j \in 1 .. Len(queue) : queue[i] = queue[j] => i = j

\* The identity of a task that has not registered names no source yet.
FreshOK == \A t \in Tasks : Unspawned(t) => src # t /\ ~ closed[t]

\* An identity that was never handed out was never stopped.
NewOK == \A t \in Tasks : pull[t] = "new" => ~ stopped[t]

\* The inductive invariant.
ProxyInv ==
  /\ ProxyTypeOK
  /\ QueueOK
  /\ NewOK
  /\ ListReflectsReality
  /\ FreshOK
  /\ RegisteredIsOpen

\* An empty table and an empty registry satisfy the invariant.
LEMMA InitInv == ProxyInit => ProxyInv
<1> SUFFICES ASSUME ProxyInit PROVE ProxyInv
  OBVIOUS
<1>1. ProxyTypeOK
  BY ApiBounds DEF ProxyInit, ProxyTypeOK, PullStates, InLoop
<1>2. QueueOK /\ NewOK /\ ListReflectsReality /\ FreshOK /\ RegisteredIsOpen
  BY NoTaskAssumption DEF ProxyInit, QueueOK, NewOK, ListReflectsReality, FreshOK,
     RegisteredIsOpen, Ended, Unspawned
<1> QED BY <1>1, <1>2 DEF ProxyInv

\* Every step keeps the types.
LEMMA TypeStep == ProxyInv /\ [ProxyNext]_proxyVars => ProxyTypeOK'
<1> SUFFICES ASSUME ProxyInv, [ProxyNext]_proxyVars PROVE ProxyTypeOK'
  OBVIOUS
<1> USE ApiBounds DEF ProxyInv, ProxyTypeOK, InLoop, PullStates, tableVars, registryVars
<1>1. CASE addStreamProxy
  BY <1>1 DEF addStreamProxy, add_inner
<1>2. CASE delStreamProxy
  BY <1>2 DEF delStreamProxy, remove
<1>3. CASE closeStream
  BY <1>3 DEF closeStream, close_stream
<1>4. CASE SpawnPull
  BY <1>4 DEF SpawnPull, QueueOK
<1>5. ASSUME NEW t \in Tasks, PullStep(t) PROVE ProxyTypeOK'
  <2>1. CASE Register(t)
    BY <2>1 DEF Register, Move, Stay
  <2>2. CASE StartLoop(t)
    BY <2>2 DEF StartLoop, Move, Stay
  <2>3. CASE CheckStopped(t)
    BY <2>3 DEF CheckStopped, Move, Stay
  <2>4. CASE Park(t)
    BY <2>4 DEF Park, Move, Stay
  <2>5. CASE RemoveEntry(t)
    BY <2>5 DEF RemoveEntry, Move, remove_if_belongs_to
  <2>6. CASE CloseOwnStream(t)
    BY <2>6 DEF CloseOwnStream, Move, Stay, close_stream
  <2>7. CASE rollback(t)
    BY <2>7 DEF rollback, remove_if_belongs_to
  <2> QED BY <1>5, <2>1, <2>2, <2>3, <2>4, <2>5, <2>6, <2>7 DEF PullStep
<1>6. ASSUME NEW t \in Tasks, Upstream(t) PROVE ProxyTypeOK'
  BY <1>6, Zenon DEF Upstream, UpstreamData, UpstreamEnd, Move, Stay
<1>7. CASE UNCHANGED proxyVars
  BY <1>7 DEF proxyVars
<1> QED BY <1>1, <1>2, <1>3, <1>4, <1>5, <1>6, <1>7 DEF ProxyNext, ApiNext, ServerNext

\* Every step keeps the queue free of repetitions and of tasks that already run,
\* and keeps unused identities clean.
LEMMA QueueStep == ProxyInv /\ [ProxyNext]_proxyVars => (QueueOK /\ NewOK)'
<1> SUFFICES ASSUME ProxyInv, [ProxyNext]_proxyVars PROVE (QueueOK /\ NewOK)'
  OBVIOUS
<1> USE DEF ProxyInv, ProxyTypeOK, PullStates, QueueOK, NewOK, tableVars, registryVars
<1>1. CASE addStreamProxy
  BY <1>1 DEF addStreamProxy, add_inner
<1>2. CASE delStreamProxy
  BY <1>2, NoTaskAssumption, SMTT(20) DEF delStreamProxy, remove, ListReflectsReality
<1>3. CASE closeStream
  BY <1>3 DEF closeStream
<1>4. CASE SpawnPull
  BY <1>4 DEF SpawnPull
<1>5. ASSUME NEW t \in Tasks, PullStep(t) \/ Upstream(t) PROVE (QueueOK /\ NewOK)'
  <2>1. /\ pull[t] \notin {"new", "queued"}
        /\ \E s \in PullStates \ {"new", "queued"} : pull' = [pull EXCEPT ![t] = s]
        /\ UNCHANGED <<queue, stopped>>
    BY <1>5 DEF PullStep, Upstream, Register, StartLoop, CheckStopped, Park, RemoveEntry,
       CloseOwnStream, rollback, UpstreamData, UpstreamEnd, Move, Stay
  <2> QED BY <2>1
<1>6. CASE UNCHANGED proxyVars
  BY <1>6 DEF proxyVars
<1> QED BY <1>1, <1>2, <1>3, <1>4, <1>5, <1>6 DEF ProxyNext, ApiNext, ServerNext

\* Every step keeps the list and the running tasks in agreement.
LEMMA ListStep == ProxyInv /\ [ProxyNext]_proxyVars => ListReflectsReality'
<1> SUFFICES ASSUME ProxyInv, [ProxyNext]_proxyVars PROVE ListReflectsReality'
  OBVIOUS
<1> USE NoTaskAssumption
    DEF ProxyInv, ProxyTypeOK, PullStates, ListReflectsReality, Ended, tableVars, registryVars
<1>1. CASE addStreamProxy
  BY <1>1 DEF addStreamProxy, add_inner, NewOK
<1>2. CASE delStreamProxy
  BY <1>2, Zenon DEF delStreamProxy, remove
<1>3. CASE closeStream
  BY <1>3 DEF closeStream
<1>4. CASE SpawnPull
  BY <1>4 DEF SpawnPull, QueueOK
<1>5. ASSUME NEW t \in Tasks, PullStep(t) PROVE ListReflectsReality'
  <2>1. CASE Register(t) \/ StartLoop(t) \/ CheckStopped(t) \/ Park(t)
    BY <2>1 DEF Register, StartLoop, CheckStopped, Park, Move, Stay
  <2>2. CASE RemoveEntry(t)
    BY <2>2 DEF RemoveEntry, Move, remove_if_belongs_to
  <2>3. CASE CloseOwnStream(t)
    BY <2>3 DEF CloseOwnStream, Move, Stay
  <2>4. CASE rollback(t)
    BY <2>4 DEF rollback, remove_if_belongs_to
  <2> QED BY <1>5, <2>1, <2>2, <2>3, <2>4 DEF PullStep
<1>6. ASSUME NEW t \in Tasks, Upstream(t) PROVE ListReflectsReality'
  BY <1>6 DEF Upstream, UpstreamData, UpstreamEnd, Move, Stay
<1>7. CASE UNCHANGED proxyVars
  BY <1>7 DEF proxyVars
<1> QED BY <1>1, <1>2, <1>3, <1>4, <1>5, <1>6, <1>7 DEF ProxyNext, ApiNext, ServerNext

\* Every step keeps closed sources out of the registry.
LEMMA OpenStep == ProxyInv /\ [ProxyNext]_proxyVars => (FreshOK /\ RegisteredIsOpen)'
<1> SUFFICES ASSUME ProxyInv, [ProxyNext]_proxyVars PROVE (FreshOK /\ RegisteredIsOpen)'
  OBVIOUS
<1> USE NoTaskAssumption
    DEF ProxyInv, ProxyTypeOK, PullStates, FreshOK, RegisteredIsOpen, Unspawned,
        tableVars, registryVars
<1>1. CASE addStreamProxy
  BY <1>1 DEF addStreamProxy, add_inner
<1>2. CASE delStreamProxy
  BY <1>2 DEF delStreamProxy, remove
<1>3. CASE closeStream
  BY <1>3 DEF closeStream, close_stream
<1>4. CASE SpawnPull
  BY <1>4 DEF SpawnPull, QueueOK
<1>5. ASSUME NEW t \in Tasks, PullStep(t) PROVE (FreshOK /\ RegisteredIsOpen)'
  <2>1. CASE Register(t)
    BY <2>1 DEF Register, Move, Stay
  <2>2. CASE StartLoop(t) \/ CheckStopped(t) \/ Park(t) \/ RemoveEntry(t) \/ rollback(t)
    BY <2>2 DEF StartLoop, CheckStopped, Park, RemoveEntry, rollback, Move, Stay
  <2>3. CASE CloseOwnStream(t)
    BY <2>3 DEF CloseOwnStream, close_stream, Move, Stay
  <2> QED BY <1>5, <2>1, <2>2, <2>3 DEF PullStep
<1>6. ASSUME NEW t \in Tasks, Upstream(t) PROVE (FreshOK /\ RegisteredIsOpen)'
  BY <1>6 DEF Upstream, UpstreamData, UpstreamEnd, Move, Stay
<1>7. CASE UNCHANGED proxyVars
  BY <1>7 DEF proxyVars
<1> QED BY <1>1, <1>2, <1>3, <1>4, <1>5, <1>6, <1>7 DEF ProxyNext, ApiNext, ServerNext

\* The inductive invariant holds of the table, the queue, the tasks and the
\* registry slot in every behaviour.
THEOREM ProxyInvariant == ProxySpec => []ProxyInv
<1>1. ProxyInv /\ [ProxyNext]_proxyVars => ProxyInv'
  BY TypeStep, QueueStep, ListStep, OpenStep DEF ProxyInv
<1> QED BY <1>1, InitInv, PTL DEF ProxySpec

\* The list names exactly the tasks that run and were not stopped, and a
\* registered source has its sender, for any number of tasks and calls
\* (StreamProxyControl, MediaSourceManager).
THEOREM HonestTheorem == ProxySpec => []TableHonest
<1>1. ProxyInv => TableHonest
  BY DEF ProxyInv, TableHonest
<1> QED BY <1>1, ProxyInvariant, PTL

----------------------------------------------------------------------------
\* Refinement of TaskTable.

\* A step that keeps the entry, the stop flags and what Life tells apart is a
\* stuttering step of the table.
LEMMA Stutter ==
  ASSUME UNCHANGED <<active, stopped>>,
         \A t \in Tasks : /\ (pull'[t] = "new") = (pull[t] = "new")
                          /\ Ended(t)' = Ended(t)
  PROVE  UNCHANGED <<active, [t \in Tasks |-> Life(t)]>>
BY DEF Life

\* Every step is a step of the table specification or leaves it unchanged.
LEMMA TableStep ==
  ProxyInv /\ [ProxyNext]_proxyVars =>
    Table!TableNext \/ UNCHANGED <<active, [t \in Tasks |-> Life(t)]>>
<1> DEFINE life == [t \in Tasks |-> Life(t)]
<1> SUFFICES ASSUME ProxyInv, [ProxyNext]_proxyVars
             PROVE  Table!TableNext \/ UNCHANGED <<active, life>>
  OBVIOUS
<1> USE NoTaskAssumption
    DEF ProxyInv, ProxyTypeOK, PullStates, tableVars, registryVars, ListReflectsReality
<1>1. CASE addStreamProxy
  <2>1. PICK t \in Tasks : add_inner(t, FALSE)
    BY <1>1, Zenon DEF addStreamProxy
  <2>2. life' = [life EXCEPT ![t] = "active"] /\ life[t] = "new"
    BY <2>1, Zenon DEF add_inner, NewOK, Life, Ended
  <2>3. Table!Add(t)
    BY <2>1, <2>2 DEF Table!Add, add_inner
  <2> QED BY <2>3 DEF Table!TableNext
<1>2. CASE delStreamProxy
  <2>1. PICK t \in Tasks : active = t
    BY <1>2 DEF delStreamProxy
  <2>2. pull[t] # "new" /\ ~ Ended(t)
    BY <2>1
  <2>3. life' = [life EXCEPT ![t] = "cancelled"]
    <3>1. \A u \in Tasks \ {t} : pull'[u] = pull[u] /\ (stopped'[u] <=> stopped[u])
      BY <1>2, <2>1 DEF delStreamProxy, remove
    <3>2. stopped'[t] /\ pull'[t] \in {pull[t], "exiting"}
      BY <1>2, <2>1, Zenon DEF delStreamProxy, remove
    <3>3. \A u \in Tasks \ {t} : Life(u)' = Life(u)
      BY <3>1 DEF Life, Ended
    <3>4. Life(t)' = "cancelled"
      BY <2>2, <3>2 DEF Life, Ended
    <3> QED BY <3>3, <3>4, Zenon
  <2>4. Table!Cancel(t)
    BY <1>2, <2>1, <2>3 DEF Table!Cancel, delStreamProxy, remove
  <2> QED BY <2>4 DEF Table!TableNext
<1>3. ASSUME NEW t \in Tasks, RemoveEntry(t) \/ rollback(t)
      PROVE  Table!TableNext
  <2>1. life' = [life EXCEPT ![t] = "done"] /\ life[t] \in {"active", "cancelled"}
    <3>1. /\ pull[t] \in {"exiting", "rollback"}
          /\ pull'[t] \in {"closing", "ended"}
          /\ \A u \in Tasks \ {t} : pull'[u] = pull[u]
          /\ stopped' = stopped
      BY <1>3 DEF RemoveEntry, rollback, Move
    <3>2. \A u \in Tasks \ {t} : Life(u)' = Life(u)
      BY <3>1 DEF Life, Ended
    <3>3. Life(t)' = "done" /\ Life(t) \in {"active", "cancelled"}
      BY <3>1 DEF Life, Ended
    <3> QED BY <3>2, <3>3, Zenon
  <2>2. Table!Finish(t)
    BY <1>3, <2>1 DEF Table!Finish, RemoveEntry, rollback, remove_if_belongs_to
  <2> QED BY <2>2 DEF Table!TableNext
<1>4. CASE closeStream \/ SpawnPull \/ UNCHANGED proxyVars
  BY <1>4, Stutter DEF closeStream, SpawnPull, QueueOK, Ended, proxyVars
<1>5. ASSUME NEW t \in Tasks,
             \/ Register(t) \/ StartLoop(t) \/ CheckStopped(t) \/ Park(t)
             \/ CloseOwnStream(t) \/ Upstream(t)
      PROVE  UNCHANGED <<active, life>>
  BY <1>5, Stutter DEF Register, StartLoop, CheckStopped, Park, CloseOwnStream, Upstream,
     UpstreamData, UpstreamEnd, Move, Stay, Ended
<1> QED BY <1>1, <1>2, <1>3, <1>4, <1>5 DEF ProxyNext, ApiNext, ServerNext, PullStep

\* The proxies of a key implement the control table: every step of the API, the
\* supervisor and the pull tasks adds, cancels or finishes one task, or is
\* invisible in the table.
THEOREM TableTheorem == ProxySpec => TableRefined
<1>1. ProxyInit => Table!TableInit
  BY DEF ProxyInit, Table!TableInit, Life, Ended
<1>2. ProxyInv /\ [ProxyNext]_proxyVars
        => [Table!TableNext]_<<active, [t \in Tasks |-> Life(t)]>>
  BY TableStep
<1> QED BY <1>1, <1>2, ProxyInvariant, PTL DEF ProxySpec, TableRefined, Table!TableSpec

\* Every variable keeps its type, for any tasks and bounds (ProxyEntry, the
\* registry and the tasks that run_proxy_supervisor spawns).
THEOREM ProxyTypeTheorem == ProxySpec => []ProxyTypeOK
<1>1. ProxyInv => ProxyTypeOK
  BY DEF ProxyInv
<1> QED BY <1>1, ProxyInvariant, PTL

-----------------------------------------------------------------------------
(* The players of an edge node. *)

\* Where a player holds the single-flight lock, and where it has a pull of its
\* own that it may give up.
Locked == {"active", "wait_manual", "poll_manual", "try", "wait_pull", "poll_pull", "give_up"}
Attempting == {"wait_pull", "poll_pull", "give_up"}

\* One player at a time is past the lock.
LockOK == \A p \in Players : pc[p] \in Locked => flight = p

\* A player that may give up has an origin left to count, and the entry that it
\* would remove is its own, or the API's.
AttemptOK ==
  \A p \in Players : pc[p] \in Attempting =>
    /\ origin[p] <= NumOrigins
    /\ active = NoTask \/ adder[active] \in {p, "api"}

\* A player that left get_or_pull with an answer has a source.
HoldOK == \A p \in Players : pc[p] = "have" => hold[p] \in Tasks

\* Nobody removed an entry that was never added.
UnkilledOK == \A t \in Tasks : pull[t] = "new" => killer[t] = "nobody"

\* The inductive invariant.
EdgeInv ==
  /\ ProxyInv
  /\ EdgeTypes
  /\ LockOK
  /\ AttemptOK
  /\ HoldOK
  /\ UnkilledOK
  /\ GivesUpOwnPull

\* What a step of the edge node does to the table, the tasks and the registry:
\* a step of StreamProxy, a pull on demand, or the idle stop's close.
EdgeProxyStep ==
  \/ [ProxyNext]_proxyVars
  \/ \E t \in Tasks : add_inner(t, TRUE) /\ UNCHANGED <<apiAdds, apiCloses>>
  \/ close_stream /\ Stay /\ UNCHANGED <<pull, own>>

\* remove is delStreamProxy, or changes nothing when there is no entry.
LEMMA RemoveIsDel ==
  ASSUME ProxyInv, remove, UNCHANGED <<registryVars, apiAdds, apiCloses>>
  PROVE  [ProxyNext]_proxyVars
<1>1. CASE active # NoTask
  BY <1>1 DEF delStreamProxy, ProxyNext, ApiNext
<1>2. CASE active = NoTask
  <2>1. stopped' = stopped
    BY <1>2, NoTaskAssumption DEF remove, ProxyInv, ProxyTypeOK
  <2>2. pull' = pull
    BY <1>2, NoTaskAssumption DEF remove, ProxyInv, ProxyTypeOK
  <2> QED BY <1>2, <2>1, <2>2 DEF remove, proxyVars, registryVars
<1> QED BY <1>1, <1>2

\* The table's invariant survives every such step.
LEMMA EdgeProxyInv == ProxyInv /\ EdgeProxyStep => ProxyInv'
<1> SUFFICES ASSUME ProxyInv, EdgeProxyStep PROVE ProxyInv'
  OBVIOUS
<1>1. CASE [ProxyNext]_proxyVars
  BY <1>1, TypeStep, QueueStep, ListStep, OpenStep DEF ProxyInv
<1>2. ASSUME NEW t \in Tasks, add_inner(t, TRUE), UNCHANGED <<apiAdds, apiCloses>>
      PROVE  ProxyInv'
  <2>1. ProxyTypeOK'
    BY <1>2 DEF add_inner, registryVars, ProxyInv, ProxyTypeOK, InLoop, PullStates
  <2>2. (QueueOK /\ NewOK)'
    BY <1>2 DEF add_inner, registryVars, ProxyInv, ProxyTypeOK, QueueOK, NewOK, PullStates
  <2>3. ListReflectsReality'
    BY <1>2, NoTaskAssumption DEF add_inner, registryVars, ProxyInv, ProxyTypeOK, NewOK,
       ListReflectsReality, Ended, PullStates
  <2>4. (FreshOK /\ RegisteredIsOpen)'
    BY <1>2 DEF add_inner, registryVars, ProxyInv, ProxyTypeOK, FreshOK, RegisteredIsOpen,
       Unspawned, PullStates
  <2> QED BY <2>1, <2>2, <2>3, <2>4 DEF ProxyInv
<1>3. ASSUME close_stream, Stay, UNCHANGED <<pull, own>> PROVE ProxyInv'
  <2>1. ProxyTypeOK'
    BY <1>3, Zenon DEF close_stream, Stay, tableVars, ProxyInv, ProxyTypeOK, InLoop
  <2>2. (QueueOK /\ NewOK /\ ListReflectsReality)'
    BY <1>3 DEF close_stream, Stay, tableVars, ProxyInv, QueueOK, NewOK,
       ListReflectsReality, Ended
  <2>3. (FreshOK /\ RegisteredIsOpen)'
    BY <1>3, NoTaskAssumption DEF close_stream, ProxyInv, ProxyTypeOK, FreshOK,
       RegisteredIsOpen, Unspawned
  <2> QED BY <2>1, <2>2, <2>3 DEF ProxyInv
<1> QED BY <1>1, <1>2, <1>3, Zenon DEF EdgeProxyStep

\* No step takes a task's identity back.
LEMMA NeverNew ==
  ASSUME ProxyInv, EdgeProxyStep
  PROVE  \A t \in Tasks : pull'[t] = "new" => pull[t] = "new"
<1> USE DEF ProxyInv, ProxyTypeOK
<1>1. CASE addStreamProxy \/ \E t \in Tasks : add_inner(t, TRUE)
  BY <1>1 DEF addStreamProxy, add_inner
<1>2. CASE delStreamProxy \/ closeStream \/ SpawnPull
  BY <1>2 DEF delStreamProxy, remove, closeStream, SpawnPull
<1>3. ASSUME NEW u \in Tasks, PullStep(u) \/ Upstream(u)
      PROVE  \A t \in Tasks : pull'[t] = "new" => pull[t] = "new"
  <2>1. \E s \in PullStates \ {"new"} : pull' = [pull EXCEPT ![u] = s]
    BY <1>3 DEF PullStep, Upstream, Register, StartLoop, CheckStopped, Park, RemoveEntry,
       CloseOwnStream, rollback, UpstreamData, UpstreamEnd, Move, PullStates
  <2> QED BY <2>1
<1>4. CASE UNCHANGED pull
  BY <1>4
<1> QED BY <1>1, <1>2, <1>3, <1>4, Zenon DEF EdgeProxyStep, ProxyNext, ApiNext, ServerNext, proxyVars

----------------------------------------------------------------------------
\* The parts of a step, one lemma for each part of the invariant.

\* An idle node satisfies the invariant.
LEMMA EdgeInit == Init => EdgeInv
<1> SUFFICES ASSUME Init PROVE EdgeInv
  OBVIOUS
<1>1. ProxyInv
  BY InitInv DEF Init
<1>2. EdgeTypes
  BY EdgeBounds DEF Init, EdgeTypes, PlayerStates, ReaperStates
<1>3. LockOK /\ AttemptOK /\ HoldOK /\ UnkilledOK /\ GivesUpOwnPull
  BY PlayersAssumption DEF Init, LockOK, AttemptOK, HoldOK, UnkilledOK, GivesUpOwnPull,
     Locked, Attempting
<1> QED BY <1>1, <1>2, <1>3 DEF EdgeInv

\* A player's step acts on the table as StreamProxy allows.
LEMMA PlayerTable ==
  ASSUME EdgeInv, NEW p \in Players, GetOrPull(p) \/ PlayerStep(p) \/ RemoveSubscriber(p)
  PROVE  EdgeProxyStep
<1>1. CASE GiveUpOrigin(p)
  <2>1. remove /\ UNCHANGED <<registryVars, apiAdds, apiCloses>> /\ RemovedBy(p)
    BY <1>1 DEF GiveUpOrigin, RemovedBy
  <2> QED BY <2>1, RemoveIsDel, Zenon DEF EdgeInv, EdgeProxyStep
<1>2. CASE TryOrigin(p)
  <2>1. CASE AddedBy(p, TRUE) /\ UNCHANGED <<apiAdds, apiCloses>>
    BY <2>1, Zenon DEF AddedBy, EdgeProxyStep
  <2>2. CASE NoProxyStep /\ UNCHANGED history
    BY <2>2 DEF NoProxyStep, proxyVars, history, EdgeProxyStep
  <2> QED BY <1>2, <2>1, <2>2, Zenon DEF TryOrigin
<1>3. CASE ~ GiveUpOrigin(p) /\ ~ TryOrigin(p)
  <2>1. UNCHANGED <<proxyVars, adder, killer>>
    BY <1>3 DEF GetOrPull, PlayerStep, RemoveSubscriber, FlightLock, CheckActive,
       WaitLookup, WaitFails, WaitAgain, NotFound, AddSubscriber, AnnouncePlay,
       AnnounceLeave, ServeTransient, NoProxyStep, history
  <2> QED BY <2>1 DEF proxyVars, EdgeProxyStep
<1> QED BY <1>1, <1>2, <1>3

\* A player's step keeps the types.
LEMMA PlayerTypes ==
  ASSUME EdgeInv, NEW p \in Players, GetOrPull(p) \/ PlayerStep(p) \/ RemoveSubscriber(p)
  PROVE  EdgeTypes'
<1> USE EdgeBounds, PlayersAssumption
    DEF EdgeInv, EdgeTypes, PlayerStates, Goto, Take, NoReaperStep, history
<1>0. src \in Tasks \cup {NoTask} /\ active \in Tasks \cup {NoTask}
  BY DEF ProxyInv, ProxyTypeOK
<1>1. CASE GetOrPull(p)
  <2>1. pc' \in [Players -> PlayerStates]
    BY <1>1, Zenon DEF GetOrPull
  <2>2. plays' \in [Players -> 0 .. MaxPlays]
    BY <1>1 DEF GetOrPull
  <2>3. hold' \in [Players -> Tasks \cup {NoTask}]
    BY <1>0, <1>1, Zenon DEF GetOrPull
  <2>4. origin' \in [Players -> 1 .. NumOrigins + 1]
    BY <1>1 DEF GetOrPull
  <2> QED BY <1>1, <2>1, <2>2, <2>3, <2>4 DEF GetOrPull
<1>2. CASE FlightLock(p)
  BY <1>0, <1>2 DEF FlightLock
<1>3. CASE CheckActive(p)
  BY <1>3 DEF CheckActive
<1>4. CASE TryOrigin(p)
  <2>1. adder' \in [Tasks -> Players \cup {"api", "nobody"}]
    <3>1. CASE AddedBy(p, TRUE)
      BY <3>1 DEF AddedBy
    <3>2. CASE UNCHANGED history
      BY <3>2
    <3> QED BY <1>4, <3>1, <3>2, Zenon DEF TryOrigin
  <2>2. UNCHANGED <<served, killer>>
    BY <1>4, Zenon DEF TryOrigin, AddedBy
  <2>3. pc' \in [Players -> PlayerStates]
    BY <1>4, Zenon DEF TryOrigin
  <2>4. origin' = origin \/ (origin[p] <= NumOrigins /\ origin' = [origin EXCEPT ![p] = @ + 1])
    BY <1>4, Zenon DEF TryOrigin
  <2>5. origin' \in [Players -> 1 .. NumOrigins + 1]
    <3>1. CASE origin' = origin
      BY <3>1
    <3>2. CASE origin[p] <= NumOrigins /\ origin' = [origin EXCEPT ![p] = @ + 1]
      <4>1. origin[p] + 1 \in 1 .. NumOrigins + 1
        BY <3>2
      <4> QED BY <3>2, <4>1
    <3> QED BY <2>4, <3>1, <3>2
  <2> QED BY <1>4, <2>1, <2>2, <2>3, <2>5 DEF TryOrigin
<1>5. CASE WaitLookup(p)
  <2>1. pc' \in [Players -> PlayerStates]
    BY <1>5, Zenon DEF WaitLookup
  <2>2. hold' \in [Players -> Tasks \cup {NoTask}]
    BY <1>0, <1>5, Zenon DEF WaitLookup
  <2>3. flight' \in Players \cup {"free"}
    BY <1>5 DEF WaitLookup
  <2> QED BY <1>5, <2>1, <2>2, <2>3 DEF WaitLookup
<1>6. CASE WaitFails(p)
  BY <1>6, Zenon DEF WaitFails
<1>7. CASE WaitAgain(p)
  BY <1>7, Zenon DEF WaitAgain
<1>8. CASE GiveUpOrigin(p)
  <2>1. killer' \in [Tasks -> Players \cup {"api", "reaper", "nobody"}]
    BY <1>8 DEF GiveUpOrigin, RemovedBy
  <2>2. origin[p] <= NumOrigins
    BY <1>8 DEF GiveUpOrigin, AttemptOK, Attempting
  <2> QED BY <1>8, <2>1, <2>2 DEF GiveUpOrigin, RemovedBy
<1>9. CASE NotFound(p)
  BY <1>9 DEF NotFound
<1>10. CASE AddSubscriber(p)
  BY <1>10 DEF AddSubscriber, HoldOK
<1>11. CASE AnnouncePlay(p)
  BY <1>11 DEF AnnouncePlay
<1>12. CASE AnnounceLeave(p)
  BY <1>12 DEF AnnounceLeave
<1>13. CASE ServeTransient(p)
  BY <1>13 DEF ServeTransient
<1>14. CASE RemoveSubscriber(p)
  BY <1>14, Zenon DEF RemoveSubscriber
<1> QED BY <1>1, <1>2, <1>3, <1>4, <1>5, <1>6, <1>7, <1>8, <1>9, <1>10, <1>11, <1>12, Zenon,
           <1>13, <1>14 DEF PlayerStep

\* A player's step keeps the lock exclusive, and who leaves has a source.
LEMMA PlayerLock ==
  ASSUME EdgeInv, NEW p \in Players, GetOrPull(p) \/ PlayerStep(p) \/ RemoveSubscriber(p)
  PROVE  (LockOK /\ HoldOK)'
<1>0. /\ src \in Tasks \cup {NoTask}
      /\ pc \in [Players -> PlayerStates]
      /\ hold \in [Players -> Tasks \cup {NoTask}]
      /\ "free" \notin Players
      /\ LockOK /\ HoldOK
  BY PlayersAssumption DEF EdgeInv, EdgeTypes, ProxyInv, ProxyTypeOK
<1>1. CASE GetOrPull(p)
  BY ONLY <1>0, <1>1 DEF GetOrPull, LockOK, HoldOK, Locked, Goto, Take
<1>2. CASE FlightLock(p)
  BY ONLY <1>0, <1>2 DEF FlightLock, LockOK, HoldOK, Locked, Goto, Take
<1>3. CASE CheckActive(p) \/ TryOrigin(p) \/ WaitFails(p) \/ WaitAgain(p) \/ GiveUpOrigin(p)
  <2>1. /\ pc[p] \in Locked
        /\ \E s \in Locked : pc' = [pc EXCEPT ![p] = s]
        /\ UNCHANGED <<hold, flight>>
    <3>1. CASE CheckActive(p) \/ GiveUpOrigin(p)
      BY ONLY <1>0, <3>1 DEF CheckActive, GiveUpOrigin, Goto, Locked
    <3>2. CASE TryOrigin(p)
      BY ONLY <1>0, <3>2, Zenon DEF TryOrigin, Goto, Locked
    <3>3. CASE WaitFails(p) \/ WaitAgain(p)
      BY ONLY <1>0, <3>3 DEF WaitFails, WaitAgain, Goto, Locked
    <3> QED BY ONLY <1>3, <3>1, <3>2, <3>3
  <2> QED BY ONLY <1>0, <2>1 DEF LockOK, HoldOK, Locked
<1>4. CASE WaitLookup(p)
  <2>1. CASE Take(p, {"wait_manual", "wait_pull"}) /\ flight' = "free"
    BY ONLY <1>0, <2>1 DEF LockOK, HoldOK, Locked, Goto, Take
  <2>2. CASE /\ Goto(p, {"wait_manual"}, "poll_manual") \/ Goto(p, {"wait_pull"}, "poll_pull")
             /\ UNCHANGED <<hold, flight>>
    BY ONLY <1>0, <2>2 DEF LockOK, HoldOK, Locked, Goto
  <2> QED BY ONLY <1>4, <2>1, <2>2 DEF WaitLookup
<1>5. CASE NotFound(p)
  BY ONLY <1>0, <1>5 DEF NotFound, LockOK, HoldOK, Locked, Goto
<1>6. CASE \/ AddSubscriber(p) \/ AnnouncePlay(p) \/ AnnounceLeave(p) \/ ServeTransient(p)
           \/ RemoveSubscriber(p)
  <2>1. /\ \E s \in {"announce_play", "playing", "announce_leave", "idle"} :
             pc' = [pc EXCEPT ![p] = s]
        /\ UNCHANGED <<hold, flight>>
    BY ONLY <1>0, <1>6 DEF AddSubscriber, AnnouncePlay, AnnounceLeave, ServeTransient,
       RemoveSubscriber, Goto
  <2> QED BY ONLY <1>0, <2>1 DEF LockOK, HoldOK, Locked
<1> QED BY <1>1, <1>2, <1>3, <1>4, <1>5, <1>6 DEF PlayerStep

\* What a failed attempt may remove stays its own: a player that starts a pull
\* holds the lock, so no other player is attempting.
LEMMA PlayerAttempt ==
  ASSUME EdgeInv, NEW p \in Players, GetOrPull(p) \/ PlayerStep(p) \/ RemoveSubscriber(p)
  PROVE  (AttemptOK /\ UnkilledOK /\ GivesUpOwnPull)'
<1>0. /\ active \in Tasks \cup {NoTask} /\ NoTask \notin Tasks
      /\ pull \in [Tasks -> PullStates]
      /\ pc \in [Players -> PlayerStates]
      /\ origin \in [Players -> 1 .. NumOrigins + 1]
      /\ adder \in [Tasks -> Players \cup {"api", "nobody"}]
      /\ "nobody" \notin Players
      /\ LockOK /\ AttemptOK /\ UnkilledOK /\ GivesUpOwnPull
  BY PlayersAssumption, NoTaskAssumption DEF EdgeInv, EdgeTypes, ProxyInv, ProxyTypeOK
<1>1. \A t \in Tasks : pull'[t] = "new" => pull[t] = "new"
  BY PlayerTable, NeverNew, Zenon DEF EdgeInv
<1>2. CASE TryOrigin(p)
  <2>1. /\ pc[p] = "try" /\ origin[p] <= NumOrigins
        /\ \A q \in Players \ {p} : pc[q] \notin Attempting /\ pc'[q] = pc[q]
    BY ONLY <1>0, <1>2, Zenon DEF TryOrigin, LockOK, Attempting, Locked, Goto
  <2>2. CASE AddedBy(p, TRUE) /\ UNCHANGED origin
    <3>1. PICK t \in Tasks : /\ add_inner(t, TRUE)
                             /\ adder' = [adder EXCEPT ![t] = p]
                             /\ killer' = killer
      BY ONLY <2>2, Zenon DEF AddedBy
    <3>2. /\ active' = t /\ pull[t] = "new"
          /\ adder'[t] = p /\ \A u \in Tasks \ {t} : adder'[u] = adder[u]
      BY ONLY <1>0, <3>1, Zenon DEF add_inner
    <3>3. AttemptOK'
      BY ONLY <2>1, <2>2, <3>2, Zenon DEF AttemptOK, Attempting
    <3>4. UnkilledOK'
      BY ONLY <1>0, <1>1, <3>1 DEF UnkilledOK
    <3>5. killer[t] \notin Players
      BY ONLY <1>0, <3>2, Zenon DEF UnkilledOK
    <3>6. GivesUpOwnPull'
      BY ONLY <1>0, <3>1, <3>2, <3>5, Zenon DEF GivesUpOwnPull
    <3> QED BY ONLY <3>3, <3>4, <3>6
  <2>3. CASE UNCHANGED <<pc, active, pull, adder, killer>>
    <3>1. AttemptOK'
      BY ONLY <2>1, <2>3 DEF AttemptOK, Attempting
    <3> QED BY ONLY <1>0, <2>3, <3>1 DEF UnkilledOK, GivesUpOwnPull
  <2> QED BY ONLY <1>2, <2>2, <2>3, Zenon DEF TryOrigin, NoProxyStep, proxyVars, history
<1>3. CASE GiveUpOrigin(p)
  <2>1. active' = NoTask /\ adder' = adder
    BY ONLY <1>3 DEF GiveUpOrigin, RemovedBy, remove
  <2>2. \A t \in Tasks : killer'[t] = IF t = active THEN p ELSE killer[t]
    BY ONLY <1>3 DEF GiveUpOrigin, RemovedBy
  <2>3. active # NoTask => adder[active] \in {p, "api"}
    BY ONLY <1>0, <1>3 DEF GiveUpOrigin, Goto, AttemptOK, Attempting
  <2>4. \A t \in Tasks : active = t => pull[t] # "new"
    BY DEF EdgeInv, ProxyInv, ListReflectsReality
  <2>5. \A q \in Players : pc'[q] \in Attempting => pc[q] \in Attempting /\ origin'[q] = origin[q]
    BY ONLY <1>0, <1>3 DEF GiveUpOrigin, Goto, Attempting
  <2>6. AttemptOK'
    BY ONLY <1>0, <2>1, <2>5 DEF AttemptOK
  <2>7. UnkilledOK'
    BY ONLY <1>0, <1>1, <2>2, <2>4 DEF UnkilledOK
  <2>8. GivesUpOwnPull'
    BY ONLY <1>0, <2>1, <2>2, <2>3, Zenon DEF GivesUpOwnPull
  <2> QED BY ONLY <2>6, <2>7, <2>8
<1>4. CASE ~ TryOrigin(p) /\ ~ GiveUpOrigin(p)
  <2>1. UNCHANGED <<active, adder, killer>>
    BY <1>4, Zenon DEF GetOrPull, PlayerStep, RemoveSubscriber, FlightLock, CheckActive,
       WaitLookup, WaitFails, WaitAgain, NotFound, AddSubscriber, AnnouncePlay,
       AnnounceLeave, ServeTransient, NoProxyStep, proxyVars, history
  <2>2. \A q \in Players :
          pc'[q] \in Attempting => pc[q] \in Attempting /\ origin'[q] = origin[q]
    <3>1. CASE GetOrPull(p)
      BY ONLY <1>0, <3>1 DEF GetOrPull, Goto, Take, Attempting
    <3>2. CASE FlightLock(p) \/ CheckActive(p) \/ NotFound(p)
      BY ONLY <1>0, <3>2 DEF FlightLock, CheckActive, NotFound, Goto, Take, Attempting
    <3>3. CASE WaitLookup(p)
      BY ONLY <1>0, <3>3 DEF WaitLookup, Goto, Take, Attempting
    <3>4. CASE WaitFails(p) \/ WaitAgain(p)
      BY ONLY <1>0, <3>4 DEF WaitFails, WaitAgain, Goto, Attempting
    <3>5. CASE \/ AddSubscriber(p) \/ AnnouncePlay(p) \/ AnnounceLeave(p)
               \/ ServeTransient(p) \/ RemoveSubscriber(p)
      BY ONLY <1>0, <3>5 DEF AddSubscriber, AnnouncePlay, AnnounceLeave, ServeTransient,
         RemoveSubscriber, Goto, Attempting
    <3> QED BY <1>4, <3>1, <3>2, <3>3, <3>4, <3>5, Zenon DEF PlayerStep
  <2>3. AttemptOK'
    BY ONLY <1>0, <2>1, <2>2 DEF AttemptOK
  <2> QED BY ONLY <1>0, <1>1, <2>1, <2>3 DEF UnkilledOK, GivesUpOwnPull
<1> QED BY <1>2, <1>3, <1>4

----------------------------------------------------------------------------
\* The steps of the supervisor, its delayed stops, the API and the pull tasks.

OtherStep ==
  \/ ProxyStep(closeStream) \/ ProxyStep(SpawnPull)
  \/ \E t \in Tasks : ProxyStep(PullStep(t)) \/ ProxyStep(Upstream(t))
  \/ ApiAdd \/ ApiRemove \/ SupervisorStep \/ LoseEvent
  \/ \E k \in Reapers : ReaperStep(k)

\* An aborted stop is done, or goes on where it was.
LEMMA AbortedType ==
  ASSUME reaper \in [Reapers -> ReaperStates], pending \in Reapers \cup {0},
         NEW r \in Aborted(pending)
  PROVE  r \in [Reapers -> ReaperStates]
BY DEF Aborted, ReaperStates

\* They act on the table as StreamProxy allows.
LEMMA OtherTable == ASSUME EdgeInv, OtherStep PROVE EdgeProxyStep
<1>1. CASE ProxyStep(closeStream) \/ ProxyStep(SpawnPull)
  BY <1>1, Zenon DEF ProxyStep, closeStream, SpawnPull, tableVars, edgeVars, EdgeProxyStep,
     ProxyNext, ApiNext, ServerNext
<1>2. ASSUME NEW t \in Tasks, ProxyStep(PullStep(t)) \/ ProxyStep(Upstream(t))
      PROVE  EdgeProxyStep
  BY <1>2, Zenon DEF ProxyStep, EdgeProxyStep, ProxyNext, ServerNext
<1>3. CASE ApiAdd
  <2>1. addStreamProxy
    BY <1>3, Zenon DEF ApiAdd, AddedBy, addStreamProxy
  <2> QED BY <1>3, <2>1 DEF ApiAdd, EdgeProxyStep, ProxyNext, ApiNext
<1>4. CASE ApiRemove
  <2>1. remove /\ UNCHANGED <<registryVars, apiAdds, apiCloses>> /\ RemovedBy("api")
    BY <1>4 DEF ApiRemove, RemovedBy
  <2> QED BY <2>1, RemoveIsDel, Zenon DEF EdgeInv, EdgeProxyStep
<1>5. CASE SupervisorStep \/ LoseEvent
  BY <1>5, Zenon DEF SupervisorStep, OnStreamPlay, OnNoReader, LoseEvent, NoProxyStep, proxyVars,
     history, EdgeProxyStep
<1>6. ASSUME NEW k \in Reapers, ReaperStep(k) PROVE EdgeProxyStep
  <2>1. CASE ReaperRemoves(k)
    <3>1. remove /\ UNCHANGED <<registryVars, apiAdds, apiCloses>> /\ RemovedBy("reaper")
      BY <2>1 DEF ReaperRemoves, RemovedBy
    <3> QED BY <3>1, RemoveIsDel, Zenon DEF EdgeInv, EdgeProxyStep
  <2>2. CASE ReaperCloses(k)
    BY <2>2 DEF ReaperCloses, Stay, tableVars, history, EdgeProxyStep
  <2>3. CASE ~ ReaperRemoves(k) /\ ~ ReaperCloses(k)
    BY <1>6, <2>3, Zenon DEF ReaperStep, ReaperWakes, ReaperTestsDemand, ReaperHookDone,
       ReaperCounts, NoProxyStep, proxyVars, history, EdgeProxyStep
  <2> QED BY <2>1, <2>2, <2>3
<1> QED BY <1>1, <1>2, <1>3, <1>4, <1>5, <1>6 DEF OtherStep

\* They leave the players alone, and keep the types.
LEMMA OtherTypes == ASSUME EdgeInv, OtherStep PROVE EdgeTypes' /\ NoPlayerStep
<1> USE DEF EdgeInv, EdgeTypes, NoPlayerStep, NoReaperStep, history
<1>0. src \in Tasks \cup {NoTask}
  BY DEF ProxyInv, ProxyTypeOK
<1>1. ASSUME UNCHANGED edgeVars PROVE EdgeTypes' /\ NoPlayerStep
  BY <1>1 DEF edgeVars
<1>2. CASE ApiAdd
  <2>1. adder' \in [Tasks -> Players \cup {"api", "nobody"}] /\ UNCHANGED <<served, killer>>
    BY <1>2 DEF ApiAdd, AddedBy
  <2> QED BY <1>2, <2>1 DEF ApiAdd
<1>3. CASE ApiRemove
  <2>1. killer' \in [Tasks -> Players \cup {"api", "reaper", "nobody"}]
    BY <1>3 DEF ApiRemove, RemovedBy
  <2> QED BY <1>3, <2>1 DEF ApiRemove, RemovedBy
<1>4. CASE OnStreamPlay
  <2>1. reaper' \in [Reapers -> ReaperStates]
    BY <1>4, AbortedType DEF OnStreamPlay
  <2>2. events' \in Seq({"StreamPlay", "NoReader"})
    BY <1>4 DEF OnStreamPlay
  <2> QED BY <1>4, <2>1, <2>2 DEF OnStreamPlay
<1>5. CASE OnNoReader
  <2>1. PICK k \in Reapers : \E r \in Aborted(pending) :
          reaper' = [r EXCEPT ![k] = "sleep"] /\ pending' = k
    BY <1>5, Zenon DEF OnNoReader
  <2>2. reaper' \in [Reapers -> ReaperStates]
    BY <2>1, AbortedType DEF ReaperStates
  <2>3. events' \in Seq({"StreamPlay", "NoReader"})
    BY <1>5 DEF OnNoReader
  <2> QED BY <1>5, <2>1, <2>2, <2>3 DEF OnNoReader
<1>6. CASE LoseEvent
  <2>1. events' \in Seq({"StreamPlay", "NoReader"})
    BY <1>6 DEF LoseEvent
  <2> QED BY <1>6, <2>1 DEF LoseEvent
<1>7. ASSUME NEW k \in Reapers, ReaperStep(k) PROVE EdgeTypes' /\ NoPlayerStep
  <2> USE DEF Reap, ReaperStates
  <2>1. CASE ReaperWakes(k)
    BY <1>0, <2>1 DEF ReaperWakes
  <2>2. CASE ReaperTestsDemand(k)
    BY <2>2, Zenon DEF ReaperTestsDemand
  <2>3. CASE ReaperHookDone(k)
    BY <2>3 DEF ReaperHookDone
  <2>4. CASE ReaperCounts(k)
    BY <2>4 DEF ReaperCounts
  <2>5. CASE ReaperRemoves(k)
    <3>1. killer' \in [Tasks -> Players \cup {"api", "reaper", "nobody"}]
      BY <2>5 DEF ReaperRemoves, RemovedBy
    <3> QED BY <2>5, <3>1 DEF ReaperRemoves, RemovedBy
  <2>6. CASE ReaperCloses(k)
    BY <2>6 DEF ReaperCloses
  <2> QED BY <1>7, <2>1, <2>2, <2>3, <2>4, <2>5, <2>6, Zenon DEF ReaperStep
<1> QED BY <1>1, <1>2, <1>3, <1>4, <1>5, <1>6, <1>7, Zenon DEF OtherStep, ProxyStep, SupervisorStep

\* They never add or remove in a player's name.
LEMMA OtherAttempt ==
  ASSUME EdgeInv, OtherStep
  PROVE  (LockOK /\ HoldOK /\ AttemptOK /\ UnkilledOK /\ GivesUpOwnPull)'
<1> USE PlayersAssumption, NoTaskAssumption
<1>0. /\ active \in Tasks \cup {NoTask}
      /\ pull \in [Tasks -> PullStates]
      /\ adder \in [Tasks -> Players \cup {"api", "nobody"}]
  BY DEF EdgeInv, EdgeTypes, ProxyInv, ProxyTypeOK
<1>1. UNCHANGED <<pc, hold, origin, flight>>
  BY OtherTypes DEF NoPlayerStep
<1>2. LockOK /\ HoldOK /\ AttemptOK /\ UnkilledOK /\ GivesUpOwnPull
  BY DEF EdgeInv
<1>3. (LockOK /\ HoldOK)'
  BY ONLY <1>1, <1>2 DEF LockOK, HoldOK
<1>4. \A t \in Tasks : pull'[t] = "new" => pull[t] = "new"
  BY OtherTable, NeverNew DEF EdgeInv
<1>5. ASSUME UNCHANGED adder, active' \in {active, NoTask} PROVE AttemptOK'
  BY ONLY <1>1, <1>2, <1>5 DEF AttemptOK
<1>6. CASE ApiAdd
  <2>1. PICK t \in Tasks : /\ add_inner(t, FALSE)
                           /\ adder' = [adder EXCEPT ![t] = "api"]
                           /\ killer' = killer
    BY <1>6, Zenon DEF ApiAdd, AddedBy
  <2>2. active' = t /\ adder'[t] = "api" /\ \A u \in Tasks \ {t} : adder'[u] = adder[u]
    BY ONLY <1>0, <2>1 DEF add_inner
  <2>3. AttemptOK'
    BY ONLY <1>1, <1>2, <2>2 DEF AttemptOK
  <2>4. GivesUpOwnPull'
    BY ONLY <1>2, <2>1, <2>2 DEF GivesUpOwnPull
  <2>5. UnkilledOK'
    BY ONLY <1>2, <1>4, <2>1 DEF UnkilledOK
  <2> QED BY ONLY <1>3, <2>3, <2>4, <2>5
<1>7. ASSUME NEW who \in {"api", "reaper"}, RemovedBy(who)
      PROVE  (AttemptOK /\ UnkilledOK /\ GivesUpOwnPull)'
  <2>1. active' = NoTask /\ adder' = adder
    BY ONLY <1>7 DEF RemovedBy, remove
  <2>2. \A t \in Tasks : killer'[t] = IF t = active THEN who ELSE killer[t]
    BY ONLY <1>7 DEF RemovedBy
  <2>3. \A t \in Tasks : active = t => pull[t] # "new"
    BY DEF EdgeInv, ProxyInv, ListReflectsReality
  <2>4. UnkilledOK'
    BY ONLY <1>2, <1>4, <2>2, <2>3 DEF UnkilledOK
  <2>5. who \notin Players
    BY ONLY PlayersAssumption, who \in {"api", "reaper"}
  <2>6. GivesUpOwnPull'
    BY ONLY <1>2, <2>1, <2>2, <2>5 DEF GivesUpOwnPull
  <2> QED BY ONLY <1>5, <2>1, <2>4, <2>6
<1>8. CASE UNCHANGED <<adder, killer>> /\ active' \in {active, NoTask}
  <2>1. UnkilledOK' /\ GivesUpOwnPull'
    BY ONLY <1>2, <1>4, <1>8 DEF UnkilledOK, GivesUpOwnPull
  <2> QED BY ONLY <1>3, <1>5, <1>8, <2>1
<1>9. \/ ApiAdd \/ RemovedBy("api") \/ RemovedBy("reaper")
      \/ UNCHANGED <<adder, killer>> /\ active' \in {active, NoTask}
  <2>1. CASE ProxyStep(closeStream) \/ ProxyStep(SpawnPull)
    BY ONLY <2>1, Zenon DEF ProxyStep, edgeVars, closeStream, SpawnPull, tableVars
  <2>2. ASSUME NEW t \in Tasks, ProxyStep(PullStep(t)) \/ ProxyStep(Upstream(t))
        PROVE  UNCHANGED <<adder, killer>> /\ active' \in {active, NoTask}
    BY ONLY <2>2 DEF ProxyStep, edgeVars, PullStep, Upstream, Register, StartLoop,
       CheckStopped, Park, RemoveEntry, CloseOwnStream, rollback, remove_if_belongs_to,
       UpstreamData, UpstreamEnd, Stay, tableVars
  <2>3. CASE ApiRemove
    BY ONLY <2>3 DEF ApiRemove
  <2>4. CASE SupervisorStep \/ LoseEvent
    BY ONLY <2>4 DEF SupervisorStep, OnStreamPlay, OnNoReader, LoseEvent, NoProxyStep,
       proxyVars, history
  <2>5. ASSUME NEW k \in Reapers, ReaperStep(k)
        PROVE  \/ RemovedBy("reaper")
               \/ UNCHANGED <<adder, killer>> /\ active' \in {active, NoTask}
    BY ONLY <2>5, Zenon DEF ReaperStep, ReaperWakes, ReaperTestsDemand, ReaperHookDone,
       ReaperCounts, ReaperRemoves, ReaperCloses, NoProxyStep, proxyVars, Stay, tableVars,
       history
  <2> QED BY <2>1, <2>2, <2>3, <2>4, <2>5 DEF OtherStep
<1> QED BY ONLY <1>3, <1>6, <1>7, <1>8, <1>9

----------------------------------------------------------------------------
\* The inductive invariant holds of players, supervisor, table and registry in
\* every behaviour.
THEOREM EdgeInvariant == Spec => []EdgeInv
<1>1. ASSUME EdgeInv, Next PROVE EdgeInv'
  <2>1. OtherStep \/ \E p \in Players : GetOrPull(p) \/ PlayerStep(p) \/ RemoveSubscriber(p)
    BY <1>1 DEF Next, OtherStep
  <2>2. CASE OtherStep
    BY <1>1, <2>2, OtherTable, OtherTypes, OtherAttempt, EdgeProxyInv DEF EdgeInv
  <2>3. ASSUME NEW p \in Players, GetOrPull(p) \/ PlayerStep(p) \/ RemoveSubscriber(p)
        PROVE  EdgeInv'
    BY <1>1, <2>3, PlayerTable, PlayerTypes, PlayerLock, PlayerAttempt, EdgeProxyInv, Zenon
       DEF EdgeInv
  <2> QED BY <2>1, <2>2, <2>3
<1>2. ASSUME EdgeInv, UNCHANGED vars PROVE EdgeInv'
  <2>1. ProxyInv'
    BY <1>2, EdgeProxyInv DEF EdgeInv, EdgeProxyStep, vars
  <2> QED BY <1>2, <2>1 DEF EdgeInv, EdgeTypes, LockOK, AttemptOK, HoldOK, UnkilledOK,
             GivesUpOwnPull, vars, edgeVars, proxyVars
<1> QED BY <1>1, <1>2, EdgeInit, PTL DEF Spec

\* Every variable of the edge node keeps its type.
THEOREM EdgeTypeTheorem == Spec => []TypeOK
<1>1. EdgeInv => TypeOK
  BY DEF EdgeInv, ProxyInv, TypeOK
<1> QED BY <1>1, EdgeInvariant, PTL

\* The list of proxies and the registry keep telling the truth when players pull
\* on demand and the idle stop removes entries and closes streams, and the
\* unconditional remove after a failed attempt in get_or_pull never takes down
\* another player's pull, for any number of players, origins and tasks.
THEOREM PullsTheorem == Spec => []PullsOwned
<1>1. EdgeInv => PullsOwned
  BY DEF EdgeInv, ProxyInv, PullsOwned, TableHonest
<1> QED BY <1>1, EdgeInvariant, PTL

-----------------------------------------------------------------------------
(* FFmpeg sources. *)

FfSpec == FfInit /\ [][FfNext]_ffVars

FfTypeOK ==
  /\ ffActive \in SUBSET FfKeys
  /\ ffQueue \in Seq(FfKeys)
  /\ ffAdding \in [FfCalls -> FfKeys \cup {NoKey}]
  /\ ffProcs \in Seq({"running", "finished", "killed"})
  /\ ffOwner \in Seq(FfKeys)
  /\ Len(ffOwner) = Len(ffProcs)
  /\ ffChildren \in [FfKeys -> 0 .. Len(ffProcs)]

\* A process that runs is the child that the supervisor has for its key.
FfRunningIsChild ==
  \A p \in 1 .. Len(ffProcs) : ffProcs[p] = "running" => ffChildren[ffOwner[p]] = p

\* A child was started for the key that it is kept under.
FfChildOwned == \A k \in FfKeys : ffChildren[k] > 0 => ffOwner[ffChildren[k]] = k

\* The inductive invariant.
FfInv == FfTypeOK /\ FfRunningIsChild /\ FfChildOwned /\ FfEntryBacked

\* A command keeps the types and starts or ends processes of its key only.
LEMMA FfSupervise ==
  ASSUME FfInv, NEW spawned \in BOOLEAN, supervise(spawned)
  PROVE  FfInv'
<1> DEFINE k == Head(ffQueue)
           old == ffChildren[k]
           procs == IF spawned THEN Append(replaced(old), "running") ELSE ffProcs
           children == IF spawned THEN [ffChildren EXCEPT ![k] = Len(procs)] ELSE ffChildren
           listed == IF spawned THEN ffActive ELSE ffActive \ {k}
           done == Finished(procs, children)
<1> USE DEF FfInv, FfTypeOK
<1>1. /\ ffQueue # <<>>
      /\ ffQueue' = Tail(ffQueue)
      /\ ffProcs' = procs
      /\ ffOwner' = IF spawned THEN Append(ffOwner, k) ELSE ffOwner
      /\ ffActive' = listed \ done
      /\ ffChildren' = [j \in FfKeys |-> IF j \in done THEN 0 ELSE children[j]]
      /\ ffAdding' = ffAdding
  BY DEF supervise, unlisted
<1>2. /\ k \in FfKeys
      /\ Tail(ffQueue) \in Seq(FfKeys)
      /\ Len(Tail(ffQueue)) = Len(ffQueue) - 1
      /\ \A i \in 2 .. Len(ffQueue) : Tail(ffQueue)[i - 1] = ffQueue[i]
      /\ k = ffQueue[1]
  BY <1>1
<1>3. /\ replaced(old) \in Seq({"running", "finished", "killed"})
      /\ Len(replaced(old)) = Len(ffProcs)
      /\ \A p \in 1 .. Len(ffProcs) :
           replaced(old)[p] = IF p = old /\ ffProcs[p] = "running" THEN "killed" ELSE ffProcs[p]
  <2>1. Len(ffProcs) \in Nat /\ DOMAIN ffProcs = 1 .. Len(ffProcs)
    OBVIOUS
  <2>2. replaced(old) = [p \in 1 .. Len(ffProcs) |->
                           IF p = old /\ ffProcs[p] = "running" THEN "killed" ELSE ffProcs[p]]
    BY <2>1 DEF replaced
  <2>3. \A p \in 1 .. Len(ffProcs) : ffProcs[p] \in {"running", "finished", "killed"}
    OBVIOUS
  <2> QED BY ONLY <2>1, <2>2, <2>3
<1>4. /\ procs \in Seq({"running", "finished", "killed"})
      /\ Len(procs) = IF spawned THEN Len(ffProcs) + 1 ELSE Len(ffProcs)
      /\ children \in [FfKeys -> 0 .. Len(procs)]
  <2>1. Len(ffProcs) \in Nat
    OBVIOUS
  <2>2. CASE spawned
    <3>1. /\ procs \in Seq({"running", "finished", "killed"})
          /\ Len(procs) = Len(ffProcs) + 1
      BY <2>2, <1>3
    <3> HIDE DEF procs
    <3>2. children \in [FfKeys -> 0 .. Len(procs)]
      <4>1. /\ children = [ffChildren EXCEPT ![k] = Len(procs)]
            /\ k \in FfKeys
            /\ ffChildren \in [FfKeys -> 0 .. Len(ffProcs)]
        BY <2>2, <1>2
      <4>2. \A j \in FfKeys : ffChildren[j] \in 0 .. Len(procs)
        BY <4>1, <3>1, <2>1
      <4>3. Len(procs) \in 0 .. Len(procs)
        BY <3>1, <2>1
      <4> QED BY ONLY <4>1, <4>2, <4>3
    <3> QED BY <2>2, <3>1, <3>2
  <2>3. CASE ~ spawned
    BY <2>3
  <2> QED BY <2>2, <2>3
<1>5. done \in SUBSET FfKeys
  BY DEF Finished
<1> HIDE DEF procs, children, done, old
<1>6. FfTypeOK'
  BY <1>1, <1>2, <1>4, <1>5, SMTT(20)
<1>7. /\ \A p \in 1 .. Len(procs) : procs[p] = "running" => children[ffOwner'[p]] = p
      /\ \A j \in FfKeys : children[j] > 0 => ffOwner'[children[j]] = j
  <2>1. CASE spawned
    BY <2>1, <1>1, <1>2, <1>3, <1>4, SMTT(20) DEF procs, children, old, FfRunningIsChild, FfChildOwned
  <2>2. CASE ~ spawned
    BY <2>2, <1>1, <1>2 DEF procs, children, FfRunningIsChild, FfChildOwned
  <2> QED BY <2>1, <2>2, Zenon
<1>8. FfRunningIsChild'
  <2> SUFFICES ASSUME NEW p \in 1 .. Len(procs), procs[p] = "running"
               PROVE  ffChildren'[ffOwner'[p]] = p
    BY <1>1, Zenon DEF FfRunningIsChild
  <2>1. children[ffOwner'[p]] = p /\ ffOwner'[p] \in FfKeys
    <3>1. ffOwner' \in Seq(FfKeys) /\ Len(ffOwner') = Len(procs)
      BY <1>1, <1>6
    <3>2. ffOwner'[p] \in FfKeys
      BY ONLY <3>1, SMTT(20)
    <3> QED BY <1>7, <3>2, Zenon
  <2>2. ffOwner'[p] \notin done
    BY <2>1 DEF Finished, done
  <2> QED BY <2>1, <2>2, <1>1, Zenon
<1>9. FfChildOwned'
  <2> SUFFICES ASSUME NEW j \in FfKeys, ffChildren'[j] > 0
               PROVE  ffOwner'[ffChildren'[j]] = j
    BY DEF FfChildOwned
  <2>1. ffChildren'[j] = children[j]
    BY <1>1
  <2> QED BY <2>1, <1>7, Zenon
<1>10. FfEntryBacked'
  <2> SUFFICES ASSUME NEW j \in ffActive'
               PROVE  \/ \E i \in 1 .. Len(ffQueue') : ffQueue'[i] = j
                      \/ ffChildren'[j] > 0
    BY Zenon DEF FfEntryBacked
  <2>1. j \in ffActive /\ j \in FfKeys /\ j \notin done /\ (spawned \/ j # k)
    BY <1>1
  <2>2. children[j] > 0 => ffChildren'[j] > 0
    BY <2>1, <1>1, Zenon
  <2>3. CASE \E i \in 1 .. Len(ffQueue) : ffQueue[i] = j
    <3>1. PICK i \in 1 .. Len(ffQueue) : ffQueue[i] = j
      BY <2>3, Zenon
    <3>2. CASE i = 1
      <4>1. spawned /\ j = k
        BY <3>1, <3>2, <1>2, <2>1, Zenon
      <4>2. children[j] = Len(procs) /\ Len(procs) > 0
        <5>1. children = [ffChildren EXCEPT ![k] = Len(procs)] /\ DOMAIN ffChildren = FfKeys
          BY <4>1, Zenon DEF children
        <5>2. Len(procs) > 0
          BY <4>1, <1>4
        <5> QED BY <4>1, <1>2, <5>1, <5>2, Zenon
      <4> QED BY <4>2, <2>2, Zenon
    <3>3. CASE i # 1
      <4>1. i \in 2 .. Len(ffQueue) /\ i - 1 \in 1 .. (Len(ffQueue) - 1)
        BY <3>3
      <4>2. i - 1 \in 1 .. Len(ffQueue') /\ ffQueue'[i - 1] = j
        BY <4>1, <3>1, <1>1, <1>2, Zenon
      <4> QED BY <4>2, Zenon
    <3> QED BY <3>2, <3>3
  <2>4. CASE ffChildren[j] > 0
    BY <2>1, <2>2, <2>4, <1>2, <1>4 DEF children
  <2> QED BY <2>1, <2>3, <2>4, Zenon DEF FfEntryBacked
<1> QED BY <1>6, <1>8, <1>9, <1>10

\* Every step of handlers, processes and supervisor keeps the invariant.
LEMMA FfStep == FfInv /\ [FfNext]_ffVars => FfInv'
<1> SUFFICES ASSUME FfInv, [FfNext]_ffVars PROVE FfInv'
  OBVIOUS
<1> USE DEF FfInv, FfTypeOK, FfRunningIsChild, FfChildOwned, FfEntryBacked
<1>1. ASSUME NEW c \in FfCalls, NEW k \in FfKeys, add_check(c, k) PROVE FfInv'
  BY <1>1, Zenon DEF add_check
<1>2. ASSUME NEW c \in FfCalls, add_insert(c) PROVE FfInv'
  <2> DEFINE k == ffAdding[c]
  <2>1. /\ k \in FfKeys
        /\ ffQueue' \in Seq(FfKeys)
        /\ Len(ffQueue') = Len(ffQueue) + 1
        /\ ffQueue'[Len(ffQueue) + 1] = k
        /\ \A i \in 1 .. Len(ffQueue) : ffQueue'[i] = ffQueue[i]
    BY <1>2 DEF add_insert
  <2>2. FfTypeOK'
    BY <1>2, <2>1, Zenon DEF add_insert
  <2>3. FfEntryBacked'
    BY <1>2, <2>1 DEF add_insert
  <2> QED BY <1>2, <2>2, <2>3, Zenon DEF add_insert
<1>3. ASSUME NEW k \in FfKeys, ff_remove(k) PROVE FfInv'
  BY <1>3, Zenon DEF ff_remove
<1>4. ASSUME NEW p \in 1 .. MaxProcesses, process_ends(p) PROVE FfInv'
  <2>1. /\ ffProcs' \in Seq({"running", "finished", "killed"}) /\ Len(ffProcs') = Len(ffProcs)
        /\ \A q \in 1 .. Len(ffProcs) : ffProcs'[q] = "running" => ffProcs[q] = "running"
    BY <1>4 DEF process_ends
  <2> QED BY <1>4, <2>1, Zenon DEF process_ends
<1>5. ASSUME NEW b \in BOOLEAN, supervise(b) PROVE FfInv'
  BY <1>5, FfSupervise, Zenon
<1>6. CASE UNCHANGED ffVars
  BY <1>6, Zenon DEF ffVars
<1> QED BY <1>1, <1>2, <1>3, <1>4, <1>5, <1>6, Zenon DEF FfNext

\* The invariant holds in every reachable state.
THEOREM FfInvariant == FfSpec => []FfInv
<1>1. FfInit => FfInv
  BY DEF FfInit, FfInv, FfTypeOK, FfRunningIsChild, FfChildOwned, FfEntryBacked
<1> QED BY <1>1, FfStep, PTL DEF FfSpec

\* Behind every listed key there is a command or a process, and two processes
\* never push to the same stream, for any keys, calls and number of processes
\* (FFmpegSourceControl::add, run_ffmpeg_supervisor).
THEOREM FfTheorem == FfSpec => []FfAccounted
<1>1. FfInv => FfEntryBacked
  BY DEF FfInv
<1>2. FfInv => FfOneProcess
  BY DEF FfInv, FfTypeOK, FfRunningIsChild, FfOneProcess
<1>3. FfInv => FfAccounted
  BY <1>1, <1>2 DEF FfAccounted
<1> QED BY <1>3, FfInvariant, PTL

=============================================================================
