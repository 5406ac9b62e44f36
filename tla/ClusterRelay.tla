---------------------------- MODULE ClusterRelay ---------------------------
(***************************************************************************)
(* The cluster relay of one stream key to one peer, over the publishers of *)
(* Publishing: run_cluster_push_relay and run_cluster_relay_task of        *)
(* server/src/main.rs, with the RTMP push client that they run.  Peers do  *)
(* not interact.                                                           *)
(*                                                                         *)
(* A relay stands for the two Arcs of a ClusterRelayTask (stop, stopped).  *)
(* The task waits for stop around a whole attempt, so the signal is missed *)
(* only between the look at the flag and that wait.                        *)
(***************************************************************************)
EXTENDS Publishing

CONSTANTS Relays, NoRelay

ASSUME NoRelayAssumption == NoRelay \notin Relays
ASSUME RelayWatches == "relay" \in Watchers

VARIABLES entry,    \* the relay that tasks holds for the key and peer
          relay,    \* relay[t]: where task t is
          halted,   \* halted[t]: its stop flag
          source    \* source[t]: the source that t pushes, or 0

relayVars == <<entry, relay, halted, source>>

\* "check"    reads the flag and the registry
\* "entering" goes for an attempt, does not wait for stop yet
\* "dialing"  connects; "pushing": forwards frames
\* "failed"   the attempt is over
\* "resting"  goes for the backoff, does not wait for stop yet
\* "backoff"  sleeps
RelayPlaces == {"none", "check", "entering", "dialing", "pushing", "failed",
                "resting", "backoff", "ended"}
Relaying(t) == relay[t] \notin {"none", "ended"}

RelayInit ==
  /\ entry = NoRelay
  /\ relay = [t \in Relays |-> "none"]
  /\ halted = [t \in Relays |-> FALSE]
  /\ source = [t \in Relays |-> 0]

----------------------------------------------------------------------------
\* run_cluster_push_relay

\* Mutant: a publish starts a relay, whatever tasks holds.
RelayPublish_always ==
  /\ \E t \in Relays :
       /\ relay[t] = "none"
       /\ relay' = [relay EXCEPT ![t] = "check"]
       /\ entry' = t
  /\ UNCHANGED halted

\* StreamPublish starts a relay unless there is one.
RelayPublish ==
  \/ /\ entry = NoRelay
     /\ \E t \in Relays :
          /\ relay[t] = "none"
          /\ relay' = [relay EXCEPT ![t] = "check"]
          /\ entry' = t
     /\ UNCHANGED halted
  \/ /\ entry # NoRelay
     /\ UNCHANGED <<entry, relay, halted>>

\* StreamUnPublish drops the entry, sets its flag and wakes the task.
RelayUnPublish ==
  /\ entry' = NoRelay
  /\ halted' = [t \in Relays |-> halted[t] \/ t = entry]
  /\ relay' = [t \in Relays |->
                 IF t = entry /\ relay[t] \in {"dialing", "pushing", "backoff"}
                 THEN "ended" ELSE relay[t]]

TakeRelayEvent ==
  /\ bus["relay"] # << >>
  /\ bus' = [bus EXCEPT !["relay"] = Tail(@)]
  /\ \/ Head(bus["relay"]) = "pub" /\ RelayPublish
     \/ Head(bus["relay"]) = "unpub" /\ RelayUnPublish
  /\ UNCHANGED <<registry, session, started, missed, last, closes, source>>

----------------------------------------------------------------------------
\* run_cluster_relay_task

GoRelay(t, place) ==
  /\ relay' = [relay EXCEPT ![t] = place]
  /\ UNCHANGED <<pubVars, entry, halted>>

\* The condition of the loop.
RelayCheck(t) ==
  /\ relay[t] = "check"
  /\ GoRelay(t, IF halted[t] \/ src = 0 THEN "ended" ELSE "entering")
  /\ UNCHANGED source

\* The task waits for stop from here on (twice in a round).
RelayWait(t) ==
  /\ \/ relay[t] = "entering" /\ GoRelay(t, "dialing")
     \/ relay[t] = "resting" /\ GoRelay(t, "backoff")
  /\ UNCHANGED source

\* The push client connects and then takes the registered source.
RelayDial(t) ==
  /\ relay[t] = "dialing"
  /\ \/ /\ src # 0
        /\ source' = [source EXCEPT ![t] = src]
        /\ GoRelay(t, "pushing")
     \/ GoRelay(t, "failed") /\ UNCHANGED source

\* Mutant: the client does not look at the flag.
RelayPush_blind(t) ==
  /\ relay[t] = "pushing"
  /\ closed[source[t]]
  /\ source' = [source EXCEPT ![t] = 0]
  /\ GoRelay(t, "failed")

\* It forwards frames until it is stopped or the source is closed ...
RelayPush(t) ==
  /\ relay[t] = "pushing"
  /\ halted[t] \/ closed[source[t]]
  /\ source' = [source EXCEPT ![t] = 0]
  /\ GoRelay(t, "failed")

\* ... or the peer is lost.
RelayPeerLost(t) ==
  /\ relay[t] = "pushing"
  /\ source' = [source EXCEPT ![t] = 0]
  /\ GoRelay(t, "failed")

\* After the attempt: stopped, or no source any more, or try again.
RelayFailed(t) ==
  /\ relay[t] = "failed"
  /\ GoRelay(t, IF halted[t] \/ src = 0 THEN "ended" ELSE "resting")
  /\ UNCHANGED source

RelayRetry(t) ==
  /\ relay[t] = "backoff"
  /\ GoRelay(t, "check")
  /\ UNCHANGED source

RelayStep(t) ==
  RelayCheck(t) \/ RelayWait(t) \/ RelayDial(t) \/ RelayPush(t) \/ RelayFailed(t) \/ RelayRetry(t)

RelayNext == TakeRelayEvent \/ \E t \in Relays : RelayStep(t) \/ RelayPeerLost(t)

----------------------------------------------------------------------------
RelayTypeOK ==
  /\ entry \in Relays \cup {NoRelay}
  /\ relay \in [Relays -> RelayPlaces]
  /\ halted \in [Relays -> BOOLEAN]
  /\ source \in [Relays -> 0 .. made]

\* At most one relay of the stream to the peer runs that was not told to stop,
\* and it is the one in tasks: a second one would publish the same remote stream.
OneRelay ==
  \A t \in Relays : Relaying(t) /\ ~ halted[t] => entry = t

\* A relay that was told to stop ends, even if it missed the signal.
RelayStops == \A t \in Relays : halted[t] ~> ~ Relaying(t)

\* "keeps it connected with bounded exponential backoff until unpublish": a
\* stream that stays published is being relayed.
RelayWhilePublished ==
  <>[](src # 0 /\ last = "pub" /\ (\A p \in Sessions : Settled(p)) /\ ~ missed["relay"])
    => []<>(\E t \in Relays : Relaying(t))
=============================================================================
