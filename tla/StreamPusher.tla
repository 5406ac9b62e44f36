--------------------------- MODULE StreamPusher ----------------------------
(***************************************************************************)
(* The stream pushers of one stream key, over the publishers of module     *)
(* Publishing: the control table of core/src/stream_pusher.rs, its command *)
(* queue, run_pusher_supervisor of server/src/main.rs, which parks a       *)
(* pusher until its stream is published, and the push tasks (one shape for *)
(* the RTMP, RTSP, SRT and WHIP push clients).                             *)
(*                                                                         *)
(* A pusher stands for the two Arcs of its entry (stop, stopped).          *)
(***************************************************************************)
EXTENDS Publishing

CONSTANTS Pushers, NoPusher

ASSUME NoPusherAssumption == NoPusher \notin Pushers
ASSUME PusherWatches == "pusher" \in Watchers

VARIABLES active,    \* the table entry of the key: its pusher, or NoPusher
          cmds,      \* commands on their way to the supervisor
          pending,   \* the pusher parked for the key, or NoPusher
          push,      \* push[t]: where pusher t is
          stopped,   \* stopped[t]: its stop flag
          feed       \* feed[t]: the source that t reads, or 0

pushVars == <<active, cmds, pending, push, stopped, feed>>
pusherVars == <<pubVars, pushVars>>

\* "busy": connecting, looking at the flag or writing a frame; "parked": waiting
\* in select!; "lost": its command was overwritten in pending.
PushPlaces == {"new", "queued", "pending", "lost", "starting", "busy", "parked",
               "exiting", "ended"}

PusherInit ==
  /\ PubInit
  /\ active = NoPusher
  /\ cmds = << >>
  /\ pending = NoPusher
  /\ push = [t \in Pushers |-> "new"]
  /\ stopped = [t \in Pushers |-> FALSE]
  /\ feed = [t \in Pushers |-> 0]

----------------------------------------------------------------------------
\* StreamPusherControl

add(t) ==
  /\ "pusher" \in started
  /\ active = NoPusher
  /\ push[t] = "new"
  /\ active' = t
  /\ cmds' = Append(cmds, t)
  /\ push' = [push EXCEPT ![t] = "queued"]
  /\ UNCHANGED <<pubVars, pending, stopped, feed>>

\* remove: the flag is set and the pusher woken if it waits in select!.
remove ==
  /\ active # NoPusher
  /\ active' = NoPusher
  /\ stopped' = [stopped EXCEPT ![active] = TRUE]
  /\ push' = [push EXCEPT ![active] = IF @ = "parked" THEN "exiting" ELSE @]
  /\ UNCHANGED <<pubVars, cmds, pending, feed>>

----------------------------------------------------------------------------
\* run_pusher_supervisor: one task that takes commands and events in turn.

\* Mutant: a command is parked without a look at the registry.
TakeCmd_parks ==
  /\ cmds # << >>
  /\ cmds' = Tail(cmds)
  /\ pending' = Head(cmds)
  /\ push' = [push EXCEPT ![Head(cmds)] = "pending"]
  /\ UNCHANGED <<pubVars, active, stopped, feed>>

\* A command for a live stream starts a push; any other is parked, in the place
\* of the one parked before.
TakeCmd ==
  /\ cmds # << >>
  /\ cmds' = Tail(cmds)
  /\ \/ /\ src # 0
        /\ push' = [push EXCEPT ![Head(cmds)] = "starting"]
        /\ UNCHANGED pending
     \/ /\ src = 0
        /\ pending' = Head(cmds)
        /\ push' = [t \in Pushers |-> IF t = Head(cmds) THEN "pending"
                                      ELSE IF t = pending THEN "lost" ELSE push[t]]
  /\ UNCHANGED <<pubVars, active, stopped, feed>>

\* StreamPublish starts the parked push; the other events are ignored.
TakeEvent ==
  /\ bus["pusher"] # << >>
  /\ bus' = [bus EXCEPT !["pusher"] = Tail(@)]
  /\ IF Head(bus["pusher"]) = "pub" /\ pending # NoPusher
     THEN /\ push' = [push EXCEPT ![pending] = "starting"]
          /\ pending' = NoPusher
     ELSE UNCHANGED <<push, pending>>
  /\ UNCHANGED <<registry, session, started, missed, last, closes, active, cmds, stopped, feed>>

----------------------------------------------------------------------------
\* spawn_push_task and the push clients.

\* The client takes the registered source; without one it fails.  The remote
\* end may refuse it before or after that.
StartPush(t) ==
  /\ push[t] = "starting"
  /\ \/ /\ src # 0
        /\ feed' = [feed EXCEPT ![t] = src]
        /\ push' = [push EXCEPT ![t] = "busy"]
     \/ /\ push' = [push EXCEPT ![t] = "exiting"]
        /\ UNCHANGED feed
  /\ UNCHANGED <<pubVars, active, cmds, pending, stopped>>

\* The flag is read between two waits.  RTSP and SRT read it after a wait only,
\* so they may wait again with the flag set.
CheckStopped(t) ==
  /\ push[t] = "busy"
  /\ \/ push' = [push EXCEPT ![t] = "parked"]
     \/ stopped[t] /\ push' = [push EXCEPT ![t] = "exiting"]
  /\ UNCHANGED <<pubVars, active, cmds, pending, stopped, feed>>

\* A frame arrives, or the tick of the WHIP client; writing it out may fail, and
\* RTSP and SRT see the flag.  The frames left when the source closes count as
\* received before.
SendFrame(t) ==
  /\ push[t] = "parked"
  /\ ~ closed[feed[t]]
  /\ \E next \in {"busy", "exiting"} : push' = [push EXCEPT ![t] = next]
  /\ UNCHANGED <<pubVars, active, cmds, pending, stopped, feed>>

RecvClosed(t) ==
  /\ push[t] = "parked"
  /\ closed[feed[t]]
  /\ push' = [push EXCEPT ![t] = "exiting"]
  /\ UNCHANGED <<pubVars, active, cmds, pending, stopped, feed>>

\* The end of the spawned block: active.remove(&key), whoever has the entry.
FinishPush(t) ==
  /\ push[t] = "exiting"
  /\ push' = [push EXCEPT ![t] = "ended"]
  /\ active' = NoPusher
  /\ feed' = [feed EXCEPT ![t] = 0]
  /\ UNCHANGED <<pubVars, cmds, pending, stopped>>

PushStep(t) == StartPush(t) \/ CheckStopped(t) \/ SendFrame(t) \/ RecvClosed(t) \/ FinishPush(t)

PusherNext ==
  \/ PubNext /\ UNCHANGED pushVars
  \/ (\E t \in Pushers : add(t)) \/ remove
  \/ TakeCmd \/ TakeEvent
  \/ \E t \in Pushers : PushStep(t)

PusherSpec == PusherInit /\ [][PusherNext]_pusherVars

----------------------------------------------------------------------------
\* The type invariant: sessions, bus, pusher table, supervisor and push tasks.
PusherTypeOK ==
  /\ PubTypeOK
  /\ active \in Pushers \cup {NoPusher}
  /\ cmds \in Seq(Pushers)
  /\ pending \in Pushers \cup {NoPusher}
  /\ push \in [Pushers -> PushPlaces]
  /\ stopped \in [Pushers -> BOOLEAN]
  /\ feed \in [Pushers -> 0 .. made]

\* A parked pusher misses no publication.  As long as the event bus did not
\* overrun the supervisor, a pusher is parked beside a registered source only
\* while the event that will start it is on its way: some session has not yet
\* announced (or never will: SRT, or one that broke off), is taking its source
\* away again, or its StreamPublish is in the supervisor's queue.
NoMissedPublish ==
  pending # NoPusher /\ src # 0 /\ ~ missed["pusher"]
    => \/ \E p \in Sessions : ~ Settled(p)
       \/ \E i \in 1 .. Len(bus["pusher"]) : bus["pusher"][i] = "pub"
=============================================================================
