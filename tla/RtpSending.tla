----------------------------- MODULE RtpSending -----------------------------
(***************************************************************************)
(* The RTP senders of one media source: RtpSenderManager and RtpTransport  *)
(* of core/src/rtp.rs, with the HTTP calls startSendRtp and stopSendRtp.   *)
(* A sender is the call that started it (its token).  A call checks the    *)
(* table, opens its transport and only then writes the table, so calls     *)
(* overlap; the task checks the stopped flag and then arms its wait, so a  *)
(* stop may come in between.                                               *)
(***************************************************************************)
EXTENDS Integers, Sequences, FiniteSets

CONSTANTS Requests,    \* Requests[t]: what call t asks for
          MaxGop,      \* bound: frames replayed when a sender attaches
          MaxPackets,  \* bound: packets of a frame
          MaxQueue,    \* bound: frames a receiver holds before it lags
          MaxSourceFrames    \* bound: frames published

ASSUME SendingBounds == {MaxGop, MaxPackets, MaxQueue, MaxSourceFrames} \subseteq Nat

VARIABLES
  sourceLive,    \* the source has not been closed
  framesOut,     \* frames published so far
  active,        \* active[k]: the sender listed under key k, or 0
  senderPc,      \* where each call, and later its task, is
  replay,        \* cached frames still to be sent
  packetsLeft,   \* packets of the frame in hand
  unread,        \* frames in the broadcast receiver
  stopped,       \* the flag of each entry
  woken,         \* notify_waiters reached the wait that the task had armed
  readers,       \* session ids that are subscribers of the source
  stopKeys,      \* keys that a running stop() has collected
  late           \* packets sent after the stop, per sender

sendVars == <<sourceLive, framesOut, active, senderPc, replay, packetsLeft, unread, stopped,
              woken, readers, stopKeys, late>>

Senders == DOMAIN Requests

\* RtpSenderManager::key
Key(r) == IF r.multi THEN <<r.ssrc, r.dst>> ELSE <<r.ssrc>>

KeyOf(t) == Key(Requests[t])
Keys == {KeyOf(t) : t \in Senders}

Goto(t, pc) == senderPc' = [senderPc EXCEPT ![t] = pc]

\* The task of a sender exists.
Running(t) == senderPc[t] \notin {"idle", "opening", "refused", "done"}

SendInit ==
  /\ sourceLive = TRUE
  /\ framesOut = 0
  /\ active = [k \in Keys |-> 0]
  /\ senderPc = [t \in Senders |-> "idle"]
  /\ replay = [t \in Senders |-> 0]
  /\ packetsLeft = [t \in Senders |-> 0]
  /\ unread = [t \in Senders |-> 0]
  /\ stopped = [t \in Senders |-> FALSE]
  /\ woken = [t \in Senders |-> FALSE]
  /\ readers = {}
  /\ stopKeys = {}
  /\ late = [t \in Senders |-> 0]

----------------------------------------------------------------------------
\* The call

\* startSendRtp and startSendRtpPassive: what the handler and start() refuse
\* before they look at the source.
Acceptable(r) ==
  /\ r.mode # "passive" => r.dst # "none"
  /\ ~ (r.mode = "passive" /\ r.udp)

\* start(), up to the check of the table.
start(t) ==
  /\ senderPc[t] = "idle"
  /\ Goto(t, IF /\ Acceptable(Requests[t])
                /\ sourceLive
                /\ active[KeyOf(t)] = 0
             THEN "opening" ELSE "refused")
  /\ UNCHANGED <<sourceLive, framesOut, active, replay, packetsLeft, unread, stopped, woken,
                 readers, stopKeys, late>>

\* start(), after the transport is open: the entry is written and the task spawned.
start_insert(t) ==
  /\ senderPc[t] = "opening"
  /\ \/ /\ active' = [active EXCEPT ![KeyOf(t)] = t]
        /\ Goto(t, "attach")
     \/ Goto(t, "refused") /\ UNCHANGED active
  /\ UNCHANGED <<sourceLive, framesOut, replay, packetsLeft, unread, stopped, woken, readers,
                 stopKeys, late>>

----------------------------------------------------------------------------
\* The task

\* add_subscriber, subscribe, get_latest_gop_frames.
task_attach(t) ==
  /\ senderPc[t] = "attach"
  /\ readers' = readers \cup {KeyOf(t)}
  /\ \E n \in 0 .. MaxGop : replay' = [replay EXCEPT ![t] = n]
  /\ Goto(t, "replay")
  /\ UNCHANGED <<sourceLive, framesOut, active, packetsLeft, unread, stopped, woken, stopKeys,
                 late>>

\* send_frame: a frame that is not eligible makes no packets.
send_frame(t) ==
  /\ \E n \in 0 .. MaxPackets : packetsLeft' = [packetsLeft EXCEPT ![t] = n]
  /\ Goto(t, "check")

\* Mutant: a failed frame of the replay ends the task without cleaning up.
send_failed_returns(t) ==
  /\ packetsLeft' = [packetsLeft EXCEPT ![t] = 0]
  /\ replay' = [replay EXCEPT ![t] = -1]
  /\ Goto(t, IF replay[t] >= 0 THEN "done" ELSE "detach")

\* send_frame returned an error: of the muxer or the packetizer before the first
\* packet, or of send_packets.  It ends the replay, or the loop.
send_failed(t) ==
  /\ packetsLeft' = [packetsLeft EXCEPT ![t] = 0]
  /\ replay' = [replay EXCEPT ![t] = -1]
  /\ Goto(t, IF replay[t] >= 0 THEN "poll" ELSE "detach")

\* The cached frames.
task_replay(t) ==
  /\ senderPc[t] = "replay"
  /\ \/ /\ replay[t] > 0
        /\ replay' = [replay EXCEPT ![t] = @ - 1]
        /\ send_frame(t)
     \/ replay[t] > 0 /\ send_failed(t)
     \/ /\ replay[t] = 0
        /\ replay' = [replay EXCEPT ![t] = -1]
        /\ Goto(t, "poll")
        /\ UNCHANGED packetsLeft
  /\ UNCHANGED <<sourceLive, framesOut, active, unread, stopped, woken, readers, stopKeys, late>>

\* send_packets: the flag is looked at before every packet ...
check_stopped(t) ==
  IF stopped[t] THEN send_failed(t)
  ELSE Goto(t, "arm") /\ UNCHANGED <<packetsLeft, replay>>

send_packets_check(t) ==
  /\ senderPc[t] = "check"
  /\ \/ packetsLeft[t] > 0 /\ check_stopped(t)
     \/ /\ packetsLeft[t] = 0
        /\ Goto(t, IF replay[t] >= 0 THEN "replay" ELSE "poll")
        /\ UNCHANGED <<packetsLeft, replay>>
  /\ UNCHANGED <<sourceLive, framesOut, active, unread, stopped, woken, readers, stopKeys, late>>

\* ... and then stop.notified() and transport.send() start to wait.
send_packets_arm(t) ==
  /\ senderPc[t] = "arm"
  /\ woken' = [woken EXCEPT ![t] = FALSE]
  /\ Goto(t, "sending")
  /\ UNCHANGED <<sourceLive, framesOut, active, replay, packetsLeft, unread, stopped, readers,
                 stopKeys, late>>

\* RtpTransport::send is done.
send_done(t) ==
  /\ senderPc[t] = "sending"
  /\ packetsLeft' = [packetsLeft EXCEPT ![t] = @ - 1]
  /\ late' = IF stopped[t] THEN [late EXCEPT ![t] = @ + 1] ELSE late
  /\ Goto(t, "check")
  /\ UNCHANGED <<sourceLive, framesOut, active, replay, unread, stopped, woken, readers,
                 stopKeys>>

\* The wait ends without a packet: the stop came, or a UDP send failed.  Over TCP
\* RtpTransport::send connects or accepts again instead.
send_aborted(t) ==
  /\ senderPc[t] = "sending"
  /\ woken[t] \/ Requests[t].udp
  /\ send_failed(t)
  /\ UNCHANGED <<sourceLive, framesOut, active, unread, stopped, woken, readers, stopKeys, late>>

\* The loop looks at the flag ...
task_poll(t) ==
  /\ senderPc[t] = "poll"
  /\ Goto(t, IF stopped[t] THEN "detach" ELSE "armWait")
  /\ UNCHANGED <<sourceLive, framesOut, active, replay, packetsLeft, unread, stopped, woken,
                 readers, stopKeys, late>>

\* ... and then waits for the stop or a frame.
task_arm(t) ==
  /\ senderPc[t] = "armWait"
  /\ woken' = [woken EXCEPT ![t] = FALSE]
  /\ Goto(t, "wait")
  /\ UNCHANGED <<sourceLive, framesOut, active, replay, packetsLeft, unread, stopped, readers,
                 stopKeys, late>>

\* Mutant: Closed is handled like Lagged.
task_wait_again(t) ==
  /\ senderPc[t] = "wait"
  /\ \/ /\ woken[t]
        /\ Goto(t, "detach")
        /\ UNCHANGED <<packetsLeft, replay, unread>>
     \/ /\ unread[t] > 0
        /\ unread' = [unread EXCEPT ![t] = @ - 1]
        /\ (send_frame(t) /\ UNCHANGED replay) \/ send_failed(t)
  /\ UNCHANGED <<sourceLive, framesOut, active, stopped, woken, readers, stopKeys, late>>

\* stop.notified(), a frame, or Closed once all frames are read.
task_wait(t) ==
  /\ senderPc[t] = "wait"
  /\ \/ /\ woken[t]
        /\ Goto(t, "detach")
        /\ UNCHANGED <<packetsLeft, replay, unread>>
     \/ /\ unread[t] > 0
        /\ unread' = [unread EXCEPT ![t] = @ - 1]
        /\ (send_frame(t) /\ UNCHANGED replay) \/ send_failed(t)
     \/ /\ unread[t] = 0 /\ ~ sourceLive
        /\ Goto(t, "detach")
        /\ UNCHANGED <<packetsLeft, replay, unread>>
  /\ UNCHANGED <<sourceLive, framesOut, active, stopped, woken, readers, stopKeys, late>>

\* remove_subscriber
task_detach(t) ==
  /\ senderPc[t] = "detach"
  /\ readers' = readers \ {KeyOf(t)}
  /\ Goto(t, "match")
  /\ UNCHANGED <<sourceLive, framesOut, active, replay, packetsLeft, unread, stopped, woken,
                 stopKeys, late>>

\* active.get(&key) has the token of this task ...
task_match(t) ==
  /\ senderPc[t] = "match"
  /\ Goto(t, IF active[KeyOf(t)] = t THEN "remove" ELSE "done")
  /\ UNCHANGED <<sourceLive, framesOut, active, replay, packetsLeft, unread, stopped, woken,
                 readers, stopKeys, late>>

\* ... and active.remove(&key), a step of its own.
task_remove(t) ==
  /\ senderPc[t] = "remove"
  /\ active' = [active EXCEPT ![KeyOf(t)] = 0]
  /\ Goto(t, "done")
  /\ UNCHANGED <<sourceLive, framesOut, replay, packetsLeft, unread, stopped, woken, readers,
                 stopKeys, late>>

----------------------------------------------------------------------------
\* stop() and the source

\* stop(): the keys of the stream's senders, of one SSRC if it is given.
stop_collect(ssrc) ==
  /\ stopKeys = {}
  /\ stopKeys' = {k \in Keys : active[k] # 0 /\ ssrc \in {0, Requests[active[k]].ssrc}}
  /\ UNCHANGED <<sourceLive, framesOut, active, senderPc, replay, packetsLeft, unread, stopped,
                 woken, readers, late>>

\* Each is removed, marked and woken; only a wait that is armed hears of it.
stop_entry(k) ==
  /\ k \in stopKeys
  /\ stopKeys' = stopKeys \ {k}
  /\ LET t == active[k] IN
     IF t = 0 THEN UNCHANGED <<active, stopped, woken>>
     ELSE /\ active' = [active EXCEPT ![k] = 0]
          /\ stopped' = [stopped EXCEPT ![t] = TRUE]
          /\ woken' = [woken EXCEPT ![t] = senderPc[t] \in {"sending", "wait"}]
  /\ UNCHANGED <<sourceLive, framesOut, senderPc, replay, packetsLeft, unread, readers, late>>

\* A frame is broadcast.  A receiver that is full loses its oldest and goes on.
publish_frame ==
  /\ sourceLive /\ framesOut < MaxSourceFrames
  /\ framesOut' = framesOut + 1
  /\ unread' = [t \in Senders |->
                  IF Running(t) /\ senderPc[t] # "attach" /\ unread[t] < MaxQueue
                  THEN unread[t] + 1 ELSE unread[t]]
  /\ UNCHANGED <<sourceLive, active, senderPc, replay, packetsLeft, stopped, woken, readers,
                 stopKeys, late>>

close_source ==
  /\ sourceLive
  /\ sourceLive' = FALSE
  /\ UNCHANGED <<framesOut, active, senderPc, replay, packetsLeft, unread, stopped, woken,
                 readers, stopKeys, late>>

TaskStep(t) ==
  \/ task_attach(t) \/ task_replay(t)
  \/ send_packets_check(t) \/ send_packets_arm(t)
  \/ task_poll(t) \/ task_arm(t) \/ task_wait(t)
  \/ task_detach(t) \/ task_match(t) \/ task_remove(t)

SendEnd(t) == send_done(t) \/ send_aborted(t)

SendNext ==
  \/ \E t \in Senders : start(t) \/ start_insert(t) \/ TaskStep(t) \/ SendEnd(t)
  \/ \E ssrc \in {0} \cup {Requests[t].ssrc : t \in Senders} : stop_collect(ssrc)
  \/ \E k \in Keys : stop_entry(k)
  \/ publish_frame
  \/ close_source

\* The runtime polls every task; a UDP send ends, a TCP send may wait for its peer.
SendFairness ==
  \A t \in Senders : /\ WF_sendVars(TaskStep(t))
                     /\ Requests[t].udp => WF_sendVars(SendEnd(t))

----------------------------------------------------------------------------
\* A sender that listRtpSender shows has a task that still runs, and was not
\* stopped: whatever ends the task takes the entry away, and no overlapping start
\* or stop brings an ended one back.
ListedRuns ==
  \A k \in Keys : active[k] # 0 =>
    LET t == active[k] IN KeyOf(t) = k /\ Running(t) /\ ~ stopped[t]

\* The source counts no reader that is not there: an id among its subscribers
\* belongs to a task that has yet to remove it.
NoGhostReader ==
  \A k \in readers : \E t \in Senders :
    KeyOf(t) = k /\ Running(t) /\ senderPc[t] \notin {"attach", "match", "remove"}

\* A stop takes effect within one packet, in the replay as in the loop.
StopWithinOnePacket == \A t \in Senders : late[t] <= 1

\* The list of senders and the readers of the source tell the truth about the
\* tasks, and a task that was stopped is soon silent.
SendersAccounted == ListedRuns /\ NoGhostReader /\ StopWithinOnePacket

\* Once its source is closed a UDP sender sends what it has and ends.
SendersEndWithSource ==
  \A t \in Senders : Requests[t].udp =>
    [](~ sourceLive /\ Running(t) => <>(senderPc[t] = "done"))
=============================================================================
