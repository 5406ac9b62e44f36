-------------------------- MODULE SessionsProofs ----------------------------
(***************************************************************************)
(* Proofs about RTP senders, WebRTC sessions and the dialogs of GB28181,   *)
(* for any number of them and any bounds.                                  *)
(***************************************************************************)
EXTENDS RtpSending, WebRtcSessions, SipServer, TLAPS

-----------------------------------------------------------------------------
(* RTP senders. *)

SendSpec == SendInit /\ [][SendNext]_sendVars

SenderStates ==
  {"idle", "opening", "refused", "attach", "replay", "check", "arm", "sending", "poll",
   "armWait", "wait", "detach", "match", "remove", "done"}

SendTypeOK ==
  /\ active \in [Keys -> Senders \cup {0}]
  /\ senderPc \in [Senders -> SenderStates]
  /\ stopped \in [Senders -> BOOLEAN]
  /\ late \in [Senders -> Nat]
  /\ readers \in SUBSET Keys

\* A flag is set for a sender that has been listed.
FreshRuns == \A t \in Senders : senderPc[t] \in {"idle", "opening"} => ~ stopped[t]

\* After a late packet the sender can only find out that it was stopped.
LateIsLast ==
  \A t \in Senders :
    late[t] = 0 \/ (late[t] = 1 /\ stopped[t] /\ senderPc[t] \notin {"arm", "sending"})

\* The inductive invariant.
SendInv == SendTypeOK /\ ListedRuns /\ NoGhostReader /\ FreshRuns /\ LateIsLast

\* A task that goes on sending or waiting.
LEMMA TaskMoves ==
  ASSUME SendInv, NEW t \in Senders, NEW pc \in SenderStates, Goto(t, pc),
         senderPc[t] \notin {"idle", "opening", "refused", "done", "attach", "match", "remove"},
         pc \notin {"idle", "opening", "refused", "done", "attach", "match", "remove"},
         pc \in {"arm", "sending"} => late[t] = 0,
         UNCHANGED <<active, stopped, readers, late>>
  PROVE  SendInv'
<1> USE DEF SendInv, SendTypeOK
<1>1. senderPc' = [senderPc EXCEPT ![t] = pc]
  BY DEF Goto
<1>2. SendTypeOK'
  BY <1>1
<1>3. \A s \in Senders : Running(s) => Running(s)'
  BY <1>1 DEF Running
<1>4. ListedRuns'
  BY <1>3 DEF ListedRuns
<1>5. NoGhostReader'
  BY <1>1, <1>3 DEF NoGhostReader
<1>6. FreshRuns'
  BY <1>1 DEF FreshRuns
<1>7. LateIsLast'
  BY <1>1 DEF LateIsLast
<1> QED BY <1>2, <1>4, <1>5, <1>6, <1>7

\* The steps of the task that only move it.
LEMMA TaskGoesOn ==
  ASSUME SendInv, NEW t \in Senders,
         \/ task_replay(t) \/ send_packets_check(t) \/ send_packets_arm(t)
         \/ task_poll(t) \/ task_arm(t) \/ task_wait(t) \/ send_aborted(t)
  PROVE  SendInv'
<1>1. CASE task_replay(t)
  BY <1>1, TaskMoves DEF task_replay, send_frame, send_failed, SenderStates
<1>2. CASE send_packets_check(t)
  <2>1. CASE packetsLeft[t] > 0 /\ check_stopped(t) /\ stopped[t]
    BY <1>2, <2>1, TaskMoves DEF send_packets_check, check_stopped, send_failed, SenderStates
  <2>2. CASE packetsLeft[t] > 0 /\ check_stopped(t) /\ ~ stopped[t]
    <3>1. late[t] = 0
      BY <2>2 DEF SendInv, LateIsLast
    <3> QED BY <1>2, <2>2, <3>1, TaskMoves DEF send_packets_check, check_stopped, SenderStates
  <2>3. CASE packetsLeft[t] = 0 /\ Goto(t, IF replay[t] >= 0 THEN "replay" ELSE "poll")
    BY <1>2, <2>3, TaskMoves DEF send_packets_check, SenderStates
  <2> QED BY <1>2, <2>1, <2>2, <2>3 DEF send_packets_check
<1>3. CASE send_packets_arm(t)
  <2>1. late[t] = 0
    BY <1>3 DEF send_packets_arm, SendInv, LateIsLast
  <2> QED BY <1>3, <2>1, TaskMoves DEF send_packets_arm, SenderStates
<1>4. CASE task_poll(t)
  BY <1>4, TaskMoves DEF task_poll, SenderStates
<1>5. CASE task_arm(t)
  BY <1>5, TaskMoves DEF task_arm, SenderStates
<1>6. CASE task_wait(t)
  BY <1>6, TaskMoves DEF task_wait, send_frame, send_failed, SenderStates
<1>7. CASE send_aborted(t)
  BY <1>7, TaskMoves DEF send_aborted, send_failed, SenderStates
<1> QED BY <1>1, <1>2, <1>3, <1>4, <1>5, <1>6, <1>7

\* Every step of calls, tasks, stops and the source keeps the invariant.
LEMMA SendStep == SendInv /\ [SendNext]_sendVars => SendInv'
<1> SUFFICES ASSUME SendInv, [SendNext]_sendVars PROVE SendInv'
  OBVIOUS
<1> USE DEF SendInv, SendTypeOK
<1>0. \A t \in Senders : KeyOf(t) \in Keys
  BY DEF Keys
<1>1. ASSUME NEW t \in Senders, start(t) PROVE SendInv'
  <2> USE <1>1 DEF start, Goto
  <2>1. SendTypeOK'
    BY DEF SenderStates
  <2>2. ListedRuns'
    BY DEF ListedRuns, Running
  <2>3. NoGhostReader'
    BY DEF NoGhostReader, Running
  <2>4. FreshRuns' /\ LateIsLast'
    BY DEF FreshRuns, LateIsLast
  <2> QED BY <2>1, <2>2, <2>3, <2>4
<1>2. ASSUME NEW t \in Senders, start_insert(t) PROVE SendInv'
  <2> USE <1>2 DEF start_insert, Goto
  <2>1. SendTypeOK'
    BY <1>0 DEF SenderStates
  <2>2. ListedRuns'
    BY <1>0 DEF ListedRuns, Running, FreshRuns
  <2>3. NoGhostReader'
    BY DEF NoGhostReader, Running
  <2>4. FreshRuns' /\ LateIsLast'
    BY DEF FreshRuns, LateIsLast
  <2> QED BY <2>1, <2>2, <2>3, <2>4
<1>3. ASSUME NEW t \in Senders, task_attach(t) PROVE SendInv'
  <2> USE <1>3 DEF task_attach, Goto
  <2>1. SendTypeOK'
    BY <1>0 DEF SenderStates
  <2>2. ListedRuns'
    BY DEF ListedRuns, Running
  <2>3. NoGhostReader'
    BY DEF NoGhostReader, Running
  <2>4. FreshRuns' /\ LateIsLast'
    BY DEF FreshRuns, LateIsLast
  <2> QED BY <2>1, <2>2, <2>3, <2>4
<1>4. ASSUME NEW t \in Senders, send_done(t) PROVE SendInv'
  <2> USE <1>4 DEF send_done, Goto
  <2>1. late[t] = 0
    BY DEF LateIsLast
  <2>2. SendTypeOK'
    BY <2>1 DEF SenderStates
  <2>3. ListedRuns'
    BY DEF ListedRuns, Running
  <2>4. NoGhostReader'
    BY DEF NoGhostReader, Running
  <2>5. FreshRuns' /\ LateIsLast'
    BY <2>1 DEF FreshRuns, LateIsLast
  <2> QED BY <2>2, <2>3, <2>4, <2>5
<1>5. ASSUME NEW t \in Senders, task_detach(t) PROVE SendInv'
  <2> USE <1>5 DEF task_detach, Goto
  <2>1. SendTypeOK'
    BY DEF SenderStates
  <2>2. ListedRuns'
    BY DEF ListedRuns, Running
  <2>3. NoGhostReader'
    BY DEF NoGhostReader, Running
  <2>4. FreshRuns' /\ LateIsLast'
    BY DEF FreshRuns, LateIsLast
  <2> QED BY <2>1, <2>2, <2>3, <2>4
<1>6. ASSUME NEW t \in Senders, task_match(t) \/ task_remove(t) PROVE SendInv'
  <2> USE <1>6 DEF task_match, task_remove, Goto
  <2>1. SendTypeOK'
    BY <1>0 DEF SenderStates
  <2>2. ListedRuns'
    BY <1>0 DEF ListedRuns, Running
  <2>3. NoGhostReader'
    BY DEF NoGhostReader, Running
  <2>4. FreshRuns' /\ LateIsLast'
    BY DEF FreshRuns, LateIsLast
  <2> QED BY <2>1, <2>2, <2>3, <2>4
<1>7. ASSUME NEW k \in Keys, stop_entry(k) PROVE SendInv'
  <2> DEFINE t == active[k]
  <2>1. CASE t = 0
    BY <1>7, <2>1 DEF stop_entry, ListedRuns, NoGhostReader, Running, FreshRuns, LateIsLast
  <2>2. CASE t # 0
    <3>1. t \in Senders /\ KeyOf(t) = k /\ Running(t)
      BY <2>2 DEF ListedRuns
    <3>2. /\ active' = [active EXCEPT ![k] = 0]
          /\ stopped' = [stopped EXCEPT ![t] = TRUE]
          /\ UNCHANGED <<senderPc, readers, late>>
      BY <1>7, <2>2 DEF stop_entry
    <3> HIDE DEF t
    <3>3. SendTypeOK'
      BY <3>1, <3>2
    <3>4. ListedRuns'
      BY <3>1, <3>2 DEF ListedRuns, Running
    <3>5. NoGhostReader'
      BY <3>2 DEF NoGhostReader, Running
    <3>6. FreshRuns' /\ LateIsLast'
      BY <3>1, <3>2 DEF FreshRuns, LateIsLast, Running
    <3> QED BY <3>3, <3>4, <3>5, <3>6
  <2> QED BY <2>1, <2>2
<1>8. ASSUME UNCHANGED <<active, senderPc, stopped, readers, late>> PROVE SendInv'
  BY <1>8 DEF ListedRuns, NoGhostReader, Running, FreshRuns, LateIsLast
<1>9. ASSUME NEW ssrc, stop_collect(ssrc) PROVE SendInv'
  BY <1>8, <1>9 DEF stop_collect
<1>10. CASE publish_frame \/ close_source
  BY <1>8, <1>10 DEF publish_frame, close_source
<1>11. CASE UNCHANGED sendVars
  BY <1>8, <1>11 DEF sendVars
<1> QED
  BY <1>1, <1>2, <1>3, <1>4, <1>5, <1>6, <1>7, <1>9, <1>10, <1>11, TaskGoesOn
  DEF SendNext, TaskStep, SendEnd

\* The invariant holds in every reachable state.
THEOREM SendInvariant == SendSpec => []SendInv
<1>1. SendInit => SendInv
  BY DEF SendInit, SendInv, SendTypeOK, SenderStates, ListedRuns, NoGhostReader, FreshRuns,
     LateIsLast
<1> QED BY <1>1, SendStep, PTL DEF SendSpec

\* A listed sender has a task that runs and was not stopped, the source counts no
\* reader that is not there, and a stop takes effect within one packet, for any
\* number of overlapping calls, keys, cached frames and packets
\* (RtpSenderManager::start, stop and the task).
THEOREM SendersTheorem == SendSpec => []SendersAccounted
<1>1. SendInv => StopWithinOnePacket
  BY DEF SendInv, SendTypeOK, LateIsLast, StopWithinOnePacket
<1>2. SendInv => SendersAccounted
  BY <1>1 DEF SendInv, SendersAccounted
<1> QED BY <1>2, SendInvariant, PTL

-----------------------------------------------------------------------------
(* WebRTC sessions. *)

WrSafety == WrInit /\ [][WrNext]_wrVars

PatchPlaces ==
  {"idle", "found", "locked", "offered", "answered", "added", "refused", "restarted"}
PatchRecords ==
  [at : PatchPlaces, on : WrPosts \cup {0}, frag : SdpFragments \cup {NoFragment},
   reply : WrPatches \cup {0, -1}]

WrTypeOK ==
  /\ wrAt \in [WrPosts -> {"idle", "negotiating", "described", "waiting", "woken", "refused",
                           "live", "closing", "unread", "closed"}]
  /\ wrPc \in [WrPosts -> {"new", "connected", "disconnected", "failed", "closed"}]
  /\ wrListed \in SUBSET WrPosts
  /\ wrReader \in SUBSET WrPosts
  /\ wrPatch \in [WrPatches -> PatchRecords]
  /\ wrRemote \in [WrPosts -> WrPatches \cup {0}]
  /\ wrLocal \in [WrPosts -> WrPatches \cup {0}]

\* Where a session is says whether it is listed, read and connected.
WrPlaces ==
  \A p \in WrPosts :
    /\ p \in wrListed => wrAt[p] = "live"
    /\ p \in wrReader => wrAt[p] \in {"live", "closing"}
    /\ wrPc[p] = "closed" <=> wrAt[p] = "closed"

\* Of the PATCH requests of a session one holds the lock, and the descriptions
\* that it has set so far are its own.
WrSerial ==
  \A r \in WrPatches :
    /\ wrPatch[r].at # "idle" => wrPatch[r].on \in WrPosts
    /\ \A q \in WrPatches : r # q /\ r \in Held_by(wrPatch[r].on) =>
                              q \notin Held_by(wrPatch[r].on)
    /\ wrPatch[r].at = "offered" => wrRemote[wrPatch[r].on] = r
    /\ wrPatch[r].at = "answered" => wrLocal[wrPatch[r].on] = r
    /\ wrPatch[r].at = "restarted" => wrPatch[r].reply = r

\* The inductive invariant.
WrInv == WrTypeOK /\ WrPlaces /\ WrSerial

\* A step of one PATCH request that keeps to its session leaves the others'
\* claims alone.
LEMMA PatchMoves ==
  ASSUME WrInv, NEW r \in WrPatches, NEW rec \in PatchRecords,
         wrPatch' = [wrPatch EXCEPT ![r] = rec],
         wrRemote' \in [WrPosts -> WrPatches \cup {0}],
         wrLocal' \in [WrPosts -> WrPatches \cup {0}],
         \A p \in WrPosts : r \notin Held_by(p) =>
                              wrRemote'[p] = wrRemote[p] /\ wrLocal'[p] = wrLocal[p],
         rec.at # "idle" => rec.on \in WrPosts,
         rec.at \in {"locked", "offered", "answered"} =>
           Held_by(rec.on) \subseteq {r} /\ rec.on = wrPatch[r].on,
         rec.at = "offered" => wrRemote'[rec.on] = r,
         rec.at = "answered" => wrLocal'[rec.on] = r,
         rec.at = "restarted" => rec.reply = r,
         UNCHANGED <<wrAt, wrPc, wrListed, wrReader>>
  PROVE  WrInv'
<1> USE DEF WrInv, WrTypeOK
<1>1. WrTypeOK'
  OBVIOUS
<1>2. WrPlaces'
  BY DEF WrPlaces
<1>3. /\ wrPatch'[r] = rec
      /\ \A q \in WrPatches : q # r => wrPatch'[q] = wrPatch[q]
  OBVIOUS
<1>4. ASSUME NEW q \in WrPatches PROVE WrSerial!(q)'
  <2>1. CASE q = r
    BY <2>1, <1>3 DEF Held_by, WrSerial
  <2>2. CASE q # r
    <3>1. wrPatch'[q] = wrPatch[q]
      BY <2>2, <1>3
    <3>2. q \in Held_by(wrPatch[q].on) => r \notin Held_by(wrPatch[q].on)
      BY <2>2 DEF WrSerial
    <3>3. wrPatch[q].at \in {"offered", "answered"} =>
            /\ wrPatch[q].on \in WrPosts
            /\ q \in Held_by(wrPatch[q].on)
            /\ wrRemote'[wrPatch[q].on] = wrRemote[wrPatch[q].on]
            /\ wrLocal'[wrPatch[q].on] = wrLocal[wrPatch[q].on]
      BY <3>2 DEF Held_by, WrSerial
    <3>4. \A s \in WrPatches : q # s /\ (q \in Held_by(wrPatch[q].on))' =>
                                 (s \notin Held_by(wrPatch[q].on))'
      BY <2>2, <1>3, <3>1 DEF Held_by, WrSerial
    <3> QED BY <3>1, <3>3, <3>4 DEF WrSerial
  <2> QED BY <2>1, <2>2
<1> QED BY <1>1, <1>2, <1>4 DEF WrSerial

\* The steps of a POST and of the peer connection, the watchers, DELETE and the
\* teardown keep a session's places.
LEMMA SessionStep ==
  ASSUME WrInv, NEW p \in WrPosts,
         \/ handle_post(p) \/ PostStep(p) \/ on_ice_candidate(p) \/ pc_changes(p)
         \/ watch_task(p) \/ handle_delete(p) \/ CloseStep(p)
  PROVE  WrInv'
<1> USE DEF WrInv, WrTypeOK
<1>1. UNCHANGED <<wrPatch, wrRemote, wrLocal>>
  BY DEF handle_post, PostStep, set_local_description, await_gathering, post_answered,
     on_ice_candidate, pc_changes, watch_task, handle_delete, CloseStep, close_reader,
     close_pc, wrSdp
<1>2. WrSerial'
  BY <1>1 DEF WrSerial, Held_by
<1>3. CASE handle_post(p) \/ set_local_description(p) \/ await_gathering(p)
           \/ on_ice_candidate(p)
  <2>1. /\ UNCHANGED <<wrPc, wrListed, wrReader>>
        /\ wrAt[p] \in {"idle", "negotiating", "described", "waiting"}
        /\ \E place \in {"negotiating", "described", "waiting", "woken", "refused"} :
             wrAt' = [wrAt EXCEPT ![p] = place]
    BY <1>3 DEF handle_post, set_local_description, await_gathering, on_ice_candidate,
       wr_goto, wrPeer, wrTable
  <2>2. WrTypeOK'
    BY <1>1, <2>1
  <2>3. WrPlaces'
    BY <2>1 DEF WrPlaces
  <2> QED BY <1>2, <2>2, <2>3
<1>4. CASE post_answered(p)
  BY <1>1, <1>2, <1>4 DEF post_answered, wr_goto, wrPeer, WrPlaces
<1>5. CASE pc_changes(p)
  <2>1. /\ UNCHANGED <<wrAt, wrListed, wrReader>>
        /\ wrAt[p] # "closed"
        /\ \E c \in PcChanges : wrPc' = [wrPc EXCEPT ![p] = c[2]]
    BY <1>5, Zenon DEF pc_changes, wrTable
  <2>2. \A c \in PcChanges : c[2] \in {"connected", "disconnected", "failed"}
    BY DEF PcChanges
  <2> QED BY <1>1, <1>2, <2>1, <2>2 DEF WrPlaces
<1>6. CASE watch_task(p) \/ handle_delete(p)
  <2>1. /\ UNCHANGED <<wrPc, wrReader>>
        /\ remove_session(p) \/ UNCHANGED <<wrListed, wrAt>>
    BY <1>6 DEF watch_task, handle_delete, wrPeer
  <2> QED BY <1>1, <1>2, <2>1 DEF remove_session, wr_goto, WrPlaces
<1>7. CASE close_reader(p)
  BY <1>1, <1>2, <1>7 DEF close_reader, wr_goto, wrPeer, WrPlaces
<1>8. CASE close_pc(p)
  BY <1>1, <1>2, <1>8, Zenon DEF close_pc, wr_goto, wrTable, WrPlaces
<1> QED BY <1>3, <1>4, <1>5, <1>6, <1>7, <1>8 DEF PostStep, CloseStep

\* The steps of a PATCH request keep its claims.
LEMMA PatchKeeps ==
  ASSUME WrInv, NEW r \in WrPatches, patch_found(r) \/ PatchStep(r)
  PROVE  WrInv'
<1> USE DEF WrInv, WrTypeOK
<1>1. UNCHANGED <<wrAt, wrPc, wrListed, wrReader>>
  BY Zenon DEF patch_found, PatchStep, patch_locked, patch_trickle, patch_offer, patch_answer,
     patch_reply, patch_fails, wrPeer, wrTable
<1>2. \A place \in PatchPlaces : [wrPatch[r] EXCEPT !.at = place] \in PatchRecords
  BY DEF PatchRecords
<1>3. CASE patch_found(r)
  <2>1. PICK p \in WrPosts, frag \in SdpFragments :
          wrPatch' = [wrPatch EXCEPT ![r] =
                        [IdlePatch EXCEPT !.at = "found", !.on = p, !.frag = frag]]
    BY <1>3, Zenon DEF patch_found
  <2>2. [IdlePatch EXCEPT !.at = "found", !.on = p, !.frag = frag] \in PatchRecords
    BY Zenon DEF IdlePatch, PatchRecords, PatchPlaces
  <2>3. wrRemote' = wrRemote /\ wrLocal' = wrLocal
    BY <1>3, Zenon DEF patch_found, wrSdp
  <2> QED BY <1>1, <2>1, <2>2, <2>3, PatchMoves, Zenon DEF IdlePatch
<1>4. CASE patch_locked(r)
  <2> DEFINE rec == [wrPatch[r] EXCEPT !.at = "locked"]
  <2>1. /\ wrPatch' = [wrPatch EXCEPT ![r] = rec]
        /\ Held_by(wrPatch[r].on) = {}
        /\ wrPatch[r].at = "found"
        /\ wrRemote' = wrRemote /\ wrLocal' = wrLocal
    BY <1>4 DEF patch_locked, patch_goes, wrSdp
  <2>2. rec \in PatchRecords /\ rec.at = "locked" /\ rec.on = wrPatch[r].on
    BY <1>2 DEF PatchPlaces, PatchRecords
  <2>3. rec.on \in WrPosts
    BY <2>1, <2>2 DEF WrSerial
  <2> HIDE DEF rec
  <2> QED BY <1>1, <2>1, <2>2, <2>3, PatchMoves, Zenon
<1>5. wrPatch[r].at \in {"locked", "offered", "answered"} =>
        /\ wrPatch[r].on \in WrPosts
        /\ Held_by(wrPatch[r].on) \subseteq {r}
        /\ r \in Held_by(wrPatch[r].on)
  BY DEF WrSerial, Held_by
<1>6. CASE patch_trickle(r) \/ patch_fails(r)
  <2>1. PICK place \in {"added", "refused"} :
          wrPatch' = [wrPatch EXCEPT ![r] = [wrPatch[r] EXCEPT !.at = place]]
    BY <1>6 DEF patch_trickle, patch_fails, patch_goes
  <2> DEFINE rec == [wrPatch[r] EXCEPT !.at = place]
  <2>2. rec \in PatchRecords /\ rec.at = place /\ rec.on = wrPatch[r].on
    BY <1>2 DEF PatchPlaces, PatchRecords
  <2>3. /\ wrPatch[r].at \in {"locked", "offered", "answered"}
        /\ wrRemote' = wrRemote /\ wrLocal' = wrLocal
    BY <1>6 DEF patch_trickle, patch_fails, wrSdp
  <2> HIDE DEF rec
  <2>4. wrPatch' = [wrPatch EXCEPT ![r] = rec]
    BY <2>1 DEF rec
  <2> QED BY <1>1, <1>5, <2>2, <2>3, <2>4, PatchMoves, Zenon
<1>7. CASE patch_offer(r)
  <2> DEFINE rec == [wrPatch[r] EXCEPT !.at = "offered"]
  <2>1. /\ wrPatch' = [wrPatch EXCEPT ![r] = rec]
        /\ wrPatch[r].at = "locked"
        /\ wrRemote' = [wrRemote EXCEPT ![wrPatch[r].on] = r]
        /\ wrLocal' = wrLocal
    BY <1>7 DEF patch_offer, patch_goes
  <2>2. rec \in PatchRecords /\ rec.at = "offered" /\ rec.on = wrPatch[r].on
    BY <1>2 DEF PatchPlaces, PatchRecords
  <2> HIDE DEF rec
  <2>3. \A p \in WrPosts : r \notin Held_by(p) => p # wrPatch[r].on
    BY <1>5, <2>1
  <2> QED BY <1>1, <1>5, <2>1, <2>2, <2>3, PatchMoves, Zenon
<1>8. CASE patch_answer(r)
  <2> DEFINE rec == [wrPatch[r] EXCEPT !.at = "answered"]
  <2>1. /\ wrPatch' = [wrPatch EXCEPT ![r] = rec]
        /\ wrPatch[r].at = "offered"
        /\ wrLocal' = [wrLocal EXCEPT ![wrPatch[r].on] = wrRemote[wrPatch[r].on]]
        /\ wrRemote' = wrRemote
    BY <1>8 DEF patch_answer, patch_goes
  <2>2. rec \in PatchRecords /\ rec.at = "answered" /\ rec.on = wrPatch[r].on
    BY <1>2 DEF PatchPlaces, PatchRecords
  <2> HIDE DEF rec
  <2>3. \A p \in WrPosts : r \notin Held_by(p) => p # wrPatch[r].on
    BY <1>5, <2>1
  <2>4. wrRemote[wrPatch[r].on] = r
    BY <2>1 DEF WrSerial
  <2> QED BY <1>1, <1>5, <2>1, <2>2, <2>3, <2>4, PatchMoves, Zenon
<1>9. CASE patch_reply(r)
  <2> DEFINE rec == [wrPatch[r] EXCEPT !.at = "restarted", !.reply = wrLocal[wrPatch[r].on]]
  <2>1. /\ wrPatch' = [wrPatch EXCEPT ![r] = rec]
        /\ wrPatch[r].at = "answered"
        /\ wrRemote' = wrRemote /\ wrLocal' = wrLocal
    BY <1>9, Zenon DEF patch_reply, patch_replies, wrSdp
  <2>2. wrLocal[wrPatch[r].on] = r
    BY <2>1 DEF WrSerial
  <2>3. /\ rec \in PatchRecords /\ rec.at = "restarted" /\ rec.on = wrPatch[r].on
        /\ rec.reply = r
    <3>1. wrPatch[r] \in PatchRecords
      OBVIOUS
    <3>2. rec = [at |-> "restarted", on |-> wrPatch[r].on, frag |-> wrPatch[r].frag,
                 reply |-> r]
      <4>1. rec = [wrPatch[r] EXCEPT !.at = "restarted", !.reply = r]
        BY <2>2
      <4> HIDE DEF rec, WrInv, WrTypeOK
      <4> QED BY ONLY <3>1, <4>1, Zenon DEF PatchRecords
    <3> QED BY <3>1, <3>2, Zenon DEF PatchPlaces, PatchRecords
  <2> HIDE DEF rec
  <2> QED BY <1>1, <1>5, <2>1, <2>3, PatchMoves, Zenon
<1> QED BY <1>3, <1>4, <1>6, <1>7, <1>8, <1>9 DEF PatchStep

\* The invariant holds in every reachable state.
THEOREM WrInvariant == WrSafety => []WrInv
<1>1. WrInit => WrInv
  <2> SUFFICES ASSUME WrInit PROVE WrInv
    OBVIOUS
  <2>1. IdlePatch \in PatchRecords
    BY DEF IdlePatch, PatchRecords, PatchPlaces
  <2>2. WrTypeOK
    BY <2>1 DEF WrInit, WrTypeOK
  <2>3. WrPlaces
    BY DEF WrInit, WrPlaces
  <2>4. \A r \in WrPatches : wrPatch[r].at = "idle"
    BY DEF WrInit, IdlePatch
  <2>5. WrSerial
    BY <2>4 DEF WrSerial, Held_by
  <2> QED BY <2>2, <2>3, <2>5 DEF WrInv
<1>2. WrInv /\ [WrNext]_wrVars => WrInv'
  <2> SUFFICES ASSUME WrInv, [WrNext]_wrVars PROVE WrInv'
    OBVIOUS
  <2>1. CASE UNCHANGED wrVars
    BY <2>1 DEF wrVars, WrInv, WrTypeOK, WrPlaces, WrSerial, Held_by
  <2> QED BY <2>1, SessionStep, PatchKeeps DEF WrNext
<1> QED BY <1>1, <1>2, PTL DEF WrSafety

\* A restart is answered with the description made for its own credentials, and no
\* source counts a reader whose peer connection is closed, for any number of
\* sessions and PATCH requests and however watchers, DELETE and the peer
\* interleave (handle_patch, restart_ice, WhepSession::close).
THEOREM WebRtcTheorem == WrSpec => []WrSessionsExact
<1>1. WrInv => WrPatchOwnAnswer
  BY DEF WrInv, WrSerial, WrPatchOwnAnswer
<1>2. WrInv => WrReaderBacked
  BY DEF WrInv, WrTypeOK, WrPlaces, WrReaderBacked
<1>3. WrInv => WrSessionsExact
  BY <1>1, <1>2 DEF WrSessionsExact
<1> QED BY <1>3, WrInvariant, PTL DEF WrSpec, WrSafety

-----------------------------------------------------------------------------
(* The dialogs of the GB28181 server and their media. *)

SipSpec == SipInit /\ [][SipNext]_sipVars

CallStates ==
  {"idle", "opening", "sending", "sent", "unsent", "pending", "answering", "active", "ended",
   "failed"}

\* From the opening of its port to its end, a dialog with a port keeps it open.
PortStates == {"sending", "sent", "unsent", "pending", "active"}

Ports == 0 .. LastPort
Contexts == [call : CallIds, port : Ports \cup {-1}]
Play(c) == calls[c].kind = "play"

SipTypeOK ==
  /\ calls \in CallPlans
  /\ callState \in [CallIds -> CallStates]
  /\ mediaPort \in [CallIds -> Ports \cup {-1}]
  /\ receiver \in [Ports -> CallIds \cup {0}]
  /\ nextMedia \in Nat
  /\ byes \subseteq Contexts

\* What is known of a call from its state.
CallKnown ==
  /\ \A c \in CallIds : callState[c] = "answering" => Talk(c)
  /\ \A c \in CallIds :
       ~ Talk(c) /\ callState[c] \in PortStates \cup {"opening"} => mediaPort[c] \in Ports
  /\ \A b \in byes : callState[b.call] \in {"active", "ended"}
  /\ \A b \in byes : Play(b.call) => b.port = mediaPort[b.call]

\* Until the numbers have run out no two calls have the same one.
NumbersUnique ==
  nextMedia <= LastPort =>
    /\ \A c \in CallIds : mediaPort[c] < nextMedia
    /\ \A c, x \in CallIds : c # x => mediaPort[c] = -1 \/ mediaPort[c] # mediaPort[x]
    /\ \A b \in byes : b.port < nextMedia
    /\ \A b \in byes, x \in CallIds : b.call # x => mediaPort[x] = -1 \/ mediaPort[x] # b.port

\* Until then, every dialog that had its port opened has it open, or the API closed it.
PortsHeld ==
  nextMedia <= LastPort =>
    \A c \in CallIds :
      ~ Talk(c) /\ callState[c] \in PortStates =>
        receiver[mediaPort[c]] = c \/ mediaPort[c] \in apiClosed

\* A port is open for a dialog that the platform began only while that dialog lasts, and
\* only the port in its context.
ReceiverKnown ==
  \A p \in Ports, c \in CallIds :
    receiver[p] = c => /\ ~ Talk(c)
                       /\ Play(c) => p = mediaPort[c] /\ callState[c] \in PortStates

\* The inductive invariant.
SipInv ==
  SipTypeOK /\ CallKnown /\ NumbersUnique /\ PortsHeld /\ ReceiverKnown /\ TalkSenderOwned

\* The constants, and the kinds of calls.
LEMMA SipFacts ==
  ASSUME SipInv
  PROVE  /\ LastPort \in Nat /\ nextMedia \in Nat /\ 0 \notin CallIds
         /\ \A c \in CallIds : calls[c].kind \in {"play", "push", "talk"}
         /\ \A c \in CallIds : mediaPort[c] \in Int
         /\ \A b \in byes : b.call \in CallIds /\ b.port \in Int
<1>1. SipTypeOK
  BY Zenon DEF SipInv
<1>2. calls \in [CallIds -> [kind : {"play", "push", "talk"}, device : Devices, channel : Channels,
                             stream : STRING]]
  BY <1>1, SipCalls, Zenon DEF SipTypeOK
<1>3. \A c \in CallIds : calls[c].kind \in {"play", "push", "talk"}
  BY <1>2
<1>4. LastPort \in Nat /\ nextMedia \in Nat /\ 0 \notin CallIds
  BY <1>1, SipCalls DEF SipTypeOK
<1>5. \A c \in CallIds : mediaPort[c] \in Int
  BY <1>1, <1>4 DEF SipTypeOK, Ports
<1>6. \A b \in byes : b.call \in CallIds /\ b.port \in Int
  BY <1>1, <1>4 DEF SipTypeOK, Contexts, Ports
<1> QED BY <1>3, <1>4, <1>5, <1>6

\* Dialogs end, or had ended, and the media of their contexts are stopped.  A context
\* may be an old one, but its port is no other dialog's.
LEMMA EndKeeps ==
  ASSUME SipInv, NEW ctxs \in SUBSET Contexts, NEW ends \in SUBSET CallIds,
         \A c \in ends : callState[c] \in {"active", "pending"},
         callState' = [c \in CallIds |-> IF c \in ends THEN "ended" ELSE callState[c]],
         \A x \in ctxs : x.call \in ends \/ callState[x.call] = "ended",
         \A c \in ends : \E x \in ctxs : x.call = c,
         \A x \in ctxs : Play(x.call) => x.port = mediaPort[x.call],
         \A x \in ctxs, c \in CallIds :
           nextMedia <= LastPort /\ x.call # c => mediaPort[c] = -1 \/ mediaPort[c] # x.port,
         stop_media(ctxs), byes' \subseteq byes,
         UNCHANGED <<calls, mediaPort, nextMedia, apiClosed>>
  PROVE  SipInv'
<1>0. /\ SipTypeOK /\ CallKnown /\ NumbersUnique /\ PortsHeld /\ ReceiverKnown /\ TalkSenderOwned
      /\ 0 \notin CallIds
  BY SipFacts, Zenon DEF SipInv
<1>1. /\ receiver' = [p \in Ports |->
                        IF \E x \in ctxs : ~ Talk(x.call) /\ x.port = p THEN 0 ELSE receiver[p]]
      /\ talking' = {t \in talking : \A x \in ctxs : ~ SameSender(x.call, t)}
  BY SMTT(20) DEF stop_media, Ports
<1>2. \A c \in CallIds : (Talk(c)' <=> Talk(c)) /\ (Play(c)' <=> Play(c))
  BY DEF Talk, Play
<1>3. \A c \in CallIds : callState'[c] = IF c \in ends THEN "ended" ELSE callState[c]
  OBVIOUS
<1>4. SipTypeOK'
  <2>1. callState' \in [CallIds -> CallStates]
    BY <1>0 DEF SipTypeOK, CallStates
  <2>2. receiver' \in [Ports -> CallIds \cup {0}]
    BY <1>0, <1>1 DEF SipTypeOK
  <2> QED BY <1>0, <2>1, <2>2 DEF SipTypeOK, Contexts
<1>5. CallKnown'
  <2>1. \A b \in byes' : b.call \in CallIds /\ b \in byes
    BY <1>0 DEF SipTypeOK, Contexts
  <2>2. \A c \in CallIds : callState'[c] \in PortStates \cup {"opening"} => callState'[c] = callState[c]
    BY <1>3 DEF PortStates
  <2>3. \A c \in CallIds : callState'[c] = "answering" => Talk(c)
    BY <1>0, <1>3 DEF CallKnown
  <2>4. \A c \in CallIds :
          ~ Talk(c) /\ callState'[c] \in PortStates \cup {"opening"} => mediaPort[c] \in Ports
    BY <1>0, <2>2 DEF CallKnown
  <2>5. \A b \in byes' : callState'[b.call] \in {"active", "ended"}
    BY <1>0, <1>3, <2>1 DEF CallKnown
  <2>6. \A b \in byes' : Play(b.call) => b.port = mediaPort[b.call]
    BY <1>0, <2>1 DEF CallKnown
  <2> QED BY <1>2, <2>1, <2>3, <2>4, <2>5, <2>6, Zenon DEF CallKnown, Ports
<1>6. NumbersUnique'
  BY <1>0, Zenon DEF NumbersUnique
<1>7. PortsHeld'
  <2> SUFFICES ASSUME nextMedia <= LastPort, NEW c \in CallIds, ~ Talk(c), callState'[c] \in PortStates
               PROVE  receiver'[mediaPort[c]] = c \/ mediaPort[c] \in apiClosed
    BY <1>2, Zenon DEF PortsHeld
  <2>1. c \notin ends /\ callState[c] \in PortStates /\ callState[c] # "ended"
    BY <1>3, SMTT(20) DEF PortStates
  <2>2. mediaPort[c] \in Ports /\ mediaPort[c] # -1
    BY <1>0, <2>1, SipFacts, SMTT(20) DEF CallKnown, Ports
  <2>3. \A x \in ctxs : x.call # c
    BY <2>1
  <2>4. \A x \in ctxs : mediaPort[c] # x.port
    BY <2>2, <2>3, Zenon
  <2>5. receiver'[mediaPort[c]] = receiver[mediaPort[c]]
    BY <1>1, <2>2, <2>4, Zenon
  <2> QED BY <1>0, <2>1, <2>5, Zenon DEF PortsHeld
<1>8. ReceiverKnown'
  <2> SUFFICES ASSUME NEW p \in Ports, NEW c \in CallIds, receiver'[p] = c
               PROVE  ~ Talk(c) /\ (Play(c) => p = mediaPort[c] /\ callState'[c] \in PortStates)
    BY <1>2, Zenon DEF ReceiverKnown, Ports
  <2>1. receiver[p] = c /\ \A x \in ctxs : Talk(x.call) \/ x.port # p
    BY <1>0, <1>1
  <2>2. ~ Talk(c) /\ (Play(c) => p = mediaPort[c] /\ callState[c] \in PortStates)
    BY <1>0, <2>1, Zenon DEF ReceiverKnown
  <2>3. Play(c) => c \notin ends
    BY <2>1, <2>2
  <2> QED BY <1>3, <2>2, <2>3, Zenon
<1>9. TalkSenderOwned'
  <2> SUFFICES ASSUME NEW t \in talking' PROVE t \in CallIds /\ callState'[t] = "active" /\ Talk(t)
    BY <1>2, Zenon DEF TalkSenderOwned, Active
  <2>1. t \in CallIds /\ callState[t] = "active" /\ Talk(t)
    BY <1>0, <1>1, Zenon DEF TalkSenderOwned, Active
  <2>2. SameSender(t, t)
    BY <2>1, Zenon DEF SameSender
  <2>3. \A x \in ctxs : x.call # t
    BY <1>1, <2>2, Zenon
  <2> QED BY <1>3, <2>1, <2>3, Zenon
<1> QED BY <1>4, <1>5, <1>6, <1>7, <1>8, <1>9, Zenon DEF SipInv

\* Active or pending dialogs end, with their own contexts.
LEMMA EndOwnKeeps ==
  ASSUME SipInv, NEW ends \in SUBSET CallIds,
         \A c \in ends : callState[c] \in {"active", "pending"},
         callState' = [c \in CallIds |-> IF c \in ends THEN "ended" ELSE callState[c]],
         stop_media({Context(c) : c \in ends}), UNCHANGED <<calls, mediaPort, nextMedia, apiClosed, byes>>
  PROVE  SipInv'
<1> DEFINE ctxs == {Context(c) : c \in ends}
<1>1. \A c \in CallIds : Context(c) \in Contexts /\ Context(c).call = c /\ Context(c).port = mediaPort[c]
  BY DEF SipInv, SipTypeOK, Context, Contexts
<1>2. ctxs \in SUBSET Contexts /\ \A x \in ctxs : x.call \in ends /\ x.port = mediaPort[x.call]
  <2> SUFFICES ASSUME NEW x \in ctxs
               PROVE  x \in Contexts /\ x.call \in ends /\ x.port = mediaPort[x.call]
    OBVIOUS
  <2>1. PICK c \in ends : x = Context(c)
    OBVIOUS
  <2> QED BY <1>1, <2>1
<1>3. \A c \in ends : \E x \in ctxs : x.call = c
  BY <1>1, Zenon
<1>4. \A x \in ctxs, c \in CallIds :
        nextMedia <= LastPort /\ x.call # c => mediaPort[c] = -1 \/ mediaPort[c] # x.port
  BY <1>2, Zenon DEF SipInv, NumbersUnique
<1> HIDE DEF ctxs
<1>5. stop_media(ctxs)
  BY DEF ctxs
<1> QED BY <1>2, <1>3, <1>4, <1>5, EndKeeps, Zenon

\* A call goes on without a change of ports or senders.
LEMMA MoveKeeps ==
  ASSUME SipInv, NEW c \in CallIds, NEW s \in CallStates, GoCall(c, s),
         callState[c] \notin {"active", "ended"},
         s = "ended" => Talk(c),
         s = "opening" => Talk(c),
         s = "answering" => Talk(c),
         ~ Talk(c) => (s \in PortStates <=> callState[c] \in PortStates),
         UNCHANGED <<calls, mediaPort, receiver, nextMedia, talking, apiClosed, byes>>
  PROVE  SipInv'
<1>0. SipTypeOK /\ CallKnown /\ NumbersUnique /\ PortsHeld /\ ReceiverKnown /\ TalkSenderOwned
  BY Zenon DEF SipInv
<1>1. \A x \in CallIds : (Talk(x)' <=> Talk(x)) /\ (Play(x)' <=> Play(x))
  BY DEF Talk, Play
<1>2. /\ callState' \in [CallIds -> CallStates]
      /\ \A x \in CallIds : callState'[x] = IF x = c THEN s ELSE callState[x]
  BY <1>0, Zenon DEF SipTypeOK, GoCall
<1>3. SipTypeOK'
  BY <1>0, <1>2, Zenon DEF SipTypeOK, Contexts, Ports
<1>4. CallKnown'
  <2>1. \A b \in byes : b.call \in CallIds /\ b.call # c
    BY <1>0, SMTT(20) DEF SipTypeOK, Contexts, CallKnown
  <2>2. \A x \in CallIds : callState'[x] = "answering" => Talk(x)
    BY <1>0, <1>2 DEF CallKnown
  <2>3. \A x \in CallIds :
          ~ Talk(x) /\ callState'[x] \in PortStates \cup {"opening"} => mediaPort[x] \in Ports
    BY <1>0, <1>2 DEF CallKnown
  <2>4. \A b \in byes : callState'[b.call] \in {"active", "ended"}
    BY <1>0, <1>2, <2>1 DEF CallKnown
  <2> QED BY <1>0, <1>1, <2>1, <2>2, <2>3, <2>4, Zenon DEF CallKnown, Ports
<1>5. NumbersUnique'
  BY <1>0, Zenon DEF NumbersUnique
<1>6. PortsHeld'
  BY <1>0, <1>1, <1>2, Zenon DEF PortsHeld
<1>7. ReceiverKnown'
  <2>1. \A x \in CallIds : ~ Talk(x) => (callState'[x] \in PortStates <=> callState[x] \in PortStates)
    BY <1>2, Zenon
  <2>2. \A x \in CallIds : Play(x) => ~ Talk(x)
    BY DEF Play, Talk
  <2> QED BY <1>0, <1>1, <2>1, <2>2, Zenon DEF ReceiverKnown, Ports
<1>8. TalkSenderOwned'
  BY <1>0, <1>1, <1>2, Zenon DEF TalkSenderOwned, Active
<1> QED BY <1>3, <1>4, <1>5, <1>6, <1>7, <1>8, Zenon DEF SipInv

\* What the invariant does not speak of may change.
LEMMA OtherKeeps ==
  ASSUME SipInv, UNCHANGED <<calls, callState, mediaPort, receiver, nextMedia, apiClosed, byes>>,
         talking' \subseteq talking
  PROVE  SipInv'
<1>1. \A x \in CallIds : (Talk(x)' <=> Talk(x)) /\ (Play(x)' <=> Play(x))
  BY DEF Talk, Play
<1>2. SipTypeOK' /\ NumbersUnique' /\ TalkSenderOwned'
  BY <1>1, Zenon DEF SipInv, SipTypeOK, NumbersUnique, TalkSenderOwned, Active, Contexts, Ports, Talk
<1>3. CallKnown' /\ PortsHeld' /\ ReceiverKnown'
  BY <1>1, Zenon DEF SipInv, CallKnown, PortsHeld, ReceiverKnown, Ports, Talk, Play
<1> QED BY <1>2, <1>3, Zenon DEF SipInv

\* The context of an active dialog is copied.
LEMMA CopyKeeps ==
  ASSUME SipInv, NEW c \in CallIds, callState[c] = "active", byes' = byes \cup {Context(c)},
         UNCHANGED <<calls, callState, mediaPort, receiver, nextMedia, talking, apiClosed>>
  PROVE  SipInv'
<1>0. SipTypeOK /\ CallKnown /\ NumbersUnique /\ PortsHeld /\ ReceiverKnown /\ TalkSenderOwned
  BY Zenon DEF SipInv
<1>1. \A x \in CallIds : (Talk(x)' <=> Talk(x)) /\ (Play(x)' <=> Play(x))
  BY DEF Talk, Play
<1>2. Context(c) \in Contexts /\ Context(c).call = c /\ Context(c).port = mediaPort[c]
  BY <1>0 DEF SipTypeOK, Context, Contexts
<1>3. \A b \in byes' : b \in byes \/ (b.call = c /\ b.port = mediaPort[c])
  BY <1>2, Zenon
<1>4. \A b \in byes' : b.call \in CallIds
  BY <1>0, <1>3 DEF SipTypeOK, Contexts
<1>5. SipTypeOK'
  BY <1>0, <1>2 DEF SipTypeOK, Contexts, Ports
<1>6. CallKnown'
  <2>1. \A b \in byes' : callState[b.call] \in {"active", "ended"}
    BY <1>0, <1>3, Zenon DEF CallKnown
  <2>2. \A b \in byes' : Play(b.call) => b.port = mediaPort[b.call]
    BY <1>0, <1>3, Zenon DEF CallKnown
  <2> QED BY <1>0, <1>1, <1>4, <2>1, <2>2, Zenon DEF CallKnown, Ports
<1>7. NumbersUnique'
  <2> SUFFICES ASSUME nextMedia <= LastPort
               PROVE  /\ \A b \in byes' : b.port < nextMedia
                      /\ \A b \in byes', x \in CallIds : b.call # x => mediaPort[x] = -1 \/ mediaPort[x] # b.port
    BY <1>0, Zenon DEF NumbersUnique
  <2>1. \A b \in byes' : b.port < nextMedia
    BY <1>0, <1>3, Zenon DEF NumbersUnique
  <2>2. \A b \in byes', x \in CallIds : b.call # x => mediaPort[x] = -1 \/ mediaPort[x] # b.port
    BY <1>0, <1>3, Zenon DEF NumbersUnique
  <2> QED BY <2>1, <2>2, Zenon
<1>8. PortsHeld' /\ ReceiverKnown' /\ TalkSenderOwned'
  BY <1>0, <1>1, Zenon DEF PortsHeld, ReceiverKnown, TalkSenderOwned, Active, Ports, Talk
<1> QED BY <1>5, <1>6, <1>7, <1>8, Zenon DEF SipInv

\* The API closes a port, or none.
LEMMA ApiCloseKeeps ==
  ASSUME SipInv, NEW ports \in SUBSET Ports, ApiClose(ports),
         UNCHANGED <<calls, callState, mediaPort, nextMedia, talking, byes>>
  PROVE  SipInv'
<1>0. /\ SipTypeOK /\ CallKnown /\ NumbersUnique /\ PortsHeld /\ ReceiverKnown /\ TalkSenderOwned
      /\ 0 \notin CallIds
  BY SipFacts, Zenon DEF SipInv
<1>1. \A x \in CallIds : (Talk(x)' <=> Talk(x)) /\ (Play(x)' <=> Play(x))
  BY DEF Talk, Play
<1>2. /\ receiver' = [p \in Ports |-> IF p \in ports THEN 0 ELSE receiver[p]]
      /\ apiClosed' = apiClosed \cup ports
  BY Zenon DEF ApiClose, Ports
<1>3. SipTypeOK'
  BY <1>0, <1>2 DEF SipTypeOK, Contexts
<1>4. CallKnown' /\ NumbersUnique' /\ TalkSenderOwned'
  BY <1>0, <1>1, Zenon DEF CallKnown, NumbersUnique, TalkSenderOwned, Active, Ports, Talk, Play
<1>5. PortsHeld'
  <2> SUFFICES ASSUME nextMedia <= LastPort, NEW c \in CallIds, ~ Talk(c), callState[c] \in PortStates
               PROVE  receiver'[mediaPort[c]] = c \/ mediaPort[c] \in apiClosed'
    BY <1>1, Zenon DEF PortsHeld
  <2>1. mediaPort[c] \in Ports
    BY <1>0, Zenon DEF CallKnown
  <2>2. receiver[mediaPort[c]] = c \/ mediaPort[c] \in apiClosed
    BY <1>0, Zenon DEF PortsHeld
  <2> QED BY <1>2, <2>1, <2>2, Zenon
<1>6. ReceiverKnown'
  <2>1. \A p \in Ports, c \in CallIds : receiver'[p] = c => receiver[p] = c
    BY <1>0, <1>2
  <2> QED BY <1>0, <1>1, <2>1, Zenon DEF ReceiverKnown, Ports
<1> QED BY <1>3, <1>4, <1>5, <1>6, Zenon DEF SipInv

\* A device is dropped with its dialogs.
LEMMA UnregisterKeeps ==
  ASSUME SipInv, NEW d \in Devices, unregister_device(d),
         UNCHANGED <<calls, mediaPort, nextMedia, apiClosed, byes>>
  PROVE  SipInv'
<1>1. CASE d \in registry
  <2> DEFINE mine == {c \in Active : calls[c].device = d}
  <2>1. /\ mine \in SUBSET CallIds /\ \A c \in mine : callState[c] \in {"active", "pending"}
        /\ callState' = [c \in CallIds |-> IF c \in mine THEN "ended" ELSE callState[c]]
        /\ stop_media({Context(c) : c \in mine})
    BY <1>1, Zenon DEF unregister_device, Active
  <2> QED BY <2>1, EndOwnKeeps, Zenon
<1>2. CASE d \notin registry
  BY <1>2, OtherKeeps, Zenon DEF unregister_device
<1> QED BY <1>1, <1>2

\* A number below the size of the counter is its own remainder.
LEMMA SmallRemainder ==
  ASSUME NEW n \in Nat, NEW m \in Nat, n < m
  PROVE  n % m = n
OBVIOUS

LEMMA RemainderIsNatural ==
  ASSUME NEW n \in Nat, NEW m \in Nat, 0 < m
  PROVE  n % m \in Nat
OBVIOUS

\* The next number is one of a port, and fresh until the numbers run out.
LEMMA NextFresh ==
  ASSUME SipInv
  PROVE  NextPort \in Ports /\ (nextMedia <= LastPort => NextPort = nextMedia)
<1>1. LastPort \in Nat /\ nextMedia \in Nat /\ CounterSize \in Nat /\ LastPort < CounterSize
  BY SipCalls, SipFacts
<1>2. nextMedia % CounterSize \in Nat
  BY <1>1, RemainderIsNatural
<1>3. nextMedia <= LastPort => nextMedia % CounterSize = nextMedia
  BY <1>1, SmallRemainder
<1> QED BY <1>1, <1>2, <1>3 DEF NextPort, Ports

\* A call is given the next number.
LEMMA NumberKeeps ==
  ASSUME SipInv, NEW c \in CallIds,
         mediaPort' = [mediaPort EXCEPT ![c] = NextPort], nextMedia' = nextMedia + 1, UNCHANGED byes
  PROVE  /\ mediaPort' \in [CallIds -> Ports \cup {-1}] /\ nextMedia' \in Nat
         /\ mediaPort'[c] = NextPort /\ \A x \in CallIds : x # c => mediaPort'[x] = mediaPort[x]
         /\ NumbersUnique'
<1>1. /\ LastPort \in Nat /\ nextMedia \in Nat
      /\ \A x \in CallIds : mediaPort[x] \in Int
      /\ \A b \in byes : b.port \in Int
  BY SipFacts
<1>2. mediaPort \in [CallIds -> Ports \cup {-1}]
  BY Zenon DEF SipInv, SipTypeOK
<1>3. /\ mediaPort' \in [CallIds -> Ports \cup {-1}]
      /\ mediaPort'[c] = NextPort /\ \A x \in CallIds : x # c => mediaPort'[x] = mediaPort[x]
  BY <1>2, NextFresh, Zenon
<1>4. nextMedia' \in Nat
  BY <1>1
<1>5. NumbersUnique'
  <2> SUFFICES ASSUME nextMedia' <= LastPort
               PROVE  /\ \A x \in CallIds : mediaPort'[x] < nextMedia'
                      /\ \A x, y \in CallIds : x # y => mediaPort'[x] = -1 \/ mediaPort'[x] # mediaPort'[y]
                      /\ \A b \in byes : b.port < nextMedia'
                      /\ \A b \in byes, x \in CallIds : b.call # x => mediaPort'[x] = -1 \/ mediaPort'[x] # b.port
    BY Zenon DEF NumbersUnique
  <2>1. nextMedia <= LastPort
    BY <1>1
  <2>2. NextPort = nextMedia
    BY <2>1, NextFresh, Zenon
  <2>3. /\ \A x \in CallIds : mediaPort[x] < nextMedia
        /\ \A b \in byes : b.port < nextMedia
    BY <2>1, Zenon DEF SipInv, NumbersUnique
  <2>4. \A x \in CallIds : mediaPort[x] < nextMedia + 1 /\ mediaPort[x] # nextMedia
    BY <1>1, <2>3
  <2>5. \A b \in byes : b.port < nextMedia + 1 /\ b.port # nextMedia
    BY <1>1, <2>3
  <2>6. nextMedia < nextMedia + 1
    BY <1>1
  <2>7. \A x \in CallIds : mediaPort'[x] < nextMedia'
    BY <1>3, <2>2, <2>4, <2>6, Zenon
  <2>8. \A x, y \in CallIds : x # y => mediaPort'[x] = -1 \/ mediaPort'[x] # mediaPort'[y]
    <3>1. \A x, y \in CallIds : x # y => mediaPort[x] = -1 \/ mediaPort[x] # mediaPort[y]
      BY <2>1, Zenon DEF SipInv, NumbersUnique
    <3> SUFFICES ASSUME NEW x \in CallIds, NEW y \in CallIds, x # y
                 PROVE  mediaPort'[x] = -1 \/ mediaPort'[x] # mediaPort'[y]
      OBVIOUS
    <3>2. CASE x = c
      BY <1>3, <2>2, <2>4, <3>2, Zenon
    <3>3. CASE y = c
      BY <1>3, <2>2, <2>4, <3>3, Zenon
    <3>4. CASE x # c /\ y # c
      BY <1>3, <3>1, <3>4, Zenon
    <3> QED BY <3>2, <3>3, <3>4
  <2>9. \A b \in byes, x \in CallIds : b.call # x => mediaPort'[x] = -1 \/ mediaPort'[x] # b.port
    <3>1. \A b \in byes, x \in CallIds : b.call # x => mediaPort[x] = -1 \/ mediaPort[x] # b.port
      BY <2>1, Zenon DEF SipInv, NumbersUnique
    <3> QED BY <1>3, <2>2, <2>5, <3>1, Zenon
  <2> QED BY <2>5, <2>7, <2>8, <2>9, Zenon
<1> QED BY <1>3, <1>4, <1>5, Zenon

\* A call that has no port open is given the next number.
LEMMA NumberedKeeps ==
  ASSUME SipInv, NEW c \in CallIds, NEW s \in {"opening", "sending"},
         callState[c] \in {"idle", "opening"}, s = "sending" => Talk(c),
         ~ Talk(c) => Play(c),
         mediaPort' = [mediaPort EXCEPT ![c] = NextPort], nextMedia' = nextMedia + 1, GoCall(c, s),
         UNCHANGED <<calls, receiver, talking, apiClosed, byes>>
  PROVE  SipInv'
<1>0. SipTypeOK /\ CallKnown /\ PortsHeld /\ ReceiverKnown /\ TalkSenderOwned
  BY Zenon DEF SipInv
<1>1. /\ mediaPort' \in [CallIds -> Ports \cup {-1}] /\ nextMedia' \in Nat
      /\ mediaPort'[c] = NextPort /\ \A x \in CallIds : x # c => mediaPort'[x] = mediaPort[x]
      /\ NumbersUnique'
  BY NumberKeeps, Zenon
<1>2. \A x \in CallIds : (Talk(x)' <=> Talk(x)) /\ (Play(x)' <=> Play(x))
  BY DEF Talk, Play
<1>3. /\ callState' \in [CallIds -> CallStates]
      /\ callState'[c] = s /\ \A x \in CallIds : x # c => callState'[x] = callState[x]
  BY <1>0, Zenon DEF SipTypeOK, GoCall, CallStates
<1>4. NextPort \in Ports
  BY NextFresh
<1>5. SipTypeOK'
  BY <1>0, <1>1, <1>3, Zenon DEF SipTypeOK, Contexts, Ports
<1>6. \A b \in byes : b.call \in CallIds /\ b.call # c
  BY <1>0 DEF SipTypeOK, Contexts, CallKnown
<1>7. CallKnown'
  <2>1. \A x \in CallIds : callState'[x] = "answering" => Talk(x)
    BY <1>0, <1>3 DEF CallKnown
  <2>2. \A x \in CallIds :
          ~ Talk(x) /\ callState'[x] \in PortStates \cup {"opening"} => mediaPort'[x] \in Ports
    BY <1>0, <1>1, <1>3, <1>4, Zenon DEF CallKnown
  <2>3. \A b \in byes : callState'[b.call] \in {"active", "ended"}
    BY <1>0, <1>3, <1>6, Zenon DEF CallKnown
  <2>4. \A b \in byes : Play(b.call) => b.port = mediaPort'[b.call]
    BY <1>0, <1>1, <1>6, Zenon DEF CallKnown
  <2> QED BY <1>2, <1>6, <2>1, <2>2, <2>3, <2>4, Zenon DEF CallKnown, Ports
<1>8. ~ Talk(c) => s \notin PortStates
  BY DEF PortStates
<1>9. PortsHeld'
  <2> SUFFICES ASSUME nextMedia' <= LastPort, NEW x \in CallIds, ~ Talk(x), callState'[x] \in PortStates
               PROVE  receiver[mediaPort'[x]] = x \/ mediaPort'[x] \in apiClosed
    BY <1>2, Zenon DEF PortsHeld
  <2>1. x # c
    BY <1>3, <1>8, Zenon
  <2>2. nextMedia <= LastPort
    BY SipFacts
  <2> QED BY <1>0, <1>1, <1>3, <2>1, <2>2, Zenon DEF PortsHeld
<1>10. ReceiverKnown'
  <2>1. callState[c] \notin PortStates
    BY DEF PortStates
  <2>2. \A p \in Ports : receiver[p] # c
    BY <1>0, <2>1, Zenon DEF ReceiverKnown
  <2> QED BY <1>0, <1>1, <1>2, <1>3, <2>2, Zenon DEF ReceiverKnown, Ports
<1>11. TalkSenderOwned'
  <2>1. c \notin Active
    BY DEF Active
  <2> QED BY <1>0, <1>2, <1>3, <2>1, Zenon DEF TalkSenderOwned, Active
<1> QED BY <1>1, <1>5, <1>7, <1>9, <1>10, <1>11, Zenon DEF SipInv

\* A device's stream is given a port of its own, or the port cannot be opened.
LEMMA PushKeeps ==
  ASSUME SipInv, NEW c \in CallIds, invite_received_open(c)
  PROVE  SipInv'
<1>0. /\ SipTypeOK /\ CallKnown /\ NumbersUnique /\ PortsHeld /\ ReceiverKnown /\ TalkSenderOwned
      /\ LastPort \in Nat /\ nextMedia \in Nat /\ 0 \notin CallIds
      /\ \A x \in CallIds : mediaPort[x] \in Int
      /\ \A b \in byes : b.port \in Int
  BY SipFacts, Zenon DEF SipInv
<1>1. /\ ~ Talk(c) /\ ~ Play(c) /\ nextMedia' = nextMedia + 1
      /\ UNCHANGED <<calls, talking, apiClosed, byes>>
  BY Zenon DEF invite_received_open, Talk, Play
<1>2. \A x \in CallIds : (Talk(x)' <=> Talk(x)) /\ (Play(x)' <=> Play(x))
  BY <1>1 DEF Talk, Play
<1>3. nextMedia' \in Nat /\ (nextMedia' <= LastPort => nextMedia <= LastPort)
  BY <1>0, <1>1
<1>4. CASE UNCHANGED <<callState, mediaPort, receiver>>
  <2>1. SipTypeOK'
    BY <1>0, <1>1, <1>3, <1>4, Zenon DEF SipTypeOK, Contexts, Ports
  <2>2. CallKnown' /\ ReceiverKnown' /\ TalkSenderOwned'
    BY <1>0, <1>1, <1>2, <1>4, Zenon DEF CallKnown, ReceiverKnown, TalkSenderOwned, Active, Ports, Talk, Play
  <2>3. PortsHeld'
    BY <1>0, <1>1, <1>2, <1>3, <1>4, Zenon DEF PortsHeld
  <2>4. NumbersUnique'
    <3> SUFFICES ASSUME nextMedia' <= LastPort
                 PROVE  /\ \A x \in CallIds : mediaPort[x] < nextMedia'
                        /\ \A b \in byes : b.port < nextMedia'
      BY <1>0, <1>1, <1>3, <1>4, Zenon DEF NumbersUnique
    <3>1. (\A x \in CallIds : mediaPort[x] < nextMedia) /\ (\A b \in byes : b.port < nextMedia)
      BY <1>0, <1>3, Zenon DEF NumbersUnique
    <3> QED BY <1>0, <1>1, <3>1
  <2> QED BY <2>1, <2>2, <2>3, <2>4, Zenon DEF SipInv
<1>5. CASE /\ receiver[NextPort] = 0 /\ receiver' = [receiver EXCEPT ![NextPort] = c]
           /\ mediaPort' = [mediaPort EXCEPT ![c] = NextPort]
           /\ GoCall(c, "active")
  <2>1. /\ mediaPort' \in [CallIds -> Ports \cup {-1}]
        /\ mediaPort'[c] = NextPort /\ \A x \in CallIds : x # c => mediaPort'[x] = mediaPort[x]
        /\ NumbersUnique'
    BY <1>1, <1>5, NumberKeeps, Zenon
  <2>2. NextPort \in Ports
    BY NextFresh
  <2>3. /\ callState' \in [CallIds -> CallStates]
        /\ callState'[c] = "active" /\ \A x \in CallIds : x # c => callState'[x] = callState[x]
    BY <1>0, <1>5, Zenon DEF SipTypeOK, GoCall, CallStates
  <2>4. /\ receiver' \in [Ports -> CallIds \cup {0}]
        /\ receiver'[NextPort] = c /\ \A p \in Ports : p # NextPort => receiver'[p] = receiver[p]
    BY <1>0, <1>5, <2>2, Zenon DEF SipTypeOK
  <2>5. SipTypeOK'
    BY <1>0, <1>1, <1>3, <2>1, <2>3, <2>4, Zenon DEF SipTypeOK, Contexts, Ports
  <2>6. \A b \in byes : b.call \in CallIds /\ (Play(b.call) => b.call # c)
    BY <1>0, <1>1 DEF SipTypeOK, Contexts
  <2>7. CallKnown'
    <3>1. \A x \in CallIds : callState'[x] = "answering" => Talk(x)
      BY <1>0, <2>3 DEF CallKnown
    <3>2. \A x \in CallIds :
            ~ Talk(x) /\ callState'[x] \in PortStates \cup {"opening"} => mediaPort'[x] \in Ports
      BY <1>0, <2>1, <2>2, <2>3, Zenon DEF CallKnown
    <3>3. \A b \in byes : callState'[b.call] \in {"active", "ended"}
      BY <1>0, <2>3, <2>6, Zenon DEF CallKnown
    <3>4. \A b \in byes : Play(b.call) => b.port = mediaPort'[b.call]
      BY <1>0, <2>1, <2>6, Zenon DEF CallKnown
    <3> QED BY <1>1, <1>2, <2>6, <3>1, <3>2, <3>3, <3>4, Zenon DEF CallKnown, Ports
  <2>8. PortsHeld'
    <3> SUFFICES ASSUME nextMedia' <= LastPort, NEW x \in CallIds, ~ Talk(x), callState'[x] \in PortStates
                 PROVE  receiver'[mediaPort'[x]] = x \/ mediaPort'[x] \in apiClosed
      BY <1>1, <1>2, Zenon DEF PortsHeld
    <3>1. CASE x = c
      BY <2>1, <2>4, <3>1, Zenon
    <3>2. CASE x # c
      <4>1. callState[x] \in PortStates /\ mediaPort'[x] = mediaPort[x] /\ mediaPort[x] \in Ports
        BY <1>0, <2>1, <2>3, <3>2, Zenon DEF CallKnown
      <4>2. receiver[mediaPort[x]] = x \/ mediaPort[x] \in apiClosed
        BY <1>0, <1>3, <4>1, Zenon DEF PortsHeld
      <4>3. receiver[mediaPort[x]] = x => mediaPort[x] # NextPort
        BY <1>0, <1>5, Zenon
      <4> QED BY <2>4, <4>1, <4>2, <4>3, Zenon
    <3> QED BY <3>1, <3>2
  <2>9. ReceiverKnown'
    <3> SUFFICES ASSUME NEW p \in Ports, NEW x \in CallIds, receiver'[p] = x
                 PROVE  ~ Talk(x) /\ (Play(x) => p = mediaPort'[x] /\ callState'[x] \in PortStates)
      BY <1>2, Zenon DEF ReceiverKnown, Ports
    <3>1. CASE p = NextPort
      BY <1>1, <2>4, <3>1, Zenon
    <3>2. CASE p # NextPort
      <4>1. receiver[p] = x
        BY <2>4, <3>2, Zenon
      <4>2. ~ Talk(x) /\ (Play(x) => p = mediaPort[x] /\ callState[x] \in PortStates /\ x # c)
        BY <1>0, <1>1, <4>1, Zenon DEF ReceiverKnown
      <4> QED BY <2>1, <2>3, <4>2, Zenon
    <3> QED BY <3>1, <3>2
  <2>10. TalkSenderOwned'
    BY <1>0, <1>1, <1>2, <2>3, Zenon DEF TalkSenderOwned, Active
  <2> QED BY <2>1, <2>5, <2>7, <2>8, <2>9, <2>10, Zenon DEF SipInv
<1> QED BY <1>4, <1>5, Zenon DEF invite_received_open, Opens

\* The platform opens the port of its call, or cannot.
LEMMA OpenKeeps ==
  ASSUME SipInv, NEW c \in CallIds, invite_open(c)
  PROVE  SipInv'
<1>0. /\ SipTypeOK /\ CallKnown /\ NumbersUnique /\ PortsHeld /\ ReceiverKnown /\ TalkSenderOwned
      /\ 0 \notin CallIds
  BY SipFacts, Zenon DEF SipInv
<1>1. /\ callState[c] = "opening" /\ ~ Talk(c) /\ Play(c)
      /\ UNCHANGED <<calls, mediaPort, nextMedia, talking, apiClosed, byes>>
  BY DEF invite_open, Talk, Play
<1>2. \A x \in CallIds : (Talk(x)' <=> Talk(x)) /\ (Play(x)' <=> Play(x))
  BY <1>1 DEF Talk, Play
<1>3. CASE GoCall(c, "failed") /\ UNCHANGED receiver
  BY <1>1, <1>3, MoveKeeps DEF CallStates, PortStates
<1>4. CASE /\ GoCall(c, "sending") /\ receiver[mediaPort[c]] = 0
           /\ receiver' = [receiver EXCEPT ![mediaPort[c]] = c]
  <2>1. mediaPort[c] \in Ports
    BY <1>0, <1>1 DEF CallKnown
  <2>2. /\ callState' \in [CallIds -> CallStates]
        /\ callState'[c] = "sending" /\ \A x \in CallIds : x # c => callState'[x] = callState[x]
    BY <1>0, <1>4, Zenon DEF SipTypeOK, GoCall, CallStates
  <2>3. /\ receiver' \in [Ports -> CallIds \cup {0}]
        /\ receiver'[mediaPort[c]] = c /\ \A p \in Ports : p # mediaPort[c] => receiver'[p] = receiver[p]
    BY <1>0, <1>4, <2>1, Zenon DEF SipTypeOK
  <2>4. SipTypeOK'
    BY <1>0, <1>1, <2>2, <2>3, Zenon DEF SipTypeOK, Contexts, Ports
  <2>5. \A b \in byes : b.call \in CallIds /\ b.call # c
    BY <1>0, <1>1 DEF SipTypeOK, Contexts, CallKnown
  <2>6. CallKnown'
    <3>1. \A x \in CallIds : callState'[x] = "answering" => Talk(x)
      BY <1>0, <2>2 DEF CallKnown
    <3>2. \A x \in CallIds :
            ~ Talk(x) /\ callState'[x] \in PortStates \cup {"opening"} => mediaPort[x] \in Ports
      BY <1>0, <2>1, <2>2, Zenon DEF CallKnown
    <3>3. \A b \in byes : callState'[b.call] \in {"active", "ended"}
      BY <1>0, <2>2, <2>5, Zenon DEF CallKnown
    <3>4. \A b \in byes : Play(b.call) => b.port = mediaPort[b.call]
      BY <1>0, Zenon DEF CallKnown
    <3> QED BY <1>1, <1>2, <2>5, <3>1, <3>2, <3>3, <3>4, Zenon DEF CallKnown, Ports
  <2>7. NumbersUnique'
    BY <1>0, <1>1, Zenon DEF NumbersUnique
  <2>8. PortsHeld'
    <3> SUFFICES ASSUME nextMedia <= LastPort, NEW x \in CallIds, ~ Talk(x), callState'[x] \in PortStates
                 PROVE  receiver'[mediaPort[x]] = x \/ mediaPort[x] \in apiClosed
      BY <1>1, <1>2, Zenon DEF PortsHeld
    <3>1. CASE x = c
      BY <2>3, <3>1, Zenon
    <3>2. CASE x # c
      <4>1. callState[x] \in PortStates /\ mediaPort[x] \in Ports
        BY <1>0, <2>2, <3>2, Zenon DEF CallKnown
      <4>2. receiver[mediaPort[x]] = x \/ mediaPort[x] \in apiClosed
        BY <1>0, <4>1, Zenon DEF PortsHeld
      <4>3. receiver[mediaPort[x]] = x => mediaPort[x] # mediaPort[c]
        BY <1>0, <1>4, Zenon
      <4> QED BY <2>3, <4>1, <4>2, <4>3, Zenon
    <3> QED BY <3>1, <3>2
  <2>9. ReceiverKnown'
    <3> SUFFICES ASSUME NEW p \in Ports, NEW x \in CallIds, receiver'[p] = x
                 PROVE  ~ Talk(x) /\ (Play(x) => p = mediaPort[x] /\ callState'[x] \in PortStates)
      BY <1>1, <1>2, Zenon DEF ReceiverKnown, Ports
    <3>1. CASE p = mediaPort[c]
      BY <1>1, <2>2, <2>3, <3>1 DEF PortStates
    <3>2. CASE p # mediaPort[c]
      <4>1. receiver[p] = x
        BY <2>3, <3>2, Zenon
      <4>2. ~ Talk(x) /\ (Play(x) => p = mediaPort[x] /\ callState[x] \in PortStates /\ x # c)
        BY <1>0, <3>2, <4>1, Zenon DEF ReceiverKnown
      <4> QED BY <2>2, <4>2, Zenon
    <3> QED BY <3>1, <3>2
  <2>10. TalkSenderOwned'
    <3>1. c \notin talking
      BY <1>0, <1>1, Zenon DEF TalkSenderOwned
    <3> QED BY <1>0, <1>1, <1>2, <2>2, <3>1, Zenon DEF TalkSenderOwned, Active
  <2> QED BY <2>4, <2>6, <2>7, <2>8, <2>9, <2>10, Zenon DEF SipInv
<1> QED BY <1>3, <1>4, Zenon DEF invite_open, Opens

\* A talk's sender has started, or could not.
LEMMA TalkKeeps ==
  ASSUME SipInv, NEW c \in CallIds, handle_response_talk(c)
  PROVE  SipInv'
<1>0. SipTypeOK /\ CallKnown /\ NumbersUnique /\ PortsHeld /\ ReceiverKnown /\ TalkSenderOwned
  BY Zenon DEF SipInv
<1>1. PICK ok \in BOOLEAN :
        /\ talking' = IF ok THEN talking \cup {c} ELSE talking
        /\ callState' = [callState EXCEPT ![c] = IF ok THEN "active" ELSE "ended"]
  BY Zenon DEF handle_response_talk, talk_started, GoCall
<1>2. /\ Talk(c) /\ ~ Play(c) /\ callState[c] = "answering"
      /\ UNCHANGED <<calls, mediaPort, receiver, nextMedia, apiClosed, byes>>
  BY <1>0, Zenon DEF handle_response_talk, CallKnown, Talk, Play
<1>3. \A x \in CallIds : (Talk(x)' <=> Talk(x)) /\ (Play(x)' <=> Play(x))
  BY <1>2 DEF Talk, Play
<1>4. /\ callState' \in [CallIds -> CallStates]
      /\ callState'[c] \in {"active", "ended"} /\ (ok => callState'[c] = "active")
      /\ \A x \in CallIds : x # c => callState'[x] = callState[x]
  BY <1>0, <1>1, Zenon DEF SipTypeOK, CallStates
<1>5. SipTypeOK'
  BY <1>0, <1>2, <1>4, Zenon DEF SipTypeOK, Contexts, Ports
<1>6. \A b \in byes : b.call \in CallIds
  BY <1>0 DEF SipTypeOK, Contexts
<1>7. CallKnown'
  <2>1. \A x \in CallIds : callState'[x] = "answering" => Talk(x)
    BY <1>0, <1>2, <1>4, Zenon DEF CallKnown
  <2>2. \A x \in CallIds :
          ~ Talk(x) /\ callState'[x] \in PortStates \cup {"opening"} => mediaPort[x] \in Ports
    BY <1>0, <1>2, <1>4, Zenon DEF CallKnown
  <2>3. \A b \in byes : callState'[b.call] \in {"active", "ended"}
    BY <1>0, <1>4, <1>6, Zenon DEF CallKnown
  <2> QED BY <1>0, <1>2, <1>3, <1>6, <2>1, <2>2, <2>3, Zenon DEF CallKnown, Ports
<1>8. NumbersUnique'
  BY <1>0, <1>2, Zenon DEF NumbersUnique
<1>9. PortsHeld' /\ ReceiverKnown'
  BY <1>0, <1>2, <1>3, <1>4, Zenon DEF PortsHeld, ReceiverKnown, Ports
<1>10. TalkSenderOwned'
  <2> SUFFICES ASSUME NEW t \in talking' PROVE t \in CallIds /\ callState'[t] = "active" /\ Talk(t)
    BY <1>2, <1>3, Zenon DEF TalkSenderOwned, Active
  <2>1. CASE t \in talking
    <3>1. t \in CallIds /\ callState[t] = "active" /\ Talk(t)
      BY <1>0, <2>1, Zenon DEF TalkSenderOwned, Active
    <3>2. t # c
      BY <1>2, <3>1
    <3> QED BY <1>4, <3>1, <3>2, Zenon
  <2>2. CASE t \notin talking
    <3>1. t = c /\ ok
      BY <1>1, <2>2, Zenon
    <3> QED BY <1>2, <1>4, <3>1, Zenon
  <2> QED BY <2>1, <2>2
<1> QED BY <1>5, <1>7, <1>8, <1>9, <1>10, Zenon DEF SipInv

\* A bye_dialog removes the dialog that it found and stops what it copied.
LEMMA ByeKeeps ==
  ASSUME SipInv, NEW ctx \in byes, bye_remove(ctx)
  PROVE  SipInv'
<1>1. /\ ctx \in Contexts /\ ctx.call \in CallIds /\ callState[ctx.call] \in {"active", "ended"}
      /\ Play(ctx.call) => ctx.port = mediaPort[ctx.call]
  BY SipFacts DEF SipInv, SipTypeOK, CallKnown
<1> DEFINE ends == {c \in {ctx.call} : callState[c] = "active"}
<1>2. callState' = [c \in CallIds |-> IF c \in ends THEN "ended" ELSE callState[c]]
  BY <1>1, Zenon DEF bye_remove, SipInv, SipTypeOK
<1>3. /\ stop_media({ctx}) /\ byes' \subseteq byes
      /\ UNCHANGED <<calls, mediaPort, nextMedia, apiClosed>>
  BY Zenon DEF bye_remove
<1>4. \A c \in CallIds :
        nextMedia <= LastPort /\ ctx.call # c => mediaPort[c] = -1 \/ mediaPort[c] # ctx.port
  BY Zenon DEF SipInv, NumbersUnique
<1>5. /\ ends \in SUBSET CallIds /\ \A c \in ends : callState[c] \in {"active", "pending"} /\ c = ctx.call
      /\ ctx.call \in ends \/ callState[ctx.call] = "ended"
  BY <1>1
<1> HIDE DEF ends
<1> QED BY <1>1, <1>2, <1>3, <1>4, <1>5, EndKeeps, Zenon

\* Every step of messages, calls and the maintainer keeps the invariant.
LEMMA SipStep == SipInv /\ [SipNext]_sipVars => SipInv'
<1> SUFFICES ASSUME SipInv, [SipNext]_sipVars PROVE SipInv'
  OBVIOUS
<1>0. \A c \in CallIds : calls[c].kind \in {"play", "push", "talk"}
  BY SipFacts
<1>1. ASSUME NEW d \in Devices, handle_register(d) PROVE SipInv'
  BY <1>1, UnregisterKeeps, OtherKeeps, SMTT(20) DEF handle_register
<1>2. ASSUME NEW d \in Devices, handle_message(d) \/ lapse(d) PROVE SipInv'
  BY <1>2, OtherKeeps DEF handle_message, lapse, mediaVars
<1>3. ASSUME NEW d \in Devices, expire_device(d) PROVE SipInv'
  BY <1>3, UnregisterKeeps DEF expire_device
<1>4. ASSUME NEW c \in CallIds, handle_invite_received(c) \/ talk_sender_ends(c) PROVE SipInv'
  <2>1. /\ UNCHANGED <<calls, callState, mediaPort, receiver, nextMedia, apiClosed, byes>>
        /\ talking' \subseteq talking
    BY <1>4 DEF handle_invite_received, talk_sender_ends, mediaVars
  <2> QED BY <2>1, OtherKeeps
<1>5. ASSUME NEW c \in CallIds, invite_received_open(c) PROVE SipInv'
  BY <1>5, PushKeeps
<1>6. ASSUME NEW c \in CallIds, handle_bye(c) \/ handle_response_error(c) PROVE SipInv'
  <2>1. /\ callState[c] \in {"active", "pending"} /\ stop_media({Context(c)})
        /\ callState' = [callState EXCEPT ![c] = "ended"]
        /\ UNCHANGED <<calls, mediaPort, nextMedia, apiClosed, byes>>
    BY <1>6 DEF handle_bye, handle_response_error, GoCall, Active, Pending
  <2>2. callState' = [x \in CallIds |-> IF x \in {c} THEN "ended" ELSE callState[x]]
    BY <2>1, Zenon DEF SipInv, SipTypeOK
  <2>3. {Context(c)} = {Context(x) : x \in {c}}
    OBVIOUS
  <2> QED BY <2>1, <2>2, <2>3, EndOwnKeeps, Zenon
<1>7. ASSUME NEW c \in CallIds, handle_response_ok(c) PROVE SipInv'
  <2>1. PICK s \in {"active", "answering", "ended"} : GoCall(c, s) /\ (s = "active" <=> ~ Talk(c))
    BY <1>7, Zenon DEF handle_response_ok
  <2>2. callState[c] = "pending" /\ UNCHANGED <<calls, mediaPort, receiver, nextMedia, talking, apiClosed, byes>>
    BY <1>7 DEF handle_response_ok, Pending, mediaVars
  <2> QED BY <2>1, <2>2, MoveKeeps DEF CallStates, PortStates
<1>8. ASSUME NEW c \in CallIds, handle_response_talk(c) PROVE SipInv'
  BY <1>8, TalkKeeps
<1>9. ASSUME NEW c \in CallIds, invite(c) PROVE SipInv'
  <2>0. /\ callState[c] = "idle" /\ ~ Talk(c) /\ Play(c)
        /\ UNCHANGED <<calls, receiver, talking, apiClosed, byes>>
    BY <1>9, Zenon DEF invite, Talk, Play
  <2>1. CASE GoCall(c, "failed") /\ UNCHANGED <<mediaPort, nextMedia>>
    BY <2>0, <2>1, MoveKeeps DEF CallStates, PortStates
  <2>2. CASE /\ mediaPort' = [mediaPort EXCEPT ![c] = NextPort] /\ nextMedia' = nextMedia + 1
             /\ GoCall(c, "opening")
    <3>1. callState[c] \in {"idle", "opening"} /\ "opening" \in {"opening", "sending"} /\ "opening" # "sending"
      BY <2>0
    <3> QED BY <2>0, <2>2, <3>1, NumberedKeeps, Zenon
  <2> QED BY <1>9, <2>1, <2>2, Zenon DEF invite
<1>10. ASSUME NEW c \in CallIds, invite_open(c) PROVE SipInv'
  BY <1>10, OpenKeeps
<1>11. ASSUME NEW c \in CallIds, start_talk(c) PROVE SipInv'
  <2>1. PICK s \in {"opening", "failed"} : GoCall(c, s)
    BY <1>11, Zenon DEF start_talk
  <2>2. Talk(c) /\ callState[c] = "idle" /\ UNCHANGED <<calls, mediaPort, receiver, nextMedia, talking, apiClosed, byes>>
    BY <1>11 DEF start_talk, mediaVars
  <2> QED BY <2>1, <2>2, MoveKeeps, Zenon DEF CallStates, PortStates
<1>12. ASSUME NEW c \in CallIds, start_talk_codec(c) PROVE SipInv'
  <2>0. callState[c] = "opening" /\ Talk(c) /\ UNCHANGED <<calls, receiver, talking, apiClosed, byes>>
    BY <1>12 DEF start_talk_codec
  <2>1. CASE GoCall(c, "failed") /\ UNCHANGED <<mediaPort, nextMedia>>
    BY <2>0, <2>1, MoveKeeps DEF CallStates, PortStates
  <2>2. CASE /\ mediaPort' = [mediaPort EXCEPT ![c] = NextPort] /\ nextMedia' = nextMedia + 1
             /\ GoCall(c, "sending")
    <3>1. callState[c] \in {"idle", "opening"} /\ "sending" \in {"opening", "sending"}
      BY <2>0
    <3> QED BY <2>0, <2>2, <3>1, NumberedKeeps, Zenon
  <2> QED BY <1>12, <2>1, <2>2, Zenon DEF start_talk_codec
<1>13. ASSUME NEW c \in CallIds, invite_send(c) \/ invite_insert(c) PROVE SipInv'
  <2>1. PICK s \in {"sent", "unsent", "pending"} : GoCall(c, s)
    BY <1>13, Zenon DEF invite_send, invite_insert
  <2>2. /\ callState[c] \in {"sending", "sent"}
        /\ UNCHANGED <<calls, mediaPort, receiver, nextMedia, talking, apiClosed, byes>>
    BY <1>13 DEF invite_send, invite_insert, mediaVars
  <2> QED BY <2>1, <2>2, MoveKeeps DEF CallStates, PortStates
<1>14. ASSUME NEW ch \in Channels, bye_stream(ch) \/ stop_talk(ch) PROVE SipInv'
  <2>1. PICK talk \in BOOLEAN : bye_dialog(ch, talk)
    BY <1>14, Zenon DEF bye_stream, stop_talk
  <2>2. UNCHANGED <<calls, callState, mediaPort, receiver, nextMedia, talking, apiClosed>>
    BY <2>1 DEF bye_dialog, mediaVars
  <2>3. CASE UNCHANGED byes
    BY <2>2, <2>3, OtherKeeps
  <2>4. CASE \E c \in ByeCandidates(ch, talk) : byes' = byes \cup {Context(c)}
    <3>1. PICK c \in CallIds : callState[c] = "active" /\ byes' = byes \cup {Context(c)}
      BY <2>4, Zenon DEF ByeCandidates, Active
    <3> QED BY <2>2, <3>1, CopyKeeps, Zenon
  <2> QED BY <2>1, <2>3, <2>4, Zenon DEF bye_dialog
<1>15. ASSUME NEW ctx \in byes, bye_remove(ctx) PROVE SipInv'
  BY <1>15, ByeKeeps
<1>16. ASSUME NEW p \in 0 .. LastPort, closeRtpServer(p) PROVE SipInv'
  <2>1. /\ {p} \in SUBSET Ports /\ ApiClose({p})
        /\ UNCHANGED <<calls, callState, mediaPort, nextMedia, talking, byes>>
    BY <1>16, Zenon DEF closeRtpServer, Ports
  <2> QED BY <2>1, ApiCloseKeeps, Zenon
<1>17. ASSUME NEW ch \in Channels, stopRtp(ch) PROVE SipInv'
  <2>1. PICK ports \in PortsOf(ch) : ApiClose(ports)
    BY <1>17, Zenon DEF stopRtp
  <2>2. ports \in SUBSET Ports
    BY <2>1 DEF PortsOf, Ports
  <2>3. UNCHANGED <<calls, callState, mediaPort, nextMedia, talking, byes>>
    BY <1>17, Zenon DEF stopRtp
  <2> QED BY <2>1, <2>2, <2>3, ApiCloseKeeps, Zenon
<1>18. ASSUME NEW q \in QueryIds, send_query(q) \/ query_timeout(q) PROVE SipInv'
  BY <1>18, OtherKeeps, SMTT(20) DEF send_query, query_timeout, mediaVars
<1>19. CASE stop \/ expire_devices \/ run_ends \/ UNCHANGED sipVars
  BY <1>19, OtherKeeps DEF stop, expire_devices, run_ends, sipVars, mediaVars
<1> QED BY <1>1, <1>2, <1>3, <1>4, <1>5, <1>6, <1>7, <1>8, <1>9, <1>10, <1>11, <1>12, <1>13, <1>14,
           <1>15, <1>16, <1>17, <1>18, <1>19, Zenon DEF SipNext

\* There is no dialog at first.
LEMMA SipStart == SipInit => SipInv
<1> SUFFICES ASSUME SipInit PROVE SipInv
  OBVIOUS
<1>0. LastPort \in Nat /\ 0 \notin CallIds /\ FirstMedia \subseteq Nat
  BY SipCalls
<1>1. SipTypeOK
  BY <1>0 DEF SipInit, SipTypeOK, CallStates, Ports
<1>2. /\ \A c \in CallIds : callState[c] = "idle" /\ mediaPort[c] = -1
      /\ \A p \in Ports : receiver[p] = 0
      /\ byes = {} /\ talking = {} /\ nextMedia \in Nat
  BY <1>0 DEF SipInit, Ports
<1>3. CallKnown /\ PortsHeld
  BY <1>2 DEF CallKnown, PortsHeld, PortStates
<1>4. NumbersUnique
  BY <1>2 DEF NumbersUnique
<1>5. ReceiverKnown /\ TalkSenderOwned
  BY <1>0, <1>2, Zenon DEF ReceiverKnown, TalkSenderOwned
<1> QED BY <1>1, <1>3, <1>4, <1>5, Zenon DEF SipInv

\* For any devices, dialogs, calls of the API and supply of ports: until the numbers run
\* out, an active stream has its own port open unless the API closed it; a dialog that the
\* platform began and that has ended receives on no port; and a talk sends only with a
\* dialog (sip.rs, stop_media and its callers).
THEOREM DialogMediaTheorem == SipSpec => []DialogMediaOwned
<1>1. SipInv => DialogMediaOwned
  <2> SUFFICES ASSUME SipInv PROVE DialogMediaOwned
    OBVIOUS
  <2>1. ActivePortOpen
    BY Zenon DEF SipInv, PortsHeld, PortStates, ActivePortOpen, Active
  <2>2. EndedPortClosed
    <3>1. "ended" \notin PortStates
      BY DEF PortStates
    <3> QED BY <3>1, Zenon DEF SipInv, ReceiverKnown, EndedPortClosed, Ports, Play
  <2> QED BY <2>1, <2>2, Zenon DEF SipInv, DialogMediaOwned
<1> QED BY <1>1, SipStart, SipStep, PTL DEF SipSpec

=============================================================================
