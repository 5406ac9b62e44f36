--------------------------- MODULE WebRtcSessions ---------------------------
(***************************************************************************)
(* The WHEP and WHIP resources of the WebRTC server: the negotiation that  *)
(* a POST waits for, the table that DELETE, PATCH and the watchers of the  *)
(* peer connections share, and the ICE restarts of two PATCH requests.     *)
(* What a WHIP session does to the stream registry is in Publishing.       *)
(*                                                                         *)
(* A peer connection is the `webrtc` crate's: its state changes and the    *)
(* end of its candidate gathering happen when they happen.  An SDP is the  *)
(* number of the request that brought it, 0 the POST.  A peer can neither  *)
(* connect nor fail before the answer is sent, so no state change precedes *)
(* the watcher.                                                            *)
(***************************************************************************)
EXTENDS Integers, FiniteSets

CONSTANTS WrPosts,      \* POST requests; each may become a session
          WrPatches,    \* PATCH requests
          SdpFragments,    \* SDP fragments: which of the lines each of them has
          MaxFlaps      \* bound: state changes of a peer connection

VARIABLES wrKind,      \* wrKind[p]: "play" (WHEP) or "publish" (WHIP)
          wrAt,        \* wrAt[p]: where POST p, then its session, is
          wrGathered,  \* wrGathered[p]: the last candidate was signalled
          wrPc,        \* wrPc[p]: the connection_state of the peer
          wrListed,    \* the resources in play_sessions and publish_sessions
          wrReader,    \* the sessions that count as a reader of their source
          wrWatch,     \* wrWatch[p]: tasks that its state changes spawned
          wrFlaps,     \* wrFlaps[p]: state changes so far
          wrPatch,     \* wrPatch[r]: [at, on, frag, reply] of PATCH r
          wrRemote,    \* wrRemote[p]: whose credentials the remote SDP has
          wrLocal      \* wrLocal[p]: the remote SDP that the local one answers

wrTable == <<wrListed, wrReader>>
wrPeer == <<wrPc, wrWatch, wrFlaps>>
wrSdp == <<wrRemote, wrLocal>>
wrVars == <<wrKind, wrAt, wrGathered, wrPc, wrListed, wrReader, wrWatch,
            wrFlaps, wrPatch, wrRemote, wrLocal>>

NoFragment == [ufrag |-> FALSE, pwd |-> FALSE, cand |-> FALSE, end |-> FALSE]
IdlePatch == [at |-> "idle", on |-> 0, frag |-> NoFragment, reply |-> -1]

WrInit ==
  /\ wrKind \in [WrPosts -> {"play", "publish"}]
  /\ wrAt = [p \in WrPosts |-> "idle"]
  /\ wrGathered = [p \in WrPosts |-> FALSE]
  /\ wrPc = [p \in WrPosts |-> "new"]
  /\ wrListed = {}
  /\ wrReader = {}
  /\ wrWatch = [p \in WrPosts |-> {}]
  /\ wrFlaps = [p \in WrPosts |-> 0]
  /\ wrPatch = [r \in WrPatches |-> IdlePatch]
  /\ wrRemote = [p \in WrPosts |-> 0]
  /\ wrLocal = [p \in WrPosts |-> 0]

wr_goto(p, place) == wrAt' = [wrAt EXCEPT ![p] = place]

----------------------------------------------------------------------------
\* POST.

\* handle_play and handle_publish up to the negotiation: a player needs a
\* source, and the simulcast layer that it asks for.
handle_post(p) ==
  /\ wrAt[p] = "idle"
  /\ \/ wr_goto(p, "negotiating")
     \/ wrKind[p] = "play" /\ wr_goto(p, "refused")
  /\ UNCHANGED <<wrKind, wrGathered, wrPeer, wrTable, wrPatch, wrSdp>>

\* whep_play_with_transport and whip_publish_with_transport up to the local
\* description, which starts the gathering; any of the calls may fail.
set_local_description(p) ==
  /\ wrAt[p] = "negotiating"
  /\ wr_goto(p, "described") \/ wr_goto(p, "refused")
  /\ UNCHANGED <<wrKind, wrGathered, wrPeer, wrTable, wrPatch, wrSdp>>

\* gathering_done.notified().await
await_gathering(p) ==
  /\ wrAt[p] = "described"
  /\ wr_goto(p, "waiting")
  /\ UNCHANGED <<wrKind, wrGathered, wrPeer, wrTable, wrPatch, wrSdp>>

\* The callback of the last candidate: notify_waiters wakes who waits and
\* leaves nothing for who comes later.
on_ice_candidate(p) ==
  /\ wrAt[p] \in {"described", "waiting"} /\ ~wrGathered[p]
  /\ wrGathered' = [wrGathered EXCEPT ![p] = TRUE]
  /\ wr_goto(p, IF wrAt[p] = "waiting" THEN "woken" ELSE wrAt[p])
  /\ UNCHANGED <<wrKind, wrPeer, wrTable, wrPatch, wrSdp>>

\* The rest of the negotiation and of the POST: the session counts as a reader
\* (WHEP), is listed and watched, and the answer is sent.
post_answered(p) ==
  /\ wrAt[p] = "woken"
  /\ wr_goto(p, "live")
  /\ wrListed' = wrListed \cup {p}
  /\ wrReader' = IF wrKind[p] = "play" THEN wrReader \cup {p} ELSE wrReader
  /\ UNCHANGED <<wrKind, wrGathered, wrPeer, wrPatch, wrSdp>>

----------------------------------------------------------------------------
\* The peer connection and its watchers.

PcChanges == { <<"new", "connected">>, <<"new", "failed">>,
               <<"connected", "disconnected">>, <<"disconnected", "connected">>,
               <<"disconnected", "failed">> }

\* Mutant: only the loss that may heal is looked at.
watch_session_grace(p, state) ==
  IF state = "disconnected"
  THEN wrWatch[p] \cup {[nr |-> wrFlaps[p], grace |-> TRUE]}
  ELSE wrWatch[p]

\* The closure of watch_whep_session and watch_whip_session: which task the
\* change to state spawns.
watch_session(p, state) ==
  IF state \in {"disconnected", "failed", "closed"}
  THEN wrWatch[p] \cup {[nr |-> wrFlaps[p], grace |-> state = "disconnected"]}
  ELSE wrWatch[p]

\* The peer comes, goes, returns or is given up.
pc_changes(p) ==
  /\ wrAt[p] \in {"live", "closing", "unread"}
  /\ wrFlaps[p] < MaxFlaps
  /\ \E c \in PcChanges :
       /\ c[1] = wrPc[p]
       /\ wrPc' = [wrPc EXCEPT ![p] = c[2]]
       /\ wrWatch' = [wrWatch EXCEPT ![p] = watch_session(p, c[2])]
  /\ wrFlaps' = [wrFlaps EXCEPT ![p] = @ + 1]
  /\ UNCHANGED <<wrKind, wrAt, wrGathered, wrTable, wrPatch, wrSdp>>

should_close(p, t) ==
  \/ wrPc[p] \in {"failed", "closed"}
  \/ t.grace /\ wrPc[p] = "disconnected"

\* sessions.remove(resource): whoever gets the session closes it.
remove_session(p) ==
  /\ wrListed' = wrListed \ {p}
  /\ IF p \in wrListed THEN wr_goto(p, "closing") ELSE UNCHANGED wrAt

\* The task that a state change spawned, after its 10 seconds if it has any.
watch_task(p) ==
  \E t \in wrWatch[p] :
    /\ wrWatch' = [wrWatch EXCEPT ![p] = @ \ {t}]
    /\ IF should_close(p, t) THEN remove_session(p) ELSE UNCHANGED <<wrListed, wrAt>>
    /\ UNCHANGED <<wrKind, wrGathered, wrPc, wrReader, wrFlaps, wrPatch, wrSdp>>

----------------------------------------------------------------------------
\* DELETE and the teardown.

\* handle_delete; an unknown resource is answered 404.
handle_delete(p) ==
  /\ p \in wrListed
  /\ remove_session(p)
  /\ UNCHANGED <<wrKind, wrGathered, wrPeer, wrReader, wrPatch, wrSdp>>

\* WhepSession::close up to the peer connection: the pump is told to stop and
\* the reader is given back.  (WhipSession::close closes its source: see
\* Publishing.)
close_reader(p) ==
  /\ wrAt[p] = "closing"
  /\ wr_goto(p, "unread")
  /\ wrReader' = wrReader \ {p}
  /\ UNCHANGED <<wrKind, wrGathered, wrPeer, wrListed, wrPatch, wrSdp>>

\* pc.close(): its own change of state reaches the watcher too.
close_pc(p) ==
  /\ wrAt[p] = "unread"
  /\ wr_goto(p, "closed")
  /\ wrPc' = [wrPc EXCEPT ![p] = "closed"]
  /\ wrWatch' = [wrWatch EXCEPT ![p] = watch_session(p, "closed")]
  /\ UNCHANGED <<wrKind, wrGathered, wrTable, wrFlaps, wrPatch, wrSdp>>

----------------------------------------------------------------------------
\* PATCH.

\* Some: a restart, None: trickled candidates, Err: a password without a name.
parse_ice_credentials(f) ==
  IF f.ufrag /\ f.pwd THEN "Some" ELSE IF f.pwd THEN "Err" ELSE "None"

\* A fragment without credentials has a candidate or says that none will come.
parse_sdpfrag_candidates(f) ==
  IF \/ parse_ice_credentials(f) = "Err"
     \/ ~f.cand /\ ~f.end /\ parse_ice_credentials(f) = "None"
  THEN "Err" ELSE "Ok"

IsRestart(r) == parse_ice_credentials(wrPatch[r].frag) = "Some"

patch_goes(r, place) == wrPatch' = [wrPatch EXCEPT ![r].at = place]

\* The status and, of a restart, the SDP that it answers.
patch_replies(r, place, sdp) ==
  wrPatch' = [wrPatch EXCEPT ![r].at = place, ![r].reply = sdp]

\* handle_patch up to the lock: the connection is taken out of the table, and
\* stays in hand whatever becomes of the session.
patch_found(r) ==
  /\ wrPatch[r].at = "idle"
  /\ \E p \in WrPosts, frag \in SdpFragments :
       /\ p \in wrListed
       /\ wrPatch' = [wrPatch EXCEPT ![r] =
                        [IdlePatch EXCEPT !.at = "found", !.on = p, !.frag = frag]]
  /\ UNCHANGED <<wrKind, wrAt, wrGathered, wrPeer, wrTable, wrSdp>>

Held_by(p) == {r \in WrPatches : wrPatch[r].on = p
                                 /\ wrPatch[r].at \in {"locked", "offered", "answered"}}

\* Mutant: restarts are not serialized.
patch_locked_free(r) ==
  /\ wrPatch[r].at = "found"
  /\ patch_goes(r, "locked")
  /\ UNCHANGED <<wrKind, wrAt, wrGathered, wrPeer, wrTable, wrSdp>>

\* negotiation.lock().await
patch_locked(r) ==
  /\ wrPatch[r].at = "found"
  /\ Held_by(wrPatch[r].on) = {}
  /\ patch_goes(r, "locked")
  /\ UNCHANGED <<wrKind, wrAt, wrGathered, wrPeer, wrTable, wrSdp>>

\* A fragment that does not parse is refused (400); the candidates of the
\* others go to the connection, which may refuse them (400) and, closed, does.
patch_trickle(r) ==
  /\ wrPatch[r].at = "locked"
  /\ ~IsRestart(r)
  /\ \/ /\ parse_sdpfrag_candidates(wrPatch[r].frag) = "Ok"
        /\ wrPatch[r].frag.cand => wrPc[wrPatch[r].on] # "closed"
        /\ patch_goes(r, "added")
     \/ /\ parse_sdpfrag_candidates(wrPatch[r].frag) = "Err" \/ wrPatch[r].frag.cand
        /\ patch_goes(r, "refused")
  /\ UNCHANGED <<wrKind, wrAt, wrGathered, wrPeer, wrTable, wrSdp>>

\* restart_ice: the old offer with the new credentials becomes the remote
\* description,
patch_offer(r) ==
  /\ wrPatch[r].at = "locked" /\ IsRestart(r)
  /\ wrPc[wrPatch[r].on] # "closed"
  /\ wrRemote' = [wrRemote EXCEPT ![wrPatch[r].on] = r]
  /\ patch_goes(r, "offered")
  /\ UNCHANGED <<wrKind, wrAt, wrGathered, wrPeer, wrTable, wrLocal>>

\* the answer to it the local one,
patch_answer(r) ==
  /\ wrPatch[r].at = "offered"
  /\ wrPc[wrPatch[r].on] # "closed"
  /\ wrLocal' = [wrLocal EXCEPT ![wrPatch[r].on] = wrRemote[wrPatch[r].on]]
  /\ patch_goes(r, "answered")
  /\ UNCHANGED <<wrKind, wrAt, wrGathered, wrPeer, wrTable, wrRemote>>

\* and what is the local one after the gathering is sent back (200).
patch_reply(r) ==
  /\ wrPatch[r].at = "answered"
  /\ patch_replies(r, "restarted", wrLocal[wrPatch[r].on])
  /\ UNCHANGED <<wrKind, wrAt, wrGathered, wrPeer, wrTable, wrSdp>>

\* Any of its calls fails, or the gathering takes more than 10 s (409).
patch_fails(r) ==
  /\ IsRestart(r)
  /\ wrPatch[r].at \in {"locked", "offered", "answered"}
  /\ patch_goes(r, "refused")
  /\ UNCHANGED <<wrKind, wrAt, wrGathered, wrPeer, wrTable, wrSdp>>

----------------------------------------------------------------------------
PostStep(p) == set_local_description(p) \/ await_gathering(p) \/ post_answered(p)
CloseStep(p) == close_reader(p) \/ close_pc(p)
PatchStep(r) ==
  \/ patch_locked(r) \/ patch_trickle(r) \/ patch_offer(r) \/ patch_answer(r)
  \/ patch_reply(r) \/ patch_fails(r)

WrNext ==
  \/ \E p \in WrPosts :
       \/ handle_post(p) \/ PostStep(p) \/ on_ice_candidate(p) \/ pc_changes(p)
       \/ watch_task(p) \/ handle_delete(p) \/ CloseStep(p)
  \/ \E r \in WrPatches : patch_found(r) \/ PatchStep(r)

\* The tasks of the server run, the gathering ends, a sleep of 10 s ends.
WrFairness ==
  \A p \in WrPosts :
    /\ WF_wrVars(PostStep(p)) /\ WF_wrVars(on_ice_candidate(p))
    /\ WF_wrVars(watch_task(p)) /\ WF_wrVars(CloseStep(p))

WrSpec == WrInit /\ [][WrNext]_wrVars /\ WrFairness

----------------------------------------------------------------------------
\* A restart is answered with the local description made for its own
\* credentials, whatever other PATCH requests the session has in flight
\* (server.rs handle_patch and restart_ice, which reads the description back
\* from the connection only at the end).
WrPatchOwnAnswer ==
  \A r \in WrPatches : wrPatch[r].at = "restarted" => wrPatch[r].reply = r

\* No source counts a reader whose peer connection is closed, and a session
\* that left the table still has its connection only while its teardown is at
\* work (WhepSession::close gives the reader back before the connection).
WrReaderBacked ==
  \A p \in WrPosts :
    /\ p \in wrReader => wrPc[p] # "closed" /\ wrAt[p] \in {"live", "closing"}
    /\ wrAt[p] = "closed" => wrPc[p] = "closed" /\ p \notin wrListed

\* PATCH requests get their own answers, and readers and resources are given back
\* with the connection.
WrSessionsExact == WrPatchOwnAnswer /\ WrReaderBacked

\* A session whose peer is lost is torn down although nobody DELETEs it, unless
\* the peer comes back: the loss may come while an earlier grace period still
\* runs (watch_whep_session and watch_whip_session).
WrGoneCleaned ==
  \A p \in WrPosts :
    wrPc[p] \in {"failed", "disconnected"} ~> wrPc[p] \in {"closed", "connected"}

\* Every POST that was taken up is answered: server.rs says that "the client
\* POSTs an SDP offer and gets an SDP answer back".
WrPostAnswered ==
  \A p \in WrPosts : wrAt[p] = "negotiating" ~> wrAt[p] \notin {"described", "waiting", "negotiating"}
=============================================================================
