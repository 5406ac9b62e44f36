---------------------------- MODULE TranscodeTable ----------------------------
(***************************************************************************)
(* Adding and deleting transcode sessions: TranscodeManager and            *)
(* TranscodeSession of crates/transcode/src/manager.rs, called by the      *)
(* addTranscode and delTranscode handlers.  Calls run concurrently; all    *)
(* are about one instance key, and so about one destination source.        *)
(***************************************************************************)
EXTENDS Integers, Sequences, FiniteSets

CONSTANTS
  TtCalls,      \* concurrent API calls
  MaxSessions   \* sessions created in a behaviour

VARIABLES
  ttTable,      \* the session in the table, 0 for none
  ttTasks,      \* per session created: its task, "running" or "over"
  ttStops,      \* deleted sessions whose stop() has not run
  ttAdds,       \* per call: [pc, session] of an add under way
  ttDest,       \* the destination source is registered, and has its sender
  ttPanics      \* adds that found no entry to report

ttVars == <<ttTable, ttTasks, ttStops, ttAdds, ttDest, ttPanics>>

IdleAdd == [pc |-> "idle", session |-> 0]

TtInit ==
  /\ ttTable = 0
  /\ ttTasks = <<>>
  /\ ttStops = {}
  /\ ttAdds = [c \in TtCalls |-> IdleAdd]
  /\ ttDest = [registered |-> FALSE, open |-> FALSE]
  /\ ttPanics = 0

\* An existing session is reported; else the destination is got or created and
\* the task spawned, which looks for the source.
add_transcode(c) ==
  /\ ttAdds[c].pc = "idle"
  /\ ttTable = 0
  /\ Len(ttTasks) < MaxSessions
  /\ ttDest' = IF ttDest.registered THEN ttDest ELSE [registered |-> TRUE, open |-> TRUE]
  /\ ttTasks' = Append(ttTasks, "running")
  /\ ttAdds' = [ttAdds EXCEPT ![c] = [pc |-> "insert", session |-> Len(ttTasks) + 1]]
  /\ UNCHANGED <<ttTable, ttStops, ttPanics>>

\* Mutant: a session that is dropped leaves its task running.
dropped_runs(s) == ttTasks

\* Dropping a session aborts its task.
dropped(s) == IF s = 0 THEN ttTasks ELSE [ttTasks EXCEPT ![s] = "over"]

\* The insert drops the session of a call that got there first.
insert_session(c) ==
  /\ ttAdds[c].pc = "insert"
  /\ ttTasks' = dropped(ttTable)
  /\ ttTable' = ttAdds[c].session
  /\ ttAdds' = [ttAdds EXCEPT ![c].pc = "report"]
  /\ UNCHANGED <<ttStops, ttDest, ttPanics>>

\* The entry is looked up again to report it, and unwrapped.
report_session(c) ==
  /\ ttAdds[c].pc = "report"
  /\ ttPanics' = ttPanics + (IF ttTable = 0 THEN 1 ELSE 0)
  /\ ttAdds' = [ttAdds EXCEPT ![c] = IdleAdd]
  /\ UNCHANGED <<ttTable, ttTasks, ttStops, ttDest>>

\* del_transcode takes the entry out and leaves the rest to a spawned task.
del_transcode ==
  /\ ttTable # 0
  /\ ttStops' = ttStops \cup {ttTable}
  /\ ttTable' = 0
  /\ UNCHANGED <<ttTasks, ttAdds, ttDest, ttPanics>>

\* stop() aborts the task and closes the destination, which stays registered.
stop_session(s) ==
  /\ s \in ttStops
  /\ ttStops' = ttStops \ {s}
  /\ ttTasks' = dropped(s)
  /\ ttDest' = [ttDest EXCEPT !.open = FALSE]
  /\ UNCHANGED <<ttTable, ttAdds, ttPanics>>

\* The task ends by itself: no ffmpeg, or the source closed.  Its entry stays.
task_ends(s) ==
  /\ s \in 1 .. Len(ttTasks) /\ ttTasks[s] = "running"
  /\ ttTasks' = [ttTasks EXCEPT ![s] = "over"]
  /\ UNCHANGED <<ttTable, ttStops, ttAdds, ttDest, ttPanics>>

TtNext ==
  \/ \E c \in TtCalls : add_transcode(c) \/ insert_session(c) \/ report_session(c)
  \/ del_transcode
  \/ \E s \in 1 .. MaxSessions : stop_session(s) \/ task_ends(s)

-----------------------------------------------------------------------------
(* Properties. *)

\* A task that transcodes can be stopped: it is in the table, or its call is
\* about to put it there, or its stop is on the way.  No interleaving of two
\* additions and a deletion leaves one behind that nothing can reach.
TtReachable ==
  \A s \in 1 .. Len(ttTasks) :
    ttTasks[s] = "running" =>
      \/ s = ttTable
      \/ s \in ttStops
      \/ \E c \in TtCalls : ttAdds[c] = [pc |-> "insert", session |-> s]

\* The output stream can be played back over any protocol immediately
\* (manager.rs:373): its source has a sender while the session is listed.
TtPlayable ==
  ttTable # 0 /\ ttStops = {} => ttDest.open
=============================================================================
